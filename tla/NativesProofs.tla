---------------------------- MODULE NativesProofs ----------------------------
(***************************************************************************)
(* Theorems about the natives, for every value of their constants: tables,  *)
(* module events, aggregators of both kinds that a session delays, points   *)
(* of ristretto255, the identifiers of a transaction, the elements of       *)
(* crypto_algebra and the keys and signatures of BLS12-381 and Ed25519.     *)
(* MCNatives checks the same modules together.                              *)
(***************************************************************************)
EXTENDS TableNatives, EventNatives, AggregatorV1, AggregatorV2, RistrettoPoints,
        TransactionContext, CryptoAlgebra, SignatureNatives, MoveTableTheorems,
        FiniteSetTheorems, SequenceTheorems, WellFoundedInduction

(* Tables.                                                                  *)

Got(entry) == get_or_create_global_value(entry)

-----------------------------------------------------------------------------
(* What holds between transactions and inside a session.                   *)

\* A handle was given out by a session that has run, and by its place in it.
HandlesInv ==
  /\ \A h \in given : h.txn \in used
  /\ status = "running" =>
       /\ txn \in used
       /\ \A h \in given : h.txn = txn => h.n < Len(new_tables)

\* A cached status says truly whether the entry is stored, and an entry that
\* was only read has the value that is stored.
CacheInv ==
  \A e \in DOMAIN content :
    /\ content[e].is \in {"fresh", "none"} <=> e \notin DOMAIN store
    /\ content[e].is = "clean" => content[e].val = store[e]

\* Every entry belongs to a table, in storage and as the session sees it.
BelongInv ==
  /\ DOMAIN lengths \subseteq given /\ DOMAIN length \subseteq given
  /\ NoOrphans
  /\ status = "running" => \A e \in Entry : exists(Got(e)) => e[1] \in DOMAIN length

\* There is no session data outside a session.
IdleInv == status = "idle" => new_tables = <<>> /\ content = new /\ length = new

TablesInv ==
  /\ TableTypeOK
  /\ HandlesInv
  /\ status # "failed" => CacheInv
  /\ BelongInv
  /\ LengthsCount
  /\ IdleInv

-----------------------------------------------------------------------------
(* The cache.                                                               *)

\* What an entry is taken for is a well-typed value.
LEMMA GotIsTyped ==
  ASSUME TableTypeOK, NEW e \in Entry
  PROVE  /\ Got(e) \in GlobalValue
         /\ exists(Got(e)) => Got(e).val \in Value
  BY DEF TableTypeOK, SessionTypeOK, Got, get_or_create_global_value, IsTable, GlobalValue, exists

\* The transitions of a GlobalValue give values of its type.
LEMMA TransitionsAreTyped ==
  ASSUME NEW gv \in GlobalValue, NEW val \in Value
  PROVE  /\ move_to(gv, val) \in GlobalValue /\ exists(move_to(gv, val))
         /\ move_to(gv, val).val = val
         /\ move_from(gv) \in GlobalValue /\ ~ exists(move_from(gv))
         /\ write_ref(gv, val) \in GlobalValue /\ exists(write_ref(gv, val))
         /\ write_ref(gv, val).val = val
  BY DEF GlobalValue, move_to, move_from, write_ref, exists

\* Caching one entry leaves what all others are taken for.
LEMMA CacheEffect ==
  ASSUME TableTypeOK, NEW entry \in Entry, NEW gv \in GlobalValue,
         cache_entry(entry, gv), store' = store
  PROVE  /\ IsTable(content', Entry, GlobalValue)
         /\ DOMAIN content' = DOMAIN content \cup {entry}
         /\ Got(entry)' = gv
         /\ \A e \in Entry : e # entry => Got(e)' = Got(e)
<1>1. /\ DOMAIN content' = DOMAIN content \cup {entry}
      /\ content'[entry] = gv
      /\ \A e \in DOMAIN content : e # entry => content'[e] = content[e]
  BY DEF cache_entry
<1>2. IsTable(content', Entry, GlobalValue)
  BY <1>1 DEF cache_entry, TableTypeOK, SessionTypeOK, IsTable
<1> QED
  BY <1>1, <1>2 DEF Got, get_or_create_global_value

\* The entry that a native is about to work on agrees with storage.
LEMMA GotMatchesStore ==
  ASSUME CacheInv, NEW e
  PROVE  /\ Got(e).is \in {"fresh", "none"} <=> e \notin DOMAIN store
         /\ Got(e).is = "clean" => Got(e).val = store[e]
  BY DEF CacheInv, Got, get_or_create_global_value

\* Caching a value whose status says truly whether the entry is stored keeps
\* the cache in agreement.
LEMMA CacheKeepsCacheInv ==
  ASSUME TableTypeOK, CacheInv, NEW entry \in Entry, NEW gv \in GlobalValue,
         cache_entry(entry, gv), store' = store,
         gv.is \in {"fresh", "none"} <=> entry \notin DOMAIN store,
         gv.is = "clean" => gv.val = store[entry]
  PROVE  CacheInv'
  BY DEF cache_entry, CacheInv

\* The keys of a table that an operation on one entry changes.
LEMMA SeenKeysEffect ==
  ASSUME TableTypeOK, NEW handle \in Handle, NEW key \in Key, NEW gv \in GlobalValue,
         cache_entry(<<handle, key>>, gv), store' = store
  PROVE  /\ \A h \in Handle : h # handle => SeenKeys(h)' = SeenKeys(h)
         /\ SeenKeys(handle)' = IF exists(gv) THEN SeenKeys(handle) \cup {key}
                                ELSE SeenKeys(handle) \ {key}
<1>1. <<handle, key>> \in Entry
  BY DEF Entry
<1>2. /\ Got(<<handle, key>>)' = gv
      /\ \A e \in Entry : e # <<handle, key>> => Got(e)' = Got(e)
  BY <1>1, CacheEffect
<1>3. \A h \in Handle, k \in Key : <<h, k>> \in Entry
  BY DEF Entry
<1>4. ASSUME NEW h \in Handle, h # handle
      PROVE  SeenKeys(h)' = SeenKeys(h)
  BY <1>2, <1>3, <1>4 DEF SeenKeys, Got, exists
<1>5. \A k \in Key : k # key => Got(<<handle, k>>)' = Got(<<handle, k>>)
  BY <1>2, <1>3
<1> QED
  BY <1>2, <1>4, <1>5 DEF SeenKeys, Got, exists

\* A table has finitely many entries.
LEMMA KeysAreFinite ==
  ASSUME NEW h
  PROVE  /\ IsFiniteSet(SeenKeys(h)) /\ Cardinality(SeenKeys(h)) \in Nat
         /\ IsFiniteSet(StoredKeys(h)) /\ Cardinality(StoredKeys(h)) \in Nat
  BY TableConstants, FS_Subset, FS_CardinalityType DEF SeenKeys, StoredKeys

-----------------------------------------------------------------------------
(* The invariant holds at the start.                                       *)

LEMMA TablesInitially == TableInit => TablesInv
<1> SUFFICES ASSUME TableInit PROVE TablesInv
  OBVIOUS
<1>1. TableTypeOK
  BY TableConstants, NewTable DEF TableInit, SessionInit, TableTypeOK, SessionTypeOK
<1>2. DOMAIN new = {}
  BY DEF new
<1> QED
  BY <1>1, <1>2 DEF TableInit, SessionInit, TablesInv, HandlesInv, CacheInv, BelongInv, NoOrphans, LengthsCount, IdleInv

-----------------------------------------------------------------------------
(* Every step keeps it.                                                    *)

\* A session begins over what is stored.
LEMMA StartKeepsTables ==
  ASSUME TablesInv, NEW hash \in TxnHash, start_tables(hash)
  PROVE  TablesInv'
<1>1. content = new /\ content' = new /\ DOMAIN new = {} /\ new_tables' = <<>>
  BY DEF start_tables, open_session, TablesInv, IdleInv, new
<1>2. TableTypeOK'
  BY <1>1 DEF start_tables, open_session, TablesInv, TableTypeOK, SessionTypeOK
<1>3. HandlesInv'
  BY DEF start_tables, open_session, TablesInv, HandlesInv
<1>4. \A e \in Entry : exists(Got(e))' <=> e \in DOMAIN store
  BY <1>1 DEF Got, get_or_create_global_value, exists, start_tables, open_session
<1>5. \A h \in Handle : SeenKeys(h)' = StoredKeys(h)
  BY <1>4 DEF SeenKeys, StoredKeys, Got, Entry, exists
<1>6. BelongInv'
  BY <1>4 DEF start_tables, open_session, TablesInv, BelongInv, NoOrphans
<1>7. LengthsCount'
  <2>1. \A h \in DOMAIN lengths : h \in Handle
    BY DEF TablesInv, TableTypeOK, SessionTypeOK, IsTable
  <2> QED
    BY <1>5, <2>1 DEF start_tables, open_session, TablesInv, LengthsCount, StoredKeys
<1> QED
  BY <1>1, <1>2, <1>3, <1>6, <1>7 DEF start_tables, open_session, TablesInv, CacheInv, IdleInv

\* The handle of a new table is new, and the table is empty.
LEMMA NewHandle ==
  ASSUME TablesInv, status = "running", Len(new_tables) < MaxTables
  PROVE  /\ new_handle \in Handle /\ new_handle \notin given
         /\ new_handle.n = Len(new_tables) /\ new_handle.txn = txn
         /\ SeenKeys(new_handle) = {}
<1>1. new_handle \in Handle
  BY TableConstants DEF new_handle, Handle, TablesInv, TableTypeOK, SessionTypeOK
<1>2. new_handle \notin given
  BY DEF new_handle, TablesInv, HandlesInv
<1>3. SeenKeys(new_handle) = {}
  <2>1. \A key \in Key : <<new_handle, key>> \in Entry
    BY <1>1 DEF Entry
  <2> QED
    BY <1>2, <2>1 DEF SeenKeys, Got, TablesInv, BelongInv
<1> QED
  BY <1>1, <1>2, <1>3 DEF new_handle

LEMMA NewTableKeepsTables ==
  ASSUME TablesInv, native_new_table_handle
  PROVE  TablesInv'
<1>1. CASE status' = "failed" /\ UNCHANGED <<new_tables, given, length>>
  BY <1>1 DEF native_new_table_handle, TablesInv, TableTypeOK, SessionTypeOK, HandlesInv, BelongInv, NoOrphans,
              LengthsCount, IdleInv, StoredKeys
<1>2. CASE /\ new_tables' = Append(new_tables, new_handle)
           /\ given' = given \cup {new_handle}
           /\ length' = add(length, new_handle, 0)
           /\ UNCHANGED status
  <2>0. /\ status = "running" /\ Len(new_tables) < MaxTables
        /\ UNCHANGED <<store, lengths, used, txn, removed_tables, content>>
    BY DEF native_new_table_handle
  <2>1. /\ new_handle \in Handle /\ new_handle \notin given
        /\ new_handle.n = Len(new_tables) /\ new_handle.txn = txn
        /\ SeenKeys(new_handle) = {}
    BY <2>0, NewHandle
  <2>2. /\ IsTable(length', Handle, Int)
        /\ DOMAIN length' = DOMAIN length \cup {new_handle}
        /\ length'[new_handle] = 0
        /\ \A h \in DOMAIN length : h # new_handle => length'[h] = length[h]
    <3>1. IsTable(length, Handle, Int) /\ 0 \in Int
      BY DEF TablesInv, TableTypeOK, SessionTypeOK
    <3>2. DEFINE handle == new_handle
    <3>3. handle \in Handle /\ length' = add(length, handle, 0)
      BY <1>2, <2>1
    <3> HIDE DEF handle
    <3>4. /\ IsTable(add(length, handle, 0), Handle, Int)
          /\ DOMAIN add(length, handle, 0) = DOMAIN length \cup {handle}
          /\ add(length, handle, 0)[handle] = 0
          /\ \A h \in DOMAIN length : h # handle => add(length, handle, 0)[h] = length[h]
      BY <3>1, <3>3 DEF add, IsTable
    <3> QED
      BY <3>3, <3>4 DEF handle
  <2>3. TableTypeOK'
    <3>1. new_tables' \in Seq(Handle) /\ Len(new_tables') = Len(new_tables) + 1
      BY <1>2, <2>1 DEF TablesInv, TableTypeOK, SessionTypeOK
    <3> QED
      BY <1>2, <2>0, <2>1, <2>2, <3>1, TableConstants DEF TablesInv, TableTypeOK, SessionTypeOK
  <2>4. HandlesInv'
    <3>1. Len(new_tables') = Len(new_tables) + 1 /\ Len(new_tables) \in Nat
      BY <1>2, <2>1 DEF TablesInv, TableTypeOK, SessionTypeOK
    <3>2. \A h \in given : h.n \in Int
      BY TableConstants DEF TablesInv, TableTypeOK, SessionTypeOK, Handle
    <3> QED
      BY <1>2, <2>0, <2>1, <3>1, <3>2 DEF TablesInv, HandlesInv
  <2>5. \A e : Got(e)' = Got(e)
    BY <2>0 DEF Got, get_or_create_global_value
  <2>6. \A h : SeenKeys(h)' = SeenKeys(h) /\ StoredKeys(h)' = StoredKeys(h)
    BY <2>0, <2>5 DEF SeenKeys, StoredKeys, Got
  <2>7. BelongInv'
    BY <1>2, <2>0, <2>2, <2>5 DEF TablesInv, BelongInv, NoOrphans, exists
  <2>8. LengthsCount'
    <3>1. \A h \in DOMAIN length : h # new_handle
      BY <2>1 DEF TablesInv, BelongInv
    <3>2. Cardinality({}) = 0
      BY FS_EmptySet
    <3> QED
      BY <1>2, <2>0, <2>1, <2>2, <2>6, <3>1, <3>2 DEF TablesInv, LengthsCount
  <2> QED
    BY <1>2, <2>0, <2>3, <2>4, <2>7, <2>8 DEF TablesInv, CacheInv, IdleInv
<1> QED
  BY <1>1, <1>2 DEF native_new_table_handle

\* By how much an operation changes the number of entries.
Delta(before, after) ==
  IF exists(after) /\ ~ exists(before) THEN 1
  ELSE IF exists(before) /\ ~ exists(after) THEN -1 ELSE 0

\* A native that caches a value in agreement with storage, and is counted if
\* the session goes on.
LEMMA NativeKeepsTables ==
  ASSUME TablesInv, status = "running", NEW handle \in DOMAIN length, NEW key \in Key,
         NEW gv \in GlobalValue, cache_entry(<<handle, key>>, gv), tableCall,
         gv.is \in {"fresh", "none"} <=> <<handle, key>> \notin DOMAIN store,
         gv.is = "clean" => gv.val = store[<<handle, key>>],
         \/ status' = "failed" /\ length' = length
         \/ /\ status' = "running"
            /\ length' = [length EXCEPT ![handle] = @ + Delta(Got(<<handle, key>>), gv)]
  PROVE  TablesInv'
<1>0. handle \in Handle /\ <<handle, key>> \in Entry
  BY DEF TablesInv, TableTypeOK, SessionTypeOK, IsTable, Entry
<1>1. IsTable(length', Handle, Int) /\ DOMAIN length' = DOMAIN length
  <2>1. Delta(Got(<<handle, key>>), gv) \in Int
    BY DEF Delta
  <2> QED
    BY <2>1 DEF TablesInv, TableTypeOK, SessionTypeOK, IsTable
<1>2. TableTypeOK'
  <2>1. IsTable(content', Entry, GlobalValue)
    BY <1>0, CacheEffect DEF TablesInv, tableCall
  <2> QED
    BY <1>1, <2>1 DEF TablesInv, TableTypeOK, SessionTypeOK, tableCall
<1>3. HandlesInv'
  BY DEF TablesInv, HandlesInv, tableCall
<1>4. CacheInv'
  BY <1>0, CacheKeepsCacheInv DEF TablesInv, tableCall
<1>5. BelongInv'
  <2>1. \A e \in Entry : e # <<handle, key>> => Got(e)' = Got(e)
    BY <1>0, CacheEffect DEF TablesInv, tableCall
  <2>2. \A e \in Entry : exists(Got(e))' => e[1] \in DOMAIN length'
    BY <1>1, <2>1 DEF TablesInv, BelongInv, exists
  <2> QED
    BY <1>1, <2>2 DEF TablesInv, BelongInv, NoOrphans, tableCall
<1>6. LengthsCount'
  <2>1. \A h : StoredKeys(h)' = StoredKeys(h)
    BY DEF StoredKeys, tableCall
  <2>2. ASSUME status' = "running", NEW h \in DOMAIN length'
        PROVE  length'[h] = Cardinality(SeenKeys(h)')
    <3>1. length' = [length EXCEPT ![handle] = @ + Delta(Got(<<handle, key>>), gv)]
      BY <2>2
    <3>2. h \in Handle /\ h \in DOMAIN length /\ length[h] = Cardinality(SeenKeys(h))
      BY <1>1, <2>2 DEF TablesInv, TableTypeOK, SessionTypeOK, IsTable, LengthsCount
    <3>3. /\ h # handle => SeenKeys(h)' = SeenKeys(h)
          /\ SeenKeys(handle)' = IF exists(gv) THEN SeenKeys(handle) \cup {key}
                                ELSE SeenKeys(handle) \ {key}
      BY <1>0, <3>2, SeenKeysEffect DEF TablesInv, tableCall
    <3>4. CASE h # handle
      BY <3>1, <3>2, <3>3, <3>4
    <3>5. CASE h = handle
      <4>1. key \in SeenKeys(handle) <=> exists(Got(<<handle, key>>))
        BY DEF SeenKeys, Got
      <4>2. IsFiniteSet(SeenKeys(handle)) /\ Cardinality(SeenKeys(handle)) \in Nat
        BY KeysAreFinite
      <4>3. Cardinality(SeenKeys(handle) \cup {key})
              = IF key \in SeenKeys(handle) THEN Cardinality(SeenKeys(handle))
                ELSE Cardinality(SeenKeys(handle)) + 1
        BY <4>2, FS_AddElement
      <4>4. Cardinality(SeenKeys(handle) \ {key})
              = IF key \in SeenKeys(handle) THEN Cardinality(SeenKeys(handle)) - 1
                ELSE Cardinality(SeenKeys(handle))
        BY <4>2, FS_RemoveElement
      <4>5. length'[handle] = Cardinality(SeenKeys(handle)) + Delta(Got(<<handle, key>>), gv)
        BY <3>1, <3>2, <3>5
      <4>6. CASE exists(gv)
        <5>1. SeenKeys(handle)' = SeenKeys(handle) \cup {key}
          BY <3>3, <4>6
        <5>2. length'[handle] = Cardinality(SeenKeys(handle) \cup {key})
          BY <4>1, <4>2, <4>3, <4>5, <4>6 DEF Delta, exists
        <5> QED
          BY <3>5, <5>1, <5>2
      <4>7. CASE ~ exists(gv)
        <5>1. SeenKeys(handle)' = SeenKeys(handle) \ {key}
          BY <3>3, <4>7
        <5>2. length'[handle] = Cardinality(SeenKeys(handle) \ {key})
          BY <4>1, <4>2, <4>4, <4>5, <4>7 DEF Delta, exists
        <5> QED
          BY <3>5, <5>1, <5>2
      <4> QED
        BY <4>6, <4>7
    <3> QED
      BY <3>4, <3>5
  <2> QED
    BY <2>1, <2>2 DEF TablesInv, LengthsCount, tableCall
<1> QED
  BY <1>2, <1>3, <1>4, <1>5, <1>6 DEF TablesInv, IdleInv

\* The five natives on tables that exist.
LEMMA AddKeepsTables ==
  ASSUME TablesInv, NEW handle \in DOMAIN length, NEW key \in Key, NEW val \in Value,
         native_add_box(handle, key, val)
  PROVE  TablesInv'
<1> DEFINE gv == Got(<<handle, key>>)
<1>0. <<handle, key>> \in Entry
  BY DEF TablesInv, TableTypeOK, SessionTypeOK, IsTable, Entry
<1>1. gv \in GlobalValue /\ status = "running" /\ tableCall
  BY <1>0, GotIsTyped DEF TablesInv, native_add_box
<1>2. /\ gv.is \in {"fresh", "none"} <=> <<handle, key>> \notin DOMAIN store
      /\ gv.is = "clean" => gv.val = store[<<handle, key>>]
  BY <1>1, GotMatchesStore DEF TablesInv
<1>3. CASE /\ ~ exists(gv)
           /\ cache_entry(<<handle, key>>, move_to(gv, val))
           /\ charge_table([length EXCEPT ![handle] = @ + 1])
  <2>1. move_to(gv, val) \in GlobalValue /\ exists(move_to(gv, val))
    BY <1>1, TransitionsAreTyped
  <2>2. /\ move_to(gv, val).is \in {"fresh", "none"} <=> <<handle, key>> \notin DOMAIN store
        /\ move_to(gv, val).is # "clean"
    BY <1>1, <1>2, <1>3 DEF move_to, exists, GlobalValue
  <2>3. Delta(gv, move_to(gv, val)) = 1
    BY <1>3, <2>1 DEF Delta
  <2> HIDE DEF gv
  <2> QED
    BY <1>1, <1>3, <2>1, <2>2, <2>3, NativeKeepsTables DEF charge_table, gv
<1>4. CASE cache_entry(<<handle, key>>, gv) /\ status' = "failed" /\ UNCHANGED length
  BY <1>1, <1>2, <1>4, NativeKeepsTables
<1> QED
  BY <1>3, <1>4 DEF native_add_box, Got

LEMMA BorrowKeepsTables ==
  ASSUME TablesInv, NEW handle \in DOMAIN length, NEW key \in Key,
         native_borrow_box(handle, key, Value)
  PROVE  TablesInv'
<1> DEFINE gv == Got(<<handle, key>>)
<1>0. <<handle, key>> \in Entry /\ length[handle] \in Int
  BY DEF TablesInv, TableTypeOK, SessionTypeOK, IsTable, Entry
<1>1. gv \in GlobalValue /\ status = "running" /\ tableCall /\ UNCHANGED length
  BY <1>0, GotIsTyped DEF TablesInv, native_borrow_box
<1>2. /\ gv.is \in {"fresh", "none"} <=> <<handle, key>> \notin DOMAIN store
      /\ gv.is = "clean" => gv.val = store[<<handle, key>>]
  BY <1>1, GotMatchesStore DEF TablesInv
<1>3. ASSUME NEW after \in GlobalValue, Delta(gv, after) = 0, status' = "running"
      PROVE  length' = [length EXCEPT ![handle] = @ + Delta(gv, after)]
  BY <1>0, <1>1, <1>3 DEF TablesInv, TableTypeOK, SessionTypeOK, IsTable
<1>4. CASE cache_entry(<<handle, key>>, gv) /\ status' \in {"running", "failed"}
  <2>1. Delta(gv, gv) = 0
    BY DEF Delta, exists
  <2> QED
    BY <1>1, <1>2, <1>3, <1>4, <2>1, NativeKeepsTables
<1>5. ASSUME NEW val \in Value, exists(gv), status' = "running",
             cache_entry(<<handle, key>>, write_ref(gv, val))
      PROVE  TablesInv'
  <2>1. write_ref(gv, val) \in GlobalValue /\ exists(write_ref(gv, val))
    BY <1>1, TransitionsAreTyped
  <2>2. /\ write_ref(gv, val).is \in {"fresh", "none"} <=> <<handle, key>> \notin DOMAIN store
        /\ write_ref(gv, val).is # "clean"
    BY <1>1, <1>2, <1>5 DEF write_ref, exists, GlobalValue
  <2>3. Delta(gv, write_ref(gv, val)) = 0
    BY <1>5, <2>1 DEF Delta
  <2> QED
    BY <1>1, <1>3, <1>5, <2>1, <2>2, <2>3, NativeKeepsTables
<1> QED
  BY <1>1, <1>4, <1>5 DEF native_borrow_box, Got

LEMMA ContainsKeepsTables ==
  ASSUME TablesInv, NEW handle \in DOMAIN length, NEW key \in Key, native_contains_box(handle, key)
  PROVE  TablesInv'
<1> DEFINE gv == Got(<<handle, key>>)
<1>0. <<handle, key>> \in Entry /\ length[handle] \in Int
  BY DEF TablesInv, TableTypeOK, SessionTypeOK, IsTable, Entry
<1>1. gv \in GlobalValue /\ status = "running" /\ tableCall
  BY <1>0, GotIsTyped DEF TablesInv, native_contains_box
<1>2. /\ gv.is \in {"fresh", "none"} <=> <<handle, key>> \notin DOMAIN store
      /\ gv.is = "clean" => gv.val = store[<<handle, key>>]
  BY <1>1, GotMatchesStore DEF TablesInv
<1>3. Delta(gv, gv) = 0
  BY DEF Delta, exists
<1>4. length = [length EXCEPT ![handle] = @ + Delta(gv, gv)]
  BY <1>0, <1>3 DEF TablesInv, TableTypeOK, SessionTypeOK, IsTable
<1>5. cache_entry(<<handle, key>>, gv) /\ charge_table(length)
  BY DEF native_contains_box, Got
<1> QED
  BY <1>1, <1>2, <1>4, <1>5, NativeKeepsTables DEF charge_table

LEMMA RemoveKeepsTables ==
  ASSUME TablesInv, NEW handle \in DOMAIN length, NEW key \in Key, native_remove_box(handle, key)
  PROVE  TablesInv'
<1> DEFINE gv == Got(<<handle, key>>)
<1>0. <<handle, key>> \in Entry /\ length[handle] \in Int
  BY DEF TablesInv, TableTypeOK, SessionTypeOK, IsTable, Entry
<1>1. gv \in GlobalValue /\ status = "running" /\ tableCall
  BY <1>0, GotIsTyped DEF TablesInv, native_remove_box
<1>2. /\ gv.is \in {"fresh", "none"} <=> <<handle, key>> \notin DOMAIN store
      /\ gv.is = "clean" => gv.val = store[<<handle, key>>]
  BY <1>1, GotMatchesStore DEF TablesInv
<1>3. CASE /\ exists(gv)
           /\ cache_entry(<<handle, key>>, move_from(gv))
           /\ charge_table([length EXCEPT ![handle] = @ - 1])
  <2>1. move_from(gv) \in GlobalValue /\ ~ exists(move_from(gv))
    BY <1>0, <1>1, GotIsTyped, TransitionsAreTyped, <1>3 DEF TablesInv
  <2>2. /\ move_from(gv).is \in {"fresh", "none"} <=> <<handle, key>> \notin DOMAIN store
        /\ move_from(gv).is # "clean"
    BY <1>1, <1>2, <1>3 DEF move_from, exists, GlobalValue
  <2>3. Delta(gv, move_from(gv)) = -1
    BY <1>3, <2>1 DEF Delta
  <2>4. [length EXCEPT ![handle] = @ - 1] = [length EXCEPT ![handle] = @ + Delta(gv, move_from(gv))]
    BY <1>0, <2>3
  <2> QED
    BY <1>1, <1>3, <2>1, <2>2, <2>4, NativeKeepsTables DEF charge_table
<1>4. CASE cache_entry(<<handle, key>>, gv) /\ status' = "failed" /\ UNCHANGED length
  BY <1>1, <1>2, <1>4, NativeKeepsTables
<1> QED
  BY <1>3, <1>4 DEF native_remove_box, Got

\* A table that is counted as empty is seen as empty.
LEMMA CountedEmpty ==
  ASSUME TablesInv, status = "running", NEW handle \in DOMAIN length, length[handle] = 0
  PROVE  SeenKeys(handle) = {}
<1>1. Cardinality(SeenKeys(handle)) = 0 /\ IsFiniteSet(SeenKeys(handle))
  BY KeysAreFinite DEF TablesInv, LengthsCount
<1> QED
  BY <1>1, FS_EmptySet

LEMMA DestroyKeepsTables ==
  ASSUME TablesInv, NEW handle \in DOMAIN length, native_destroy_empty_box(handle)
  PROVE  TablesInv'
<1>1. \A h : SeenKeys(h)' = SeenKeys(h) /\ StoredKeys(h)' = StoredKeys(h)
  BY DEF native_destroy_empty_box, SeenKeys, StoredKeys, get_or_create_global_value, exists
<1>2. \A e : Got(e)' = Got(e)
  BY DEF native_destroy_empty_box, Got, get_or_create_global_value
<1>3. CASE status' = "failed" /\ UNCHANGED <<removed_tables, length>>
  BY <1>1, <1>3 DEF native_destroy_empty_box, TablesInv, TableTypeOK, SessionTypeOK, HandlesInv, BelongInv, NoOrphans,
              LengthsCount, IdleInv
<1>4. CASE /\ removed_tables' = removed_tables \cup {handle}
           /\ length' = remove(length, handle)
           /\ UNCHANGED status
  <2>1. /\ IsTable(length', Handle, Int)
        /\ DOMAIN length' = DOMAIN length \ {handle}
        /\ \A h \in DOMAIN length' : length'[h] = length[h]
    BY <1>4 DEF TablesInv, TableTypeOK, SessionTypeOK, remove, IsTable
  <2>2. TableTypeOK'
    <3>1. handle \in Handle
      BY DEF TablesInv, TableTypeOK, SessionTypeOK, IsTable
    <3> QED
      BY <1>4, <2>1, <3>1 DEF native_destroy_empty_box, TablesInv, TableTypeOK, SessionTypeOK
  <2>3. SeenKeys(handle) = {}
    BY CountedEmpty DEF native_destroy_empty_box
  <2>4. \A e \in Entry : exists(Got(e)) => e[1] # handle
    <3>1. \A e \in Entry : e = <<e[1], e[2]>> /\ e[2] \in Key
      BY DEF Entry
    <3> QED
      BY <2>3, <3>1 DEF SeenKeys, Got
  <2>5. BelongInv'
    BY <1>2, <1>4, <2>1, <2>4 DEF native_destroy_empty_box, TablesInv, BelongInv, NoOrphans, exists
  <2>6. LengthsCount'
    BY <1>1, <1>4, <2>1 DEF native_destroy_empty_box, TablesInv, LengthsCount
  <2> QED
    BY <1>4, <2>2, <2>5, <2>6 DEF native_destroy_empty_box, TablesInv, HandlesInv, CacheInv, IdleInv
<1> QED
  BY <1>3, <1>4 DEF native_destroy_empty_box

\* A session leaves nothing behind.
LEMMA EndIsTyped ==
  ASSUME TableTypeOK, end_tables
  PROVE  /\ IsTable(length', Handle, Int) /\ IsTable(content', Entry, GlobalValue)
         /\ new_tables' \in Seq(Handle) /\ Len(new_tables') <= MaxTables
         /\ removed_tables' \subseteq Handle /\ status' = "idle"
<1>1. IsTable(new, Handle, Int) /\ IsTable(new, Entry, GlobalValue)
  BY DEF new, IsTable
<1> QED
  BY <1>1, TableConstants DEF end_tables, close_session

\* Storage after a commit is what the session has seen.
LEMMA CommitStores ==
  ASSUME TablesInv, commit_tables
  PROVE  \A e \in Entry :
           /\ e \in DOMAIN store' <=> exists(Got(e))
           /\ exists(Got(e)) => store'[e] = Got(e).val
<1>1. /\ store' = apply_entries(into_change_set)
      /\ CacheInv /\ TableTypeOK
  BY DEF commit_tables, TablesInv
<1>2. ASSUME NEW e \in Entry
      PROVE  /\ e \in DOMAIN store' <=> exists(Got(e))
             /\ exists(Got(e)) => store'[e] = Got(e).val
  <2>1. CASE e \notin DOMAIN content
    <3>1. e \notin DOMAIN into_change_set
      BY <2>1 DEF into_change_set
    <3>2. /\ e \in DOMAIN store' <=> e \in DOMAIN store
          /\ e \in DOMAIN store => store'[e] = store[e]
      BY <1>1, <3>1 DEF apply_entries
    <3> QED
      BY <2>1, <3>2 DEF Got, get_or_create_global_value, exists
  <2>2. CASE e \in DOMAIN content
    <3>1. content[e] \in GlobalValue /\ Got(e) = content[e]
      BY <1>1, <2>2 DEF TableTypeOK, SessionTypeOK, IsTable, Got, get_or_create_global_value
    <3>2. /\ content[e].is \in {"fresh", "none"} <=> e \notin DOMAIN store
          /\ content[e].is = "clean" => content[e].val = store[e]
      BY <1>1, <2>2 DEF CacheInv
    <3>3. CASE content[e].is \in {"none", "clean"}
      <4>1. into_effect(content[e]) = "None"
        BY <3>3 DEF into_effect
      <4>2. e \notin DOMAIN into_change_set
        BY <4>1 DEF into_change_set
      <4>3. /\ e \in DOMAIN store' <=> e \in DOMAIN store
            /\ e \in DOMAIN store => store'[e] = store[e]
        BY <1>1, <4>2 DEF apply_entries
      <4> QED
        BY <3>1, <3>2, <3>3, <4>3 DEF exists
    <3>4. CASE content[e].is \in {"fresh", "dirty", "deleted"}
      <4>1. /\ into_effect(content[e]) # "None"
            /\ into_effect(content[e]) = "Delete" <=> content[e].is = "deleted"
        BY <3>4 DEF into_effect
      <4>2. /\ e \in DOMAIN into_change_set
            /\ into_change_set[e].op = into_effect(content[e])
            /\ into_change_set[e].val = content[e].val
        BY <2>2, <4>1 DEF into_change_set
      <4>3. /\ e \in DOMAIN store' <=> into_change_set[e].op # "Delete"
            /\ e \in DOMAIN store' => store'[e] = into_change_set[e].val
        BY <1>1, <4>2 DEF apply_entries
      <4> QED
        BY <3>1, <3>4, <4>1, <4>2, <4>3 DEF exists
    <3> QED
      BY <3>1, <3>3, <3>4 DEF GlobalValue
  <2> QED
    BY <2>1, <2>2
<1> QED
  BY <1>2

LEMMA CommitKeepsTables ==
  ASSUME TablesInv, commit_tables
  PROVE  TablesInv'
<1>1. \A e \in Entry :
        /\ e \in DOMAIN store' <=> exists(Got(e))
        /\ exists(Got(e)) => store'[e] = Got(e).val
  BY CommitStores
<1>2. DOMAIN store' \subseteq Entry
  BY DEF commit_tables, apply_entries, into_change_set, TablesInv, TableTypeOK, SessionTypeOK, IsTable
<1>3. IsTable(store', Entry, Value)
  <2>1. store' = [e \in DOMAIN store' |-> store'[e]]
    BY DEF commit_tables, apply_entries
  <2>2. \A e \in DOMAIN store' : store'[e] \in Value
    BY <1>1, <1>2, GotIsTyped DEF TablesInv
  <2> QED
    BY <1>2, <2>1, <2>2 DEF IsTable
<1>4. TableTypeOK'
  BY <1>3, EndIsTyped DEF commit_tables, end_tables, close_session, TablesInv, TableTypeOK, SessionTypeOK
<1>5. HandlesInv'
  BY DEF commit_tables, end_tables, close_session, TablesInv, HandlesInv
<1>6. BelongInv'
  BY <1>1, <1>2 DEF commit_tables, end_tables, close_session, TablesInv, BelongInv, NoOrphans, new
<1>7. LengthsCount'
  <2>1. ASSUME NEW h \in DOMAIN length
        PROVE  StoredKeys(h)' = SeenKeys(h)
    <3>1. \A key \in Key : <<h, key>> \in Entry
      BY DEF TablesInv, TableTypeOK, SessionTypeOK, IsTable, Entry
    <3> QED
      BY <1>1, <3>1 DEF StoredKeys, SeenKeys, Got
  <2> QED
    BY <2>1 DEF commit_tables, end_tables, close_session, TablesInv, LengthsCount
<1> QED
  BY <1>4, <1>5, <1>6, <1>7 DEF commit_tables, end_tables, close_session, TablesInv, CacheInv, IdleInv, new

LEMMA DiscardKeepsTables ==
  ASSUME TablesInv, discard_tables
  PROVE  TablesInv'
<1>1. TableTypeOK'
  BY EndIsTyped DEF discard_tables, end_tables, close_session, TablesInv, TableTypeOK, SessionTypeOK
<1>2. LengthsCount'
  BY DEF discard_tables, end_tables, close_session, TablesInv, LengthsCount, StoredKeys
<1> QED
  BY <1>1, <1>2 DEF discard_tables, end_tables, close_session, TablesInv, HandlesInv, CacheInv, BelongInv, NoOrphans,
                    IdleInv, new

LEMMA TablesInvIsInductive == TablesInv /\ [TableNext]_tableVars => TablesInv'
<1> SUFFICES ASSUME TablesInv, [TableNext]_tableVars PROVE TablesInv'
  OBVIOUS
<1>1. CASE UNCHANGED tableVars
  <2>1. \A h : SeenKeys(h)' = SeenKeys(h) /\ StoredKeys(h)' = StoredKeys(h)
    BY <1>1 DEF tableVars, sessionVars, tableSession, SeenKeys, StoredKeys, get_or_create_global_value, exists
  <2>2. \A e : Got(e)' = Got(e)
    BY <1>1 DEF tableVars, sessionVars, tableSession, Got, get_or_create_global_value
  <2> QED
    BY <1>1, <2>1, <2>2 DEF tableVars, sessionVars, tableSession, TablesInv, TableTypeOK, SessionTypeOK, HandlesInv, CacheInv, BelongInv,
                            NoOrphans, LengthsCount, IdleInv, exists
<1>2. CASE TableNext
  BY <1>2, StartKeepsTables, NewTableKeepsTables, AddKeepsTables, BorrowKeepsTables, ContainsKeepsTables,
     RemoveKeepsTables, DestroyKeepsTables, CommitKeepsTables, DiscardKeepsTables DEF TableNext, TableCall
<1> QED
  BY <1>1, <1>2

LEMMA TablesInvAlways == TableSpec => []TablesInv
  BY TablesInitially, TablesInvIsInductive, PTL DEF TableSpec

(* The state of the sessions and of storage is well typed.                 *)
THEOREM TablesTypeCorrect == TableSpec => []TableTypeOK
  BY TablesInvAlways, PTL DEF TablesInv

(* A change set creates only what is not stored, and modifies and deletes   *)
(* only what is.                                                            *)
THEOREM ChangeSetsFit == TableSpec => []ChangeSetFits
<1>1. TablesInv => ChangeSetFits
  <2> SUFFICES ASSUME TablesInv, status = "running", NEW e \in DOMAIN into_change_set
               PROVE  into_change_set[e].op = "New" <=> e \notin DOMAIN store
    BY DEF ChangeSetFits
  <2>1. /\ e \in DOMAIN content /\ into_change_set[e].op = into_effect(content[e])
        /\ into_effect(content[e]) # "None"
    BY DEF into_change_set
  <2>2. content[e] \in GlobalValue
    BY <2>1 DEF TablesInv, TableTypeOK, SessionTypeOK, IsTable
  <2>3. content[e].is \in {"fresh", "none"} <=> e \notin DOMAIN store
    BY <2>1 DEF TablesInv, CacheInv
  <2> QED
    BY <2>1, <2>2, <2>3 DEF into_effect, GlobalValue
<1> QED
  BY TablesInvAlways, <1>1, PTL

(* The counters of TableWithLength count the entries.                      *)
THEOREM LengthsAlwaysCount == TableSpec => []LengthsCount
  BY TablesInvAlways, PTL DEF TablesInv

(* No entry is left in storage without its table.                          *)
THEOREM NoOrphansEver == TableSpec => []NoOrphans
  BY TablesInvAlways, PTL DEF TablesInv, BelongInv

-----------------------------------------------------------------------------
(* Refinement: the session over storage is a transaction on plain tables.   *)

\* What the session sees of its tables, entry by entry.
LEMMA SeenTablesAre ==
  /\ DOMAIN SeenTables = DOMAIN length
  /\ \A h \in DOMAIN length :
       /\ SeenTables[h] = [key \in SeenKeys(h) |-> Got(<<h, key>>).val]
       /\ DOMAIN SeenTables[h] = SeenKeys(h)
       /\ \A key \in SeenKeys(h) : SeenTables[h][key] = Got(<<h, key>>).val
  BY DEF SeenTables, Got

\* An operation on one entry changes one table, at one key.
LEMMA SeenTablesEffect ==
  ASSUME TableTypeOK, NEW handle \in DOMAIN length, NEW key \in Key, NEW gv \in GlobalValue,
         cache_entry(<<handle, key>>, gv), store' = store, DOMAIN length' = DOMAIN length
  PROVE  /\ exists(gv) =>
              SeenTables' = write(SeenTables, handle,
                [k \in SeenKeys(handle) \cup {key} |->
                  IF k = key THEN gv.val ELSE SeenTables[handle][k]])
         /\ ~ exists(gv) =>
              SeenTables' = write(SeenTables, handle,
                [k \in SeenKeys(handle) \ {key} |-> SeenTables[handle][k]])
<1>1. handle \in Handle /\ \A h \in DOMAIN length : h \in Handle
  BY DEF TableTypeOK, SessionTypeOK, IsTable
<1>2. <<handle, key>> \in Entry /\ \A h \in Handle, k \in Key : <<h, k>> \in Entry
  BY <1>1 DEF Entry
<1>3. /\ Got(<<handle, key>>)' = gv
      /\ \A e \in Entry : e # <<handle, key>> => Got(e)' = Got(e)
  BY <1>2, CacheEffect
<1>4. /\ \A h \in Handle : h # handle => SeenKeys(h)' = SeenKeys(h)
      /\ SeenKeys(handle)' = IF exists(gv) THEN SeenKeys(handle) \cup {key}
                            ELSE SeenKeys(handle) \ {key}
  BY <1>1, SeenKeysEffect
<1>5. \A h : SeenKeys(h) \subseteq Key
  BY DEF SeenKeys
<1>6. SeenTables' = [h \in DOMAIN length |-> [k \in SeenKeys(h)' |-> (Got(<<h, k>>).val)']]
  BY DEF SeenTables, Got
<1>7. \A h \in DOMAIN length : h # handle =>
        [k \in SeenKeys(h)' |-> (Got(<<h, k>>).val)'] = SeenTables[h]
  BY <1>1, <1>2, <1>3, <1>4, <1>5, SeenTablesAre
<1>8. ASSUME exists(gv)
      PROVE  [k \in SeenKeys(handle)' |-> (Got(<<handle, k>>).val)']
               = [k \in SeenKeys(handle) \cup {key} |->
                   IF k = key THEN gv.val ELSE SeenTables[handle][k]]
  BY <1>1, <1>2, <1>3, <1>4, <1>5, <1>8, SeenTablesAre
<1>9. ASSUME ~ exists(gv)
      PROVE  [k \in SeenKeys(handle)' |-> (Got(<<handle, k>>).val)']
               = [k \in SeenKeys(handle) \ {key} |-> SeenTables[handle][k]]
  BY <1>1, <1>2, <1>3, <1>4, <1>5, <1>9, SeenTablesAre
<1>10. ASSUME NEW T, [k \in SeenKeys(handle)' |-> (Got(<<handle, k>>).val)'] = T
       PROVE  SeenTables' = write(SeenTables, handle, T)
  <2>1. write(SeenTables, handle, T)
          = [h \in DOMAIN length |-> IF h = handle THEN T ELSE SeenTables[h]]
    BY SeenTablesAre DEF write
  <2>2. \A h \in DOMAIN length :
          [k \in SeenKeys(h)' |-> (Got(<<h, k>>).val)'] = IF h = handle THEN T ELSE SeenTables[h]
    BY <1>7, <1>10
  <2> QED
    BY <1>6, <2>1, <2>2
<1> QED
  BY <1>8, <1>9, <1>10

\* A session that fails is an aborted transaction.
LEMMA FailureAborts ==
  ASSUME status = "running", status' = "failed",
         store' = store, lengths' = lengths, given' = given
  PROVE  Store!AbortTransaction
<1>1. StoredTables' = StoredTables
  BY DEF StoredTables, StoredKeys
<1> QED
  BY <1>1 DEF Store!AbortTransaction

\* A native that goes on and changes nothing of storage.
LEMMA CallInSession ==
  ASSUME status = "running", status' = "running", tableCall
  PROVE  /\ StoredTables' = StoredTables /\ given' = given
         /\ (IF status = "running" THEN SeenTables ELSE StoredTables) = SeenTables
         /\ (IF status = "running" THEN SeenTables ELSE StoredTables)' = SeenTables'
  BY DEF tableCall, StoredTables, StoredKeys

LEMMA AddImplements ==
  ASSUME TablesInv, NEW handle \in DOMAIN length, NEW key \in Key, NEW val \in Value,
         native_add_box(handle, key, val)
  PROVE  Store!StoreNext
<1> DEFINE gv == Got(<<handle, key>>)
<1>1. /\ handle \in Handle /\ <<handle, key>> \in Entry /\ gv \in GlobalValue
      /\ status = "running" /\ tableCall
  <2>1. handle \in Handle /\ <<handle, key>> \in Entry
    BY DEF TablesInv, TableTypeOK, SessionTypeOK, IsTable, Entry
  <2> QED
    BY <2>1, GotIsTyped DEF TablesInv, native_add_box
<1>2. CASE status' = "failed"
  BY <1>1, <1>2, FailureAborts DEF tableCall, Store!StoreNext
<1>3. CASE status' = "running"
  <2>1. /\ ~ exists(gv) /\ cache_entry(<<handle, key>>, move_to(gv, val))
        /\ length' = [length EXCEPT ![handle] = @ + 1]
    BY <1>3 DEF native_add_box, charge_table, Got
  <2>2. /\ move_to(gv, val) \in GlobalValue /\ exists(move_to(gv, val))
        /\ move_to(gv, val).val = val
    BY <1>1, TransitionsAreTyped
  <2>3. key \notin SeenKeys(handle) /\ DOMAIN SeenTables[handle] = SeenKeys(handle)
    BY <2>1, SeenTablesAre DEF SeenKeys, Got
  <2>4. SeenTables' = write(SeenTables, handle,
                [k \in SeenKeys(handle) \cup {key} |->
                  IF k = key THEN val ELSE SeenTables[handle][k]])
    <3> HIDE DEF gv
    <3> QED
      BY <1>1, <2>1, <2>2, SeenTablesEffect DEF TablesInv, tableCall
  <2>5. Store!AddEntry(handle, key, val)
    BY <1>1, <1>3, <2>3, <2>4, CallInSession, SeenTablesAre
       DEF Store!AddEntry, Store!contains, Store!write, Store!add, write
  <2> QED
    BY <1>1, <2>5 DEF Store!StoreNext
<1> QED
  BY <1>2, <1>3 DEF native_add_box, charge_table

\* A native that caches what it found changes nothing that the session sees.
LEMMA LookingIsStuttering ==
  ASSUME TablesInv, NEW handle \in DOMAIN length, NEW key \in Key, status = "running",
         cache_entry(<<handle, key>>, Got(<<handle, key>>)), tableCall,
         length' = length, status' = "running"
  PROVE  UNCHANGED Store!storeVars
<1> DEFINE gv == Got(<<handle, key>>)
<1>1. handle \in Handle /\ <<handle, key>> \in Entry /\ gv \in GlobalValue
  <2>1. handle \in Handle /\ <<handle, key>> \in Entry
    BY DEF TablesInv, TableTypeOK, SessionTypeOK, IsTable, Entry
  <2> QED
    BY <2>1, GotIsTyped DEF TablesInv
<1>2. \A h \in DOMAIN length : h \in Handle
  BY DEF TablesInv, TableTypeOK, SessionTypeOK, IsTable
<1>3. \A h \in DOMAIN length, k \in Key : Got(<<h, k>>)' = Got(<<h, k>>)
  <2>1. \A h \in DOMAIN length, k \in Key : <<h, k>> \in Entry
    BY <1>2 DEF Entry
  <2> QED
    BY <1>1, <2>1, CacheEffect DEF TablesInv, tableCall
<1>4. \A h \in DOMAIN length : SeenKeys(h)' = SeenKeys(h) /\ SeenKeys(h) \subseteq Key
  BY <1>3 DEF SeenKeys, Got, exists
<1>5. SeenTables' = SeenTables
  BY <1>3, <1>4 DEF SeenTables, Got
<1> QED
  BY <1>5, CallInSession DEF Store!storeVars

LEMMA BorrowImplements ==
  ASSUME TablesInv, NEW handle \in DOMAIN length, NEW key \in Key,
         native_borrow_box(handle, key, Value)
  PROVE  Store!StoreNext \/ UNCHANGED Store!storeVars
<1> DEFINE gv == Got(<<handle, key>>)
<1>1. /\ handle \in Handle /\ <<handle, key>> \in Entry /\ gv \in GlobalValue
      /\ status = "running" /\ tableCall /\ length' = length
  <2>1. handle \in Handle /\ <<handle, key>> \in Entry
    BY DEF TablesInv, TableTypeOK, SessionTypeOK, IsTable, Entry
  <2> QED
    BY <2>1, GotIsTyped DEF TablesInv, native_borrow_box
<1>2. CASE status' = "failed"
  BY <1>1, <1>2, FailureAborts DEF tableCall, Store!StoreNext
<1>3. CASE cache_entry(<<handle, key>>, gv) /\ status' = "running"
  BY <1>1, <1>3, LookingIsStuttering
<1>4. ASSUME NEW val \in Value, exists(gv), status' = "running",
             cache_entry(<<handle, key>>, write_ref(gv, val))
      PROVE  Store!StoreNext
  <2>2. /\ write_ref(gv, val) \in GlobalValue /\ exists(write_ref(gv, val))
        /\ write_ref(gv, val).val = val
    BY <1>1, TransitionsAreTyped
  <2>3. key \in SeenKeys(handle) /\ DOMAIN SeenTables[handle] = SeenKeys(handle)
    BY <1>4, SeenTablesAre DEF SeenKeys, Got
  <2>4. SeenTables' = write(SeenTables, handle,
                [k \in SeenKeys(handle) \cup {key} |->
                  IF k = key THEN val ELSE SeenTables[handle][k]])
    <3> HIDE DEF gv
    <3> QED
      BY <1>1, <1>4, <2>2, SeenTablesEffect DEF TablesInv, tableCall
  <2>5. [k \in SeenKeys(handle) \cup {key} |-> IF k = key THEN val ELSE SeenTables[handle][k]]
          = [SeenTables[handle] EXCEPT ![key] = val]
    BY <2>3, SeenTablesAre
  <2>6. Store!WriteEntry(handle, key, val)
    BY <1>1, <1>4, <2>3, <2>4, <2>5, CallInSession, SeenTablesAre
       DEF Store!WriteEntry, Store!contains, Store!write, write
  <2> QED
    BY <1>1, <2>6 DEF Store!StoreNext
<1> QED
  BY <1>1, <1>2, <1>3, <1>4 DEF native_borrow_box, Got

LEMMA ContainsImplements ==
  ASSUME TablesInv, NEW handle \in DOMAIN length, NEW key \in Key, native_contains_box(handle, key)
  PROVE  Store!StoreNext \/ UNCHANGED Store!storeVars
<1>1. CASE status' = "failed"
  BY <1>1, FailureAborts DEF native_contains_box, tableCall, Store!StoreNext
<1>2. CASE status' = "running" /\ length' = length
  BY <1>2, LookingIsStuttering DEF native_contains_box, Got
<1> QED
  BY <1>1, <1>2 DEF native_contains_box, charge_table

LEMMA RemoveImplements ==
  ASSUME TablesInv, NEW handle \in DOMAIN length, NEW key \in Key, native_remove_box(handle, key)
  PROVE  Store!StoreNext
<1> DEFINE gv == Got(<<handle, key>>)
<1>1. /\ handle \in Handle /\ <<handle, key>> \in Entry /\ gv \in GlobalValue
      /\ status = "running" /\ tableCall /\ (exists(gv) => gv.val \in Value)
  <2>1. handle \in Handle /\ <<handle, key>> \in Entry
    BY DEF TablesInv, TableTypeOK, SessionTypeOK, IsTable, Entry
  <2> QED
    BY <2>1, GotIsTyped DEF TablesInv, native_remove_box
<1>2. CASE status' = "failed"
  BY <1>1, <1>2, FailureAborts DEF tableCall, Store!StoreNext
<1>3. CASE status' = "running"
  <2>1. /\ exists(gv) /\ cache_entry(<<handle, key>>, move_from(gv))
        /\ length' = [length EXCEPT ![handle] = @ - 1]
    BY <1>3 DEF native_remove_box, charge_table, Got
  <2>2. move_from(gv) \in GlobalValue /\ ~ exists(move_from(gv))
    BY <1>1, <2>1, TransitionsAreTyped
  <2>3. key \in SeenKeys(handle) /\ DOMAIN SeenTables[handle] = SeenKeys(handle)
    BY <2>1, SeenTablesAre DEF SeenKeys, Got
  <2>4. SeenTables' = write(SeenTables, handle,
                [k \in SeenKeys(handle) \ {key} |-> SeenTables[handle][k]])
    <3> HIDE DEF gv
    <3> QED
      BY <1>1, <2>1, <2>2, SeenTablesEffect DEF TablesInv, tableCall
  <2>5. Store!RemoveEntry(handle, key)
    BY <1>1, <1>3, <2>3, <2>4, CallInSession, SeenTablesAre
       DEF Store!RemoveEntry, Store!contains, Store!write, Store!remove, write
  <2> QED
    BY <1>1, <2>5 DEF Store!StoreNext
<1> QED
  BY <1>2, <1>3 DEF native_remove_box, charge_table

LEMMA NewTableImplements ==
  ASSUME TablesInv, native_new_table_handle
  PROVE  Store!StoreNext
<1>0. /\ status = "running" /\ Len(new_tables) < MaxTables
      /\ UNCHANGED <<store, lengths, used, txn, removed_tables, content>>
  BY DEF native_new_table_handle
<1>1. CASE status' = "failed" /\ UNCHANGED <<new_tables, given, length>>
  BY <1>0, <1>1, FailureAborts DEF Store!StoreNext
<1>2. CASE /\ given' = given \cup {new_handle}
           /\ length' = add(length, new_handle, 0)
           /\ UNCHANGED status
  <2> DEFINE handle == new_handle
  <2>1. handle \in Handle /\ handle \notin given /\ SeenKeys(handle) = {}
    BY <1>0, NewHandle
  <2>2. DOMAIN length' = DOMAIN length \cup {handle}
    BY <1>2 DEF add
  <2>3. \A h : SeenKeys(h)' = SeenKeys(h)
    BY <1>0 DEF SeenKeys, get_or_create_global_value, exists
  <2>4. \A e : Got(e)' = Got(e)
    BY <1>0 DEF Got, get_or_create_global_value
  <2>5. handle \notin DOMAIN length
    BY <2>1 DEF TablesInv, BelongInv
  <2> HIDE DEF handle
  <2>6. SeenTables' = [h \in DOMAIN SeenTables \cup {handle} |->
                        IF h = handle THEN [k \in {} |-> k] ELSE SeenTables[h]]
    <3>1. SeenTables' = [h \in DOMAIN length \cup {handle} |->
                          [key \in SeenKeys(h) |-> Got(<<h, key>>).val]]
      BY <2>2, <2>3, <2>4 DEF SeenTables, Got
    <3>2. [key \in SeenKeys(handle) |-> Got(<<handle, key>>).val] = [k \in {} |-> k]
      BY <2>1
    <3> QED
      BY <2>5, <3>1, <3>2, SeenTablesAre
  <2>7. StoredTables' = StoredTables
    BY <1>0 DEF StoredTables, StoredKeys
  <2>8. Store!NewTable(handle)
    BY <1>0, <1>2, <2>1, <2>6, <2>7 DEF Store!NewTable, Store!add, Store!new, handle
  <2> QED
    BY <2>1, <2>8 DEF Store!StoreNext
<1> QED
  BY <1>1, <1>2 DEF native_new_table_handle

LEMMA DestroyImplements ==
  ASSUME TablesInv, NEW handle \in DOMAIN length, native_destroy_empty_box(handle)
  PROVE  Store!StoreNext
<1>0. /\ status = "running" /\ length[handle] = 0 /\ handle \in Handle
      /\ UNCHANGED <<store, lengths, used, txn, given, new_tables, content>>
  BY DEF native_destroy_empty_box, TablesInv, TableTypeOK, SessionTypeOK, IsTable
<1>1. CASE status' = "failed"
  BY <1>0, <1>1, FailureAborts DEF Store!StoreNext
<1>2. CASE length' = remove(length, handle) /\ UNCHANGED status
  <2>1. SeenTables[handle] = [k \in {} |-> k]
    BY <1>0, CountedEmpty, SeenTablesAre
  <2>2. DOMAIN length' = DOMAIN length \ {handle}
    BY <1>2 DEF remove
  <2>3. \A h : SeenKeys(h)' = SeenKeys(h)
    BY <1>0 DEF SeenKeys, get_or_create_global_value, exists
  <2>4. \A e : Got(e)' = Got(e)
    BY <1>0 DEF Got, get_or_create_global_value
  <2>5. SeenTables' = [h \in DOMAIN SeenTables \ {handle} |-> SeenTables[h]]
    BY <2>2, <2>3, <2>4 DEF SeenTables, Got
  <2>6. StoredTables' = StoredTables
    BY <1>0 DEF StoredTables, StoredKeys
  <2>7. Store!DestroyTable(handle)
    BY <1>0, <1>2, <2>1, <2>5, <2>6, SeenTablesAre DEF Store!DestroyTable, Store!remove, Store!new
  <2> QED
    BY <1>0, <2>7 DEF Store!StoreNext
<1> QED
  BY <1>1, <1>2 DEF native_destroy_empty_box

LEMMA CommitImplements ==
  ASSUME TablesInv, commit_tables
  PROVE  Store!StoreNext
<1>1. ASSUME NEW h \in DOMAIN length
      PROVE  [key \in StoredKeys(h)' |-> store'[<<h, key>>]]
               = [key \in SeenKeys(h) |-> Got(<<h, key>>).val]
  <2>1. \A key \in Key : <<h, key>> \in Entry
    BY DEF TablesInv, TableTypeOK, SessionTypeOK, IsTable, Entry
  <2>2. \A e \in Entry :
          /\ e \in DOMAIN store' <=> exists(Got(e))
          /\ exists(Got(e)) => store'[e] = Got(e).val
    BY CommitStores
  <2>3. StoredKeys(h)' = SeenKeys(h)
    BY <2>1, <2>2 DEF StoredKeys, SeenKeys, Got
  <2>4. \A key \in SeenKeys(h) : store'[<<h, key>>] = Got(<<h, key>>).val
    BY <2>1, <2>2 DEF SeenKeys, Got
  <2> QED
    BY <2>3, <2>4
<1>2. StoredTables' = SeenTables
  BY <1>1 DEF commit_tables, StoredTables, SeenTables, Got
<1> QED
  BY <1>2 DEF commit_tables, end_tables, close_session, Store!StoreNext, Store!CommitTransaction

(* The natives implement transactions on plain tables.                      *)
THEOREM NativesImplementStore == TableSpec => ImplementsStore
<1>1. TableInit => Store!InitStore
  <2> SUFFICES ASSUME TableInit PROVE Store!InitStore
    OBVIOUS
  <2>1. StoredTables = [h \in {} |-> h]
    BY DEF TableInit, SessionInit, StoredTables, new
  <2> QED
    BY <2>1 DEF TableInit, SessionInit, Store!InitStore, Store!new
<1>2. TablesInv /\ [TableNext]_tableVars => [Store!StoreNext]_(Store!storeVars)
  <2> SUFFICES ASSUME TablesInv, [TableNext]_tableVars
               PROVE  Store!StoreNext \/ UNCHANGED Store!storeVars
    OBVIOUS
  <2>1. CASE UNCHANGED tableVars
    BY <2>1 DEF tableVars, sessionVars, tableSession, Store!storeVars, StoredTables, SeenTables, StoredKeys,
                SeenKeys, get_or_create_global_value, exists
  <2>2. ASSUME NEW hash \in TxnHash, start_tables(hash)
        PROVE  UNCHANGED Store!storeVars
    <3>1. content' = new /\ DOMAIN new = {}
      BY <2>2 DEF start_tables, open_session, TablesInv, IdleInv, new
    <3>2. \A e : /\ exists(Got(e))' <=> e \in DOMAIN store
                 /\ e \in DOMAIN store => (Got(e).val)' = store[e]
      BY <2>2, <3>1 DEF Got, get_or_create_global_value, exists, start_tables, open_session
    <3>3. \A h : SeenKeys(h)' = StoredKeys(h)
      BY <3>2 DEF SeenKeys, StoredKeys, Got, exists
    <3>4. SeenTables' = StoredTables
      BY <2>2, <3>2, <3>3 DEF SeenTables, StoredTables, StoredKeys, Got, start_tables, open_session
    <3>5. StoredTables' = StoredTables
      BY <2>2 DEF StoredTables, StoredKeys, start_tables, open_session
    <3> QED
      BY <2>2, <3>4, <3>5 DEF Store!storeVars, start_tables, open_session
  <2>3. ASSUME discard_tables
        PROVE  Store!StoreNext
    <3>1. StoredTables' = StoredTables
      BY <2>3 DEF discard_tables, end_tables, close_session, StoredTables, StoredKeys
    <3> QED
      BY <2>3, <3>1 DEF discard_tables, end_tables, close_session, Store!StoreNext, Store!AbortTransaction
  <2> QED
    BY <2>1, <2>2, <2>3, AddImplements, BorrowImplements, ContainsImplements, RemoveImplements,
       NewTableImplements, DestroyImplements, CommitImplements DEF TableNext, TableCall
<1> QED
  BY <1>1, <1>2, TablesInitially, TablesInvIsInductive, PTL DEF TableSpec, ImplementsStore, Store!StoreSpec

-----------------------------------------------------------------------------
(* Events.                                                                  *)
Event == {v1_event(guid, n) : guid \in GUID, n \in Nat} \cup {v2_event(module) : module \in Module}

\* Events, counters of handles and numbers of creators belong together: streams
\* are numbered, a counter is the number of its events, and what creators have
\* not numbered yet has neither events nor a counter.
Consistent(of, numbered, next) ==
  /\ of \in Seq(Event)
  /\ IsTable(numbered, GUID, Nat)
  /\ next \in [Creator -> 0 .. MaxHandles]
  /\ \A guid \in GUID :
       /\ Numbered(of, guid)
       /\ guid \in DOMAIN numbered => numbered[guid] = Cardinality(emitted_events(of, guid))
       /\ guid[2] >= next[guid[1]] =>
            emitted_events(of, guid) = {} /\ guid \notin DOMAIN numbered

EventInv ==
  /\ status \in {"idle", "running", "failed"}
  /\ events \in Seq(Event)
  /\ Consistent(ledger, handles, guids)
  /\ status = "running" => Consistent(ledger \o events, held_handles, held_guids)
  /\ status = "failed" => \A guid \in GUID : Numbered(ledger \o events, guid)

\* The sequence late is of with event e behind it.
Extends(late, of, e) == late = Append(of, e)

\* The event is of the stream of a handle.
IsOf(e, guid) == e.by = "handle" /\ e.key = guid

\* A new event joins the end of its stream.
LEMMA AppendedStream ==
  ASSUME NEW of \in Seq(Event), NEW e \in Event, NEW guid \in GUID,
         NEW late, Extends(late, of, e)
  PROVE  /\ late \in Seq(Event) /\ Len(late) = Len(of) + 1
         /\ IsFiniteSet(emitted_events(of, guid))
         /\ emitted_events(of, guid) \subseteq 1 .. Len(of)
         /\ \A i \in 1 .. Len(of) : late[i] = of[i]
         /\ late[Len(of) + 1] = e
         /\ IsOf(e, guid) => emitted_events(late, guid) = emitted_events(of, guid) \cup {Len(of) + 1}
         /\ ~ IsOf(e, guid) => emitted_events(late, guid) = emitted_events(of, guid)
<1>1. /\ late \in Seq(Event) /\ Len(late) = Len(of) + 1 /\ Len(of) \in Nat
      /\ \A i \in 1 .. Len(of) : late[i] = of[i]
      /\ late[Len(of) + 1] = e
      /\ DOMAIN of = 1 .. Len(of) /\ DOMAIN late = 1 .. Len(of) + 1
  BY DEF Extends
<1>2. emitted_events(of, guid) \subseteq 1 .. Len(of)
  BY <1>1 DEF emitted_events
<1>3. IsFiniteSet(1 .. Len(of))
  BY <1>1, FS_Interval
<1>4. IsFiniteSet(emitted_events(of, guid))
  BY <1>2, <1>3, FS_Subset
<1>5. 1 .. Len(of) + 1 = (1 .. Len(of)) \cup {Len(of) + 1} /\ Len(of) + 1 \notin 1 .. Len(of)
  BY <1>1
<1>6. \A i \in 1 .. Len(of) + 1 :
        i \in emitted_events(late, guid) <=>
          IF i = Len(of) + 1 THEN IsOf(e, guid)
                             ELSE i \in emitted_events(of, guid)
  BY <1>1, <1>5 DEF emitted_events, IsOf
<1>7. emitted_events(late, guid) \subseteq 1 .. Len(of) + 1
  BY <1>1 DEF emitted_events
<1> QED
  BY <1>1, <1>2, <1>4, <1>5, <1>6, <1>7

\* Streams stay numbered when the new event carries the number of its stream.
LEMMA AppendKeepsNumbers ==
  ASSUME NEW of \in Seq(Event), NEW e \in Event, NEW guid \in GUID, Numbered(of, guid),
         IsOf(e, guid) => e.seq_num = Cardinality(emitted_events(of, guid)),
         NEW late, Extends(late, of, e)
  PROVE  /\ Numbered(late, guid)
         /\ Cardinality(emitted_events(late, guid)) =
              IF IsOf(e, guid) THEN Cardinality(emitted_events(of, guid)) + 1
              ELSE Cardinality(emitted_events(of, guid))
<1> DEFINE before == emitted_events(of, guid)
           after == emitted_events(late, guid)
<1>0. Len(of) \in Nat
  OBVIOUS
<1>1. /\ late \in Seq(Event) /\ Len(late) = Len(of) + 1
      /\ IsFiniteSet(before) /\ before \subseteq 1 .. Len(of)
      /\ \A i \in 1 .. Len(of) : late[i] = of[i]
      /\ late[Len(of) + 1] = e
      /\ IsOf(e, guid) => after = before \cup {Len(of) + 1}
      /\ ~ IsOf(e, guid) => after = before
  BY AppendedStream
<1>2. \A i \in before : of[i].seq_num = Cardinality({j \in before : j < i})
  BY DEF Numbered
<1> HIDE DEF before, after
<1>3. ASSUME NEW i \in before
      PROVE  /\ late[i] = of[i] /\ {j \in after : j < i} = {j \in before : j < i}
  BY <1>1
<1>4. CASE IsOf(e, guid)
  <2>1. after = before \cup {Len(of) + 1} /\ Len(of) + 1 \notin before
    BY <1>0, <1>1, <1>4
  <2>2. {j \in after : j < Len(of) + 1} = before
    <3>1. \A j \in before : j \in Int /\ j < Len(of) + 1
      BY <1>0, <1>1
    <3>2. ~(Len(of) + 1 < Len(of) + 1)
      BY <1>0
    <3> QED
      BY <2>1, <3>1, <3>2
  <2>3. Cardinality(after) = Cardinality(before) + 1
    BY <1>1, <2>1, FS_AddElement
  <2>4. late[Len(of) + 1].seq_num = Cardinality({j \in after : j < Len(of) + 1})
    BY <1>0, <1>1, <1>4, <2>2 DEF before
  <2>5. \A i \in before : late[i].seq_num = Cardinality({j \in after : j < i})
    BY <1>2, <1>3
  <2> QED
    BY <1>4, <2>1, <2>3, <2>4, <2>5 DEF Numbered, before, after
<1>5. CASE ~ IsOf(e, guid)
  <2>1. after = before
    BY <1>1, <1>5
  <2>2. \A i \in after : late[i].seq_num = Cardinality({j \in after : j < i})
    BY <1>2, <1>3, <2>1
  <2> QED
    BY <1>5, <2>1, <2>2 DEF Numbered, before, after
<1> QED
  BY <1>4, <1>5

\* No event has been emitted.
LEMMA EmptyStreams ==
  ASSUME NEW guid \in GUID
  PROVE  emitted_events(<<>>, guid) = {} /\ Numbered(<<>>, guid)
  BY DEF emitted_events, Numbered

LEMMA EventInvInitially == EventInit => EventInv
<1> SUFFICES ASSUME EventInit PROVE EventInv
  OBVIOUS
<1>1. /\ ledger = <<>> /\ events = <<>> /\ handles = new /\ status = "idle"
      /\ guids = [c \in Creator |-> 0]
  BY DEF EventInit, SessionInit
<1>2. IsTable(handles, GUID, Nat) /\ DOMAIN handles = {}
  BY <1>1, NewTable
<1>3. guids \in [Creator -> 0 .. MaxHandles]
  BY <1>1, EventConstants
<1>4. Consistent(ledger, handles, guids)
  BY <1>1, <1>2, <1>3, EmptyStreams DEF Consistent
<1> QED
  BY <1>1, <1>4 DEF EventInv

\* A session begins with what is saved.
LEMMA StartKeepsStreams ==
  ASSUME EventInv, NEW hash, start_events(hash)
  PROVE  EventInv'
<1>1. /\ status' = "running" /\ events' = <<>> /\ held_handles' = handles /\ held_guids' = guids
      /\ UNCHANGED <<ledger, handles, guids>>
  BY DEF start_events, open_session
<1>2. ledger' \o events' = ledger
  BY <1>1 DEF EventInv, Consistent
<1>3. Consistent(ledger, handles, guids)'
  BY <1>1 DEF EventInv, Consistent
<1>4. Consistent(ledger \o events, held_handles, held_guids)'
  BY <1>1, <1>2 DEF EventInv, Consistent
<1> QED
  BY <1>1, <1>3, <1>4 DEF EventInv

\* A new handle has a number that its creator never used, and no events.
LEMMA NewHandleKeepsStreams ==
  ASSUME EventInv, NEW creator \in Creator, new_event_handle(creator)
  PROVE  EventInv'
<1> DEFINE guid == <<creator, held_guids[creator]>>
           now == ledger \o events
<1>1. /\ status = "running" /\ status' = "running" /\ held_guids[creator] < MaxHandles
      /\ held_guids' = [held_guids EXCEPT ![creator] = @ + 1]
      /\ held_handles' = [g \in DOMAIN held_handles \cup {guid} |->
                            IF g = guid THEN 0 ELSE held_handles[g]]
      /\ UNCHANGED <<ledger, handles, guids, events>>
  BY DEF new_event_handle, sessionVars
<1>2. Consistent(now, held_handles, held_guids)
  BY <1>1 DEF EventInv
<1>3. held_guids \in [Creator -> 0 .. MaxHandles] /\ MaxHandles \in Nat
  BY <1>2, EventConstants DEF Consistent
<1>4. guid \in GUID /\ guid[1] = creator /\ guid[2] = held_guids[creator]
  BY <1>1, <1>3 DEF GUID
<1>5. emitted_events(now, guid) = {} /\ guid \notin DOMAIN held_handles
  BY <1>2, <1>3, <1>4 DEF Consistent
<1>6. held_guids' \in [Creator -> 0 .. MaxHandles]
  BY <1>1, <1>3
<1>7. IsTable(held_handles', GUID, Nat)
  BY <1>1, <1>2, <1>4 DEF Consistent, IsTable
<1>8. ASSUME NEW g \in GUID
      PROVE  /\ g \in DOMAIN held_handles' =>
                  held_handles'[g] = Cardinality(emitted_events(now, g))
             /\ g[2] >= held_guids'[g[1]] =>
                  emitted_events(now, g) = {} /\ g \notin DOMAIN held_handles'
  <2>1. /\ g \in DOMAIN held_handles => held_handles[g] = Cardinality(emitted_events(now, g))
        /\ g[2] >= held_guids[g[1]] =>
             emitted_events(now, g) = {} /\ g \notin DOMAIN held_handles
    BY <1>2 DEF Consistent
  <2>2. g[1] \in Creator /\ g[2] \in Int /\ g = <<g[1], g[2]>>
    BY DEF GUID
  <2>3. CASE g = guid
    <3>1. held_handles'[g] = 0 /\ emitted_events(now, g) = {}
      BY <1>1, <1>5, <2>3
    <3>2. held_guids'[g[1]] = held_guids[creator] + 1 /\ g[2] = held_guids[creator]
      BY <1>1, <1>3, <2>3
    <3>3. ~(g[2] >= held_guids'[g[1]])
      BY <1>3, <2>2, <3>2
    <3> QED
      BY <3>1, <3>3, FS_EmptySet
  <2>4. CASE g # guid
    BY <1>1, <1>3, <2>1, <2>2, <2>4
  <2> QED
    BY <2>3, <2>4
<1>9. Consistent(now, held_handles', held_guids')
  BY <1>2, <1>6, <1>7, <1>8 DEF Consistent
<1>10. Consistent(ledger \o events, held_handles, held_guids)'
  BY <1>1, <1>9 DEF Consistent
<1> QED
  BY <1>1, <1>10 DEF EventInv

\* A destroyed handle leaves its stream, which nothing continues.
LEMMA DestroyKeepsStreams ==
  ASSUME EventInv, NEW guid \in DOMAIN held_handles, destroy_handle(guid)
  PROVE  EventInv'
<1>1. /\ status = "running" /\ status' = "running"
      /\ held_handles' = remove(held_handles, guid)
      /\ UNCHANGED <<ledger, handles, guids, held_guids, events>>
  BY DEF destroy_handle, sessionVars
<1>2. Consistent(ledger \o events, held_handles, held_guids)
  BY <1>1 DEF EventInv
<1>3. /\ DOMAIN held_handles' = DOMAIN held_handles \ {guid}
      /\ \A g \in DOMAIN held_handles' : held_handles'[g] = held_handles[g]
      /\ held_handles' \in [DOMAIN held_handles' -> Nat]
  BY <1>1, <1>2 DEF remove, Consistent, IsTable
<1>4. Consistent(ledger \o events, held_handles', held_guids)
  BY <1>2, <1>3 DEF Consistent, IsTable
<1>5. Consistent(ledger \o events, held_handles, held_guids)'
  BY <1>1, <1>4 DEF Consistent
<1> QED
  BY <1>1, <1>5 DEF EventInv

\* An event enters the session, behind all others.
LEMMA AppendToSession ==
  ASSUME NEW e \in Event, ledger \in Seq(Event), events \in Seq(Event),
         ledger' = ledger, events' = Append(events, e)
  PROVE  /\ events' \in Seq(Event)
         /\ ledger \o events \in Seq(Event)
         /\ Extends(ledger' \o events', ledger \o events, e)
  BY DEF Extends

\* A call that fails leaves the events of the session as they are.
LEMMA FailKeepsStreams ==
  ASSUME EventInv, status = "running", fail, UNCHANGED <<ledger, handles, guids, events>>
  PROVE  EventInv'
<1>1. status' = "failed" /\ UNCHANGED <<ledger, handles, guids, events>>
  BY DEF fail
<1>2. Consistent(ledger \o events, held_handles, held_guids)
  BY DEF EventInv
<1> QED
  BY <1>1, <1>2 DEF EventInv, Consistent

\* An event of a handle gets the number that its counter shows.
LEMMA EmitEventKeepsStreams ==
  ASSUME EventInv, NEW guid \in DOMAIN held_handles, emit_event(guid)
  PROVE  EventInv'
<1> DEFINE e == v1_event(guid, held_handles[guid])
           now == ledger \o events
           late == ledger' \o events'
<1>1. /\ status = "running" /\ UNCHANGED <<ledger, handles, guids, held_guids>>
  BY DEF emit_event
<1>2. Consistent(now, held_handles, held_guids)
  BY <1>1 DEF EventInv
<1>3. CASE fail /\ UNCHANGED <<events, held_handles>>
  BY <1>1, <1>3, FailKeepsStreams
<1>4. CASE /\ events' = Append(events, e)
           /\ held_handles' = [held_handles EXCEPT ![guid] = @ + 1]
           /\ UNCHANGED sessionVars
  <2>1. status' = "running"
    BY <1>1, <1>4 DEF sessionVars
  <2>2. guid \in GUID /\ held_handles[guid] \in Nat
    BY <1>2 DEF Consistent, IsTable
  <2>3. /\ e \in Event /\ e.by = "handle" /\ e.key = guid /\ e.seq_num = held_handles[guid]
    BY <2>2 DEF v1_event, Event
  <2>4. ledger \in Seq(Event) /\ events \in Seq(Event)
    BY DEF EventInv, Consistent
  <2> HIDE DEF e
  <2>5. /\ events' \in Seq(Event) /\ now \in Seq(Event) /\ Extends(late, now, e)
    BY <1>1, <1>4, <2>3, <2>4, AppendToSession
  <2>6. \A g \in GUID : IsOf(e, g) <=> g = guid
    BY <2>3 DEF IsOf
  <2>7. held_handles[guid] = Cardinality(emitted_events(now, guid))
    BY <1>2, <2>2 DEF Consistent
  <2> HIDE DEF now, late
  <2>8. ASSUME NEW g \in GUID
        PROVE  /\ Numbered(late, g)
               /\ g = guid => Cardinality(emitted_events(late, g)) = held_handles[guid] + 1
               /\ g # guid => Cardinality(emitted_events(late, g)) =
                                Cardinality(emitted_events(now, g))
               /\ emitted_events(now, g) = {} /\ g # guid => emitted_events(late, g) = {}
    <3>1. Numbered(now, g)
      BY <1>2 DEF Consistent
    <3>2. IsOf(e, g) => e.seq_num = Cardinality(emitted_events(now, g))
      BY <2>3, <2>6, <2>7
    <3>3. /\ Numbered(late, g)
          /\ Cardinality(emitted_events(late, g)) =
               IF IsOf(e, g) THEN Cardinality(emitted_events(now, g)) + 1
               ELSE Cardinality(emitted_events(now, g))
      BY <2>3, <2>5, <3>1, <3>2, AppendKeepsNumbers
    <3>4. ~ IsOf(e, g) => emitted_events(late, g) = emitted_events(now, g)
      BY <2>3, <2>5, AppendedStream
    <3> QED
      BY <2>6, <2>7, <3>3, <3>4
  <2>9. late \in Seq(Event)
    BY <2>2, <2>3, <2>5, AppendedStream
  <2>10. IsTable(held_handles', GUID, Nat)
    BY <1>2, <1>4, <2>2 DEF Consistent, IsTable
  <2>11. ASSUME NEW g \in GUID
         PROVE  /\ g \in DOMAIN held_handles' =>
                     held_handles'[g] = Cardinality(emitted_events(late, g))
                /\ g[2] >= held_guids[g[1]] =>
                     emitted_events(late, g) = {} /\ g \notin DOMAIN held_handles'
    <3>1. /\ g \in DOMAIN held_handles => held_handles[g] = Cardinality(emitted_events(now, g))
          /\ g[2] >= held_guids[g[1]] =>
               emitted_events(now, g) = {} /\ g \notin DOMAIN held_handles
      BY <1>2 DEF Consistent
    <3>2. /\ DOMAIN held_handles' = DOMAIN held_handles
          /\ held_handles'[guid] = held_handles[guid] + 1
          /\ g \in DOMAIN held_handles /\ g # guid => held_handles'[g] = held_handles[g]
      BY <1>4
    <3> QED
      BY <2>8, <3>1, <3>2
  <2>12. Consistent(late, held_handles', held_guids)
    BY <1>2, <2>8, <2>9, <2>10, <2>11 DEF Consistent
  <2>13. Consistent(ledger \o events, held_handles, held_guids)'
    BY <1>1, <2>12 DEF Consistent, late
  <2> QED
    BY <1>1, <2>1, <2>5, <2>13 DEF EventInv
<1> QED
  BY <1>3, <1>4 DEF emit_event

\* A module event is of no stream.
LEMMA EmitKeepsStreams ==
  ASSUME EventInv, NEW caller \in Module, NEW module \in Module, emit(caller, module)
  PROVE  EventInv'
<1> DEFINE e == v2_event(module)
           now == ledger \o events
           late == ledger' \o events'
<1>1. status = "running" /\ UNCHANGED <<ledger, handles, held_handles, guids, held_guids>>
  BY DEF emit
<1>2. Consistent(now, held_handles, held_guids)
  BY <1>1 DEF EventInv
<1>3. CASE fail /\ UNCHANGED events
  BY <1>1, <1>3, FailKeepsStreams
<1>4. CASE events' = Append(events, e) /\ UNCHANGED sessionVars
  <2>1. status' = "running"
    BY <1>1, <1>4 DEF sessionVars
  <2>2. e \in Event /\ e.by = "module"
    BY DEF v2_event, Event
  <2>3. ledger \in Seq(Event) /\ events \in Seq(Event)
    BY DEF EventInv, Consistent
  <2> HIDE DEF e
  <2>4. events' \in Seq(Event) /\ now \in Seq(Event) /\ Extends(late, now, e)
    BY <1>1, <1>4, <2>2, <2>3, AppendToSession
  <2>5. \A g \in GUID : ~ IsOf(e, g)
    BY <2>2 DEF IsOf
  <2> HIDE DEF now, late
  <2>6. ASSUME NEW g \in GUID
        PROVE  Numbered(late, g) /\ emitted_events(late, g) = emitted_events(now, g)
    <3>1. Numbered(now, g)
      BY <1>2 DEF Consistent
    <3>2. Numbered(late, g)
      BY <2>2, <2>4, <2>5, <3>1, AppendKeepsNumbers
    <3>3. emitted_events(late, g) = emitted_events(now, g)
      BY <2>2, <2>4, <2>5, AppendedStream
    <3> QED
      BY <3>2, <3>3
  <2>7. late \in Seq(Event)
    BY <2>2, <2>3, <2>4 DEF Extends
  <2>8. Consistent(late, held_handles, held_guids)
    BY <1>2, <2>6, <2>7 DEF Consistent
  <2>9. Consistent(ledger \o events, held_handles, held_guids)'
    BY <1>1, <2>8 DEF Consistent, late
  <2> QED
    BY <1>1, <2>1, <2>4, <2>9 DEF EventInv
<1> QED
  BY <1>3, <1>4 DEF emit

LEMMA StepKeepsStreams == EventInv /\ [EventNext]_eventVars => EventInv'
<1> SUFFICES ASSUME EventInv, [EventNext]_eventVars PROVE EventInv'
  OBVIOUS
<1>1. ASSUME NEW hash \in TxnHash, start_events(hash)
      PROVE  EventInv'
  BY <1>1, StartKeepsStreams
<1>2. ASSUME NEW creator \in Creator, new_event_handle(creator)
      PROVE  EventInv'
  BY <1>2, NewHandleKeepsStreams
<1>3. ASSUME NEW guid \in DOMAIN held_handles, destroy_handle(guid) \/ emit_event(guid)
      PROVE  EventInv'
  BY <1>3, DestroyKeepsStreams, EmitEventKeepsStreams
<1>4. ASSUME NEW caller \in Module, NEW module \in Module, emit(caller, module)
      PROVE  EventInv'
  BY <1>4, EmitKeepsStreams
<1>5. CASE commit_events
  <2>1. /\ status = "running" /\ status' = "idle"
        /\ ledger' = ledger \o events /\ handles' = held_handles /\ guids' = held_guids
        /\ UNCHANGED events
    BY <1>5 DEF commit_events, close_session
  <2>2. Consistent(ledger \o events, held_handles, held_guids)
    BY <2>1 DEF EventInv
  <2>3. Consistent(ledger, handles, guids)'
    BY <2>1, <2>2 DEF Consistent
  <2> QED
    BY <2>1, <2>3 DEF EventInv
<1>6. CASE discard_events
  <2>1. status' = "idle" /\ UNCHANGED <<ledger, handles, guids, events>>
    BY <1>6 DEF discard_events, close_session
  <2> QED
    BY <2>1 DEF EventInv, Consistent
<1>7. CASE UNCHANGED eventVars
  <2>1. UNCHANGED <<status, ledger, handles, held_handles, guids, held_guids, events>>
    BY <1>7 DEF eventVars, sessionVars
  <2> QED
    BY <2>1 DEF EventInv, Consistent
<1> QED
  BY <1>1, <1>2, <1>3, <1>4, <1>5, <1>6, <1>7 DEF EventNext

(* The number of an event is that of the events which its stream had before *)
(* it, over all transactions that commit, and the counter of a handle is the*)
(* number of its events (EventHandle of event.move): no failure leaves a gap*)
(* and no new handle continues the stream of one that was destroyed.        *)
THEOREM EventsAreNumbered == EventSpec => []StreamsAreNumbered
<1>1. EventInv => StreamsAreNumbered
  <2> SUFFICES ASSUME EventInv, NEW guid \in GUID
               PROVE  LET now == IF status = "idle" THEN ledger ELSE ledger \o events
                          numbered == IF status = "running" THEN held_handles ELSE handles
                      IN  /\ Numbered(now, guid)
                          /\ guid \in DOMAIN numbered /\ status # "failed" =>
                               numbered[guid] = Cardinality(emitted_events(now, guid))
    BY DEF StreamsAreNumbered
  <2>1. CASE status = "idle"
    BY <2>1 DEF EventInv, Consistent
  <2>2. CASE status = "running"
    BY <2>2 DEF EventInv, Consistent
  <2>3. CASE status = "failed"
    BY <2>3 DEF EventInv
  <2> QED
    BY <2>1, <2>2, <2>3 DEF EventInv
<1> QED
  BY <1>1, EventInvInitially, StepKeepsStreams, PTL DEF EventSpec

-----------------------------------------------------------------------------
(* Aggregators of the first version.                                        *)
\* An id tells the session that has made the struct.
IdsInv ==
  /\ status \in {"idle", "running", "failed"}
  /\ IsFiniteSet(ids) /\ minted = Cardinality(ids)
  /\ num_aggregators \in Nat
  /\ \A id \in ids : id.txn \in used /\ id.n \in Nat
  /\ status # "idle" => txn \in used /\ \A id \in ids : id.txn = txn => id.n < num_aggregators
  /\ status = "idle" =>
       /\ num_aggregators = 0 /\ new_aggregators = {} /\ destroyed_aggregators = {}
       /\ aggregators = new /\ calls = new

\* Storage between sessions.
StorageInv ==
  /\ IsTable(resources, ids, Limit) /\ IsTable(counters, ids, Int)
  /\ DOMAIN counters = DOMAIN resources
  /\ \A id \in DOMAIN counters : counters[id] \in 0 .. resources[id]

\* The structs of the session: those of before that it has not destroyed, and
\* those it has made.
StructsInv ==
  /\ IsTable(held, ids, Limit)
  /\ \A id \in DOMAIN resources : id.txn # txn
  /\ \A id \in new_aggregators : id.txn = txn
  /\ destroyed_aggregators \subseteq DOMAIN resources
  /\ DOMAIN held = (DOMAIN resources \ destroyed_aggregators) \cup new_aggregators
  /\ \A id \in DOMAIN resources \ destroyed_aggregators : held[id] = resources[id]
  /\ new_aggregators \subseteq DOMAIN aggregators
  /\ DOMAIN aggregators \subseteq DOMAIN held
  /\ DOMAIN calls \subseteq DOMAIN aggregators

\* A history of calls.
IsHistory(so_far) ==
  so_far.total \in Int /\ so_far.totals \subseteq Int /\ 0 \in so_far.totals /\ so_far.total \in so_far.totals

\* A delta with the extremes of its history.
DeltaFits(aggregator, so_far) ==
  /\ aggregator.value = so_far.total
  /\ aggregator.high \in so_far.totals /\ -aggregator.low \in so_far.totals
  /\ aggregator.low \in Int
  /\ \A total \in so_far.totals : total \in -aggregator.low .. aggregator.high

\* What the session knows of an aggregator goes with the calls that were made.
Tracks(id, aggregator, so_far) ==
  /\ IsHistory(so_far)
  /\ id \in new_aggregators =>
       aggregator.state = "Data" /\ aggregator.value = so_far.total
                                 /\ aggregator.value \in 0 .. held[id]
  /\ id \notin new_aggregators /\ aggregator.state = "Data" =>
       /\ Plain(counters[id], so_far, held[id])
       /\ aggregator.value = counters[id] + so_far.total
  /\ aggregator.state # "Data" => DeltaFits(aggregator, so_far)

TracksInv == \A id \in DOMAIN aggregators : Tracks(id, aggregators[id], called(id))

V1Inv ==
  /\ IdsInv
  /\ StorageInv
  /\ status = "running" => StructsInv /\ TracksInv

LEMMA MaxOfTwo ==
  ASSUME NEW x \in Int, NEW y \in Int
  PROVE  Max({x, y}) \in {x, y} /\ Max({x, y}) >= x /\ Max({x, y}) >= y
<1>1. \E z \in {x, y} : \A other \in {x, y} : z >= other
  <2>1. CASE x >= y
    BY <2>1
  <2>2. CASE y >= x
    BY <2>2
  <2> QED
    BY <2>1, <2>2
<1>2. /\ Max({x, y}) \in {x, y}
      /\ \A other \in {x, y} : Max({x, y}) >= other
  BY <1>1 DEF Max
<1> QED
  BY <1>2

\* The extremes in the history of a delta stand for all of its values.
LEMMA ExtremesStandForAll ==
  ASSUME NEW start \in Int, NEW limit \in Int, NEW aggregator, NEW so_far,
         IsHistory(so_far), DeltaFits(aggregator, so_far)
  PROVE  fits(start, aggregator, limit) <=> Plain(start, so_far, limit)
<1>1. so_far.totals \subseteq Int /\ aggregator.high \in Int /\ aggregator.low \in Int
  BY DEF IsHistory, DeltaFits
<1>2. ASSUME fits(start, aggregator, limit), NEW total \in so_far.totals
      PROVE  start + total \in 0 .. limit
  <2>1. total \in Int /\ -aggregator.low <= total /\ total <= aggregator.high
    BY DEF DeltaFits, IsHistory
  <2>2. start + aggregator.high <= limit /\ aggregator.low <= start
    BY <1>2 DEF fits
  <2> QED
    BY <1>1, <2>1, <2>2
<1>3. ASSUME Plain(start, so_far, limit)
      PROVE  fits(start, aggregator, limit)
  <2>1. start + aggregator.high \in 0 .. limit /\ start + (-aggregator.low) \in 0 .. limit
    BY <1>3 DEF Plain, DeltaFits
  <2> QED
    BY <1>1, <2>1 DEF fits
<1> QED
  BY <1>2, <1>3 DEF Plain

\* An aggregator that the session has not used yet is a delta of zero.
LEMMA GotTracks ==
  ASSUME StructsInv, TracksInv, NEW id \in DOMAIN held
  PROVE  Tracks(id, get_aggregator(id), called(id))
<1>1. CASE id \in DOMAIN aggregators
  BY <1>1 DEF TracksInv, get_aggregator
<1>2. CASE id \notin DOMAIN aggregators
  <2>1. get_aggregator(id) = delta(0, 0, 0) /\ called(id) = no_calls /\ id \notin new_aggregators
    BY <1>2 DEF StructsInv, get_aggregator, called
  <2>2. delta(0, 0, 0).state # "Data" /\ delta(0, 0, 0).value = 0
        /\ delta(0, 0, 0).high = 0 /\ delta(0, 0, 0).low = 0
    BY DEF delta
  <2>3. no_calls.total = 0 /\ no_calls.totals = {0}
    BY DEF no_calls
  <2> QED
    BY <2>1, <2>2, <2>3 DEF Tracks, IsHistory, DeltaFits
<1> QED
  BY <1>1, <1>2

\* An addition or subtraction that is within its bounds.
LEMMA MovedTracks ==
  ASSUME NEW id, NEW aggregator, NEW so_far, NEW amount \in Int,
         Tracks(id, aggregator, so_far), held[id] \in Nat, counters[id] \in Int \/ id \in new_aggregators,
         within(moved(aggregator, amount), held[id]),
         NEW after, after = and_call(so_far, amount)
  PROVE  Tracks(id, moved(aggregator, amount), after)
<1> DEFINE later == aggregator.value + amount
<1>1. IsHistory(so_far)
  BY DEF Tracks
<1>2. /\ after.total = so_far.total + amount /\ so_far.total + amount \in Int
      /\ after.totals = so_far.totals \cup {so_far.total + amount}
  BY <1>1 DEF and_call, IsHistory
<1>3. IsHistory(after)
  BY <1>1, <1>2 DEF IsHistory
<1>4. CASE aggregator.state = "Data"
  <2>1. /\ moved(aggregator, amount).state = "Data"
        /\ moved(aggregator, amount).value = later
    BY <1>4 DEF moved, data
  <2>2. later \in 0 .. held[id]
    BY <2>1 DEF within
  <2>3. CASE id \in new_aggregators
    BY <1>1, <1>2, <1>3, <2>1, <2>2, <2>3 DEF Tracks, IsHistory
  <2>4. CASE id \notin new_aggregators
    <3>1. Plain(counters[id], so_far, held[id]) /\ aggregator.value = counters[id] + so_far.total
      BY <1>4, <2>4 DEF Tracks
    <3>2. later = counters[id] + (so_far.total + amount)
      BY <1>1, <2>4, <3>1 DEF IsHistory
    <3>3. Plain(counters[id], after, held[id])
      BY <1>2, <2>2, <3>1, <3>2 DEF Plain
    <3> QED
      BY <1>2, <1>3, <2>1, <2>4, <3>2, <3>3 DEF Tracks
  <2> QED
    BY <2>3, <2>4
<1>5. CASE aggregator.state # "Data"
  <2>1. DeltaFits(aggregator, so_far) /\ id \notin new_aggregators
    BY <1>5 DEF Tracks
  <2>2. later = so_far.total + amount /\ later \in Int
        /\ aggregator.high \in so_far.totals /\ aggregator.high \in Int
        /\ aggregator.low \in Int /\ -aggregator.low \in so_far.totals
    BY <1>1, <2>1 DEF DeltaFits, IsHistory
  <2>3. /\ moved(aggregator, amount).state # "Data"
        /\ moved(aggregator, amount).value = later
        /\ moved(aggregator, amount).high = Max({aggregator.high, later})
        /\ moved(aggregator, amount).low = Max({aggregator.low, -later})
    BY <1>5 DEF moved, delta
  <2> DEFINE high == Max({aggregator.high, later})
             low == Max({aggregator.low, -later})
  <2>4. high \in {aggregator.high, later} /\ high >= aggregator.high /\ high >= later
    BY <2>2, MaxOfTwo
  <2>5. low \in {aggregator.low, -later} /\ low >= aggregator.low /\ low >= -later
    <3>1. -later \in Int
      BY <2>2
    <3> QED
      BY <2>2, <3>1, MaxOfTwo
  <2> HIDE DEF high, low, later
  <2>6. high \in after.totals /\ -low \in after.totals /\ low \in Int /\ high \in Int
    BY <1>2, <2>2, <2>4, <2>5
  <2>7. ASSUME NEW total \in after.totals
        PROVE  total \in -low .. high
    <3>1. CASE total \in so_far.totals
      <4>1. total \in -aggregator.low .. aggregator.high
        BY <2>1, <3>1 DEF DeltaFits
      <4> QED
        BY <2>2, <2>4, <2>5, <2>6, <4>1
    <3>2. CASE total = later
      BY <2>2, <2>4, <2>5, <2>6, <3>2
    <3> QED
      BY <1>2, <2>2, <2>7, <3>1, <3>2
  <2>8. DeltaFits(moved(aggregator, amount), after)
    BY <1>2, <2>2, <2>3, <2>6, <2>7 DEF DeltaFits, high, low
  <2> QED
    BY <1>3, <2>1, <2>3, <2>8 DEF Tracks
<1> QED
  BY <1>4, <1>5

\* What storage has of the structs of the session
LEMMA StoredValues ==
  ASSUME IdsInv, StorageInv, StructsInv, NEW id \in DOMAIN held
  PROVE  /\ held[id] \in Nat /\ id \in ids
         /\ id \notin new_aggregators =>
              /\ id \in DOMAIN counters /\ id \in DOMAIN resources
              /\ counters[id] \in 0 .. held[id] /\ held[id] = resources[id]
<1>1. held[id] \in Nat /\ id \in ids
  BY AggregatorV1Constants DEF StructsInv, IsTable
<1> QED
  BY <1>1 DEF StorageInv, StructsInv

\* What is not touched goes on as it is.
LEMMA TracksStays ==
  ASSUME NEW id, Tracks(id, aggregators[id], called(id)),
         aggregators'[id] = aggregators[id], called(id)' = called(id),
         id \in new_aggregators' <=> id \in new_aggregators,
         held'[id] = held[id], counters'[id] = counters[id]
  PROVE  Tracks(id, aggregators[id], called(id))'
<1> DEFINE so_far == called(id)
           late == called(id)'
<1>1. so_far = late
  OBVIOUS
<1>2. IsHistory(late)
  BY <1>1 DEF Tracks
<1> HIDE DEF so_far, late
<1> QED
  BY <1>1, <1>2 DEF Tracks, Plain, DeltaFits, IsHistory, so_far, late

LEMMA V1InvInitially == V1Init => V1Inv
<1> SUFFICES ASSUME V1Init PROVE V1Inv
  OBVIOUS
<1>1. /\ status = "idle" /\ ids = {} /\ minted = 0 /\ num_aggregators = 0
      /\ new_aggregators = {} /\ destroyed_aggregators = {} /\ aggregators = new /\ calls = new
      /\ counters = new /\ resources = new
  BY DEF V1Init, SessionInit
<1>2. IdsInv
  BY <1>1, FS_EmptySet DEF IdsInv
<1>3. IsTable(resources, ids, Limit) /\ IsTable(counters, ids, Int) /\ DOMAIN new = {}
  BY <1>1, NewTable
<1> QED
  BY <1>1, <1>2, <1>3 DEF V1Inv, StorageInv

\* A session begins with the structs that are saved.
LEMMA StartKeepsV1 ==
  ASSUME V1Inv, NEW hash, start_aggregators(hash)
  PROVE  V1Inv'
<1>1. /\ status = "idle" /\ hash \notin used
      /\ txn' = hash /\ used' = used \cup {hash} /\ status' = "running" /\ held' = resources
      /\ UNCHANGED <<counters, resources, contextV1, calls, minted, ids>>
  BY DEF start_aggregators, open_session
<1>2. /\ num_aggregators = 0 /\ new_aggregators = {} /\ destroyed_aggregators = {}
      /\ aggregators = new /\ calls = new /\ \A id \in ids : id.txn # hash
  BY <1>1 DEF V1Inv, IdsInv
<1>3. UNCHANGED <<num_aggregators, new_aggregators, destroyed_aggregators, aggregators>>
  BY <1>1 DEF contextV1
<1>4. IdsInv'
  BY <1>1, <1>2, <1>3 DEF V1Inv, IdsInv
<1>5. StorageInv'
  BY <1>1 DEF V1Inv, StorageInv
<1>6. DOMAIN new = {}
  BY DEF new
<1>7. StructsInv'
  BY <1>1, <1>2, <1>3, <1>6 DEF V1Inv, StorageInv, StructsInv, IsTable
<1>8. TracksInv'
  BY <1>2, <1>3, <1>6 DEF TracksInv
<1> QED
  BY <1>4, <1>5, <1>7, <1>8 DEF V1Inv

\* A new struct has an id that no struct has had.
LEMMA NewAggregatorKeepsV1 ==
  ASSUME V1Inv, NEW limit \in Limit, native_new_aggregator(limit)
  PROVE  V1Inv'
<1>1. /\ status = "running" /\ UNCHANGED <<used, txn, status>>
      /\ num_aggregators' = num_aggregators + 1
      /\ new_aggregators' = new_aggregators \cup {new_id}
      /\ known(new_id, data(0))
      /\ held' = IF new_id \in DOMAIN held THEN [held EXCEPT ![new_id] = limit]
                 ELSE add(held, new_id, limit)
      /\ calls' = [i \in DOMAIN calls \cup {new_id} |-> IF i = new_id THEN no_calls ELSE calls[i]]
      /\ minted' = minted + 1 /\ ids' = ids \cup {new_id}
      /\ UNCHANGED <<counters, resources, destroyed_aggregators>>
  BY DEF native_new_aggregator, sessionVars
<1>2. IdsInv /\ StorageInv /\ StructsInv /\ TracksInv
  BY <1>1 DEF V1Inv
<1>3. new_id.txn = txn /\ new_id.n = num_aggregators
  BY DEF new_id
<1>4. new_id \notin ids
  BY <1>1, <1>2, <1>3 DEF IdsInv
<1>5. IdsInv'
  <2>1. IsFiniteSet(ids') /\ Cardinality(ids') = minted + 1
    BY <1>1, <1>2, <1>4, FS_AddElement DEF IdsInv
  <2>2. \A id \in ids' : id.txn \in used /\ id.n \in Nat
    BY <1>1, <1>2, <1>3 DEF IdsInv
  <2>3. \A id \in ids' : id.txn = txn => id.n < num_aggregators + 1
    BY <1>1, <1>2, <1>3 DEF IdsInv
  <2> QED
    BY <1>1, <1>2, <2>1, <2>2, <2>3 DEF IdsInv
<1>6. StorageInv'
  BY <1>1, <1>2 DEF StorageInv, IsTable
<1>7. new_id \notin DOMAIN held /\ new_id \notin DOMAIN resources
  BY <1>2, <1>4 DEF StructsInv, StorageInv, IsTable
<1>8. /\ IsTable(held', ids', Limit) /\ DOMAIN held' = DOMAIN held \cup {new_id}
      /\ held'[new_id] = limit /\ \A id \in DOMAIN held : held'[id] = held[id]
  <2>1. IsTable(held, ids \cup {new_id}, Limit) /\ held' = add(held, new_id, limit)
    BY <1>1, <1>2, <1>7 DEF StructsInv, IsTable
  <2>2. /\ held' = [id \in DOMAIN held \cup {new_id} |-> IF id = new_id THEN limit ELSE held[id]]
        /\ DOMAIN held \subseteq ids /\ \A id \in DOMAIN held : held[id] \in Limit
    BY <2>1, <1>2 DEF add, StructsInv, IsTable
  <2> QED
    BY <1>1, <1>7, <2>2 DEF IsTable
<1>9. /\ DOMAIN aggregators' = DOMAIN aggregators \cup {new_id}
      /\ aggregators'[new_id] = data(0)
      /\ \A id \in DOMAIN aggregators : id # new_id => aggregators'[id] = aggregators[id]
  BY <1>1 DEF known
<1>10. /\ DOMAIN calls' = DOMAIN calls \cup {new_id} /\ calls'[new_id] = no_calls
       /\ \A id \in DOMAIN calls : id # new_id => calls'[id] = calls[id]
  BY <1>1
<1>11. StructsInv'
  BY <1>1, <1>2, <1>3, <1>7, <1>8, <1>9, <1>10 DEF StructsInv
<1>12. ASSUME NEW id \in DOMAIN aggregators'
       PROVE  Tracks(id, aggregators[id], called(id))'
  <2>1. CASE id = new_id
    <3>1. /\ aggregators'[id].state = "Data" /\ aggregators'[id].value = 0
          /\ called(id)' = no_calls /\ held'[id] \in Nat /\ id \in new_aggregators'
      BY <1>1, <1>8, <1>9, <1>10, <2>1, AggregatorV1Constants DEF data, called
    <3>2. no_calls.total = 0 /\ no_calls.totals = {0}
      BY DEF no_calls
    <3> QED
      BY <3>1, <3>2 DEF Tracks, IsHistory
  <2>2. CASE id # new_id
    <3>1. /\ id \in DOMAIN aggregators /\ id \in DOMAIN held
          /\ aggregators'[id] = aggregators[id] /\ called(id)' = called(id)
      BY <1>2, <1>9, <1>10, <2>2 DEF StructsInv, called
    <3> QED
      BY <1>1, <1>2, <1>8, <2>2, <3>1, TracksStays DEF TracksInv
  <2> QED
    BY <2>1, <2>2
<1>13. TracksInv'
  BY <1>12 DEF TracksInv
<1> QED
  BY <1>5, <1>6, <1>11, <1>13 DEF V1Inv

\* The session knows something else of one of its aggregators.
LEMMA KnownKeepsV1 ==
  ASSUME V1Inv, status = "running", NEW id \in DOMAIN held, NEW aggregator, known(id, aggregator),
         UNCHANGED <<sessionVars, counters, resources, held, num_aggregators, new_aggregators,
                     destroyed_aggregators, minted, ids>>,
         \/ UNCHANGED calls /\ Tracks(id, aggregator, called(id))
         \/ \E so_far : /\ calls' = [i \in DOMAIN calls \cup {id} |-> IF i = id THEN so_far ELSE calls[i]]
                      /\ Tracks(id, aggregator, so_far)
  PROVE  V1Inv'
<1>1. /\ UNCHANGED <<used, txn, status, counters, resources, held, num_aggregators>>
      /\ UNCHANGED <<new_aggregators, destroyed_aggregators, minted, ids>>
  BY DEF sessionVars
<1>2. IdsInv /\ StorageInv /\ StructsInv /\ TracksInv
  BY DEF V1Inv
<1>3. /\ DOMAIN aggregators' = DOMAIN aggregators \cup {id}
      /\ aggregators'[id] = aggregator
      /\ \A other \in DOMAIN aggregators : other # id => aggregators'[other] = aggregators[other]
  BY DEF known
<1>4. /\ \A other : other # id => called(other)' = called(other)
      /\ Tracks(id, aggregator, called(id)')
      /\ DOMAIN calls' \subseteq DOMAIN calls \cup {id}
  BY DEF called
<1>5. IdsInv'
  BY <1>1, <1>2 DEF IdsInv
<1>6. StorageInv' /\ StructsInv'
  BY <1>1, <1>2, <1>3, <1>4 DEF StorageInv, StructsInv, IsTable
<1>7. ASSUME NEW other \in DOMAIN aggregators'
      PROVE  Tracks(other, aggregators[other], called(other))'
  <2>1. CASE other = id
    BY <1>1, <1>3, <1>4, <2>1 DEF Tracks
  <2>2. CASE other # id
    <3>1. Tracks(other, aggregators[other], called(other))
      BY <1>2, <1>3, <2>2 DEF TracksInv
    <3> QED
      BY <1>1, <1>3, <1>4, <2>2, <3>1, TracksStays
  <2> QED
    BY <2>1, <2>2
<1>8. TracksInv'
  BY <1>7 DEF TracksInv
<1> QED
  BY <1>5, <1>6, <1>8 DEF V1Inv

\* Nothing is asked of a session that has failed.
LEMMA FailKeepsV1 ==
  ASSUME V1Inv, status = "running", fail,
         UNCHANGED <<counters, resources, num_aggregators, minted, ids>>
  PROVE  V1Inv'
<1>1. status' = "failed" /\ UNCHANGED <<used, txn, counters, resources, num_aggregators, minted, ids>>
  BY DEF fail
<1>2. IdsInv'
  BY <1>1 DEF V1Inv, IdsInv
<1>3. StorageInv'
  BY <1>1 DEF V1Inv, StorageInv, IsTable
<1> QED
  BY <1>1, <1>2, <1>3 DEF V1Inv

\* An addition or a subtraction is recorded, or fails.
LEMMA MoveKeepsV1 ==
  ASSUME V1Inv, NEW id \in DOMAIN held, NEW amount \in Int, move_aggregator(id, amount)
  PROVE  V1Inv'
<1> DEFINE aggregator == moved(get_aggregator(id), amount)
<1>1. /\ status = "running"
      /\ UNCHANGED <<counters, resources, held, num_aggregators, new_aggregators,
                     destroyed_aggregators, minted, ids>>
  BY DEF move_aggregator
<1>2. IdsInv /\ StorageInv /\ StructsInv /\ TracksInv
  BY <1>1 DEF V1Inv
<1>3. CASE /\ within(aggregator, held[id]) /\ known(id, aggregator) /\ UNCHANGED sessionVars
           /\ calls' = [i \in DOMAIN calls \cup {id} |->
                          IF i = id THEN and_call(called(id), amount) ELSE calls[i]]
  <2>1. held[id] \in Nat /\ (counters[id] \in Int \/ id \in new_aggregators)
    BY <1>2, StoredValues
  <2>2. Tracks(id, aggregator, and_call(called(id), amount))
    BY <1>2, <1>3, <2>1, StoredValues, GotTracks, MovedTracks
  <2> HIDE DEF aggregator
  <2> QED
    BY <1>1, <1>3, <2>2, KnownKeepsV1
<1>4. CASE fail
  BY <1>1, <1>4, FailKeepsV1
<1> QED
  BY <1>3, <1>4 DEF move_aggregator

\* A read makes the session's own value of storage and delta, when every value
\* on the way was within the limit.
LEMMA ReadKeepsV1 ==
  ASSUME V1Inv, NEW id \in DOMAIN held, native_read(id)
  PROVE  V1Inv'
<1> DEFINE aggregator == get_aggregator(id)
           later == counters[id] + aggregator.value
<1>1. /\ status = "running"
      /\ UNCHANGED <<counters, resources, held, num_aggregators, new_aggregators,
                     destroyed_aggregators, calls, minted, ids>>
  BY DEF native_read
<1>2. IdsInv /\ StorageInv /\ StructsInv /\ TracksInv
  BY <1>1 DEF V1Inv
<1>3. CASE UNCHANGED <<sessionVars, aggregators>>
  <2>1. UNCHANGED <<used, txn, status, aggregators>>
    BY <1>3 DEF sessionVars
  <2>2. IdsInv' /\ StorageInv' /\ StructsInv'
    BY <1>1, <1>2, <2>1 DEF IdsInv, StorageInv, StructsInv, IsTable
  <2>3. \A other \in DOMAIN aggregators' : Tracks(other, aggregators[other], called(other))'
    BY <1>1, <1>2, <2>1, TracksStays DEF TracksInv, called
  <2> QED
    BY <2>2, <2>3 DEF V1Inv, TracksInv
<1>4. CASE /\ aggregator.state # "Data" /\ fits(counters[id], aggregator, held[id])
           /\ known(id, data(later)) /\ UNCHANGED sessionVars
  <2>1. Tracks(id, aggregator, called(id))
    BY <1>2, GotTracks
  <2>2. DeltaFits(aggregator, called(id)) /\ IsHistory(called(id)) /\ id \notin new_aggregators
    BY <1>4, <2>1 DEF Tracks
  <2>3. counters[id] \in Int /\ held[id] \in Int
    BY <1>2, <2>2, StoredValues
  <2>4. Plain(counters[id], called(id), held[id])
    BY <1>4, <2>2, <2>3, ExtremesStandForAll
  <2>5. data(later).state = "Data" /\ data(later).value = counters[id] + called(id).total
    BY <2>2 DEF data, DeltaFits
  <2>6. Tracks(id, data(later), called(id))
    BY <2>2, <2>4, <2>5 DEF Tracks
  <2> HIDE DEF later
  <2> QED
    BY <1>1, <1>4, <2>6, KnownKeepsV1
<1>5. CASE fail
  BY <1>1, <1>5, FailKeepsV1
<1> QED
  BY <1>3, <1>4, <1>5 DEF native_read

\* A struct that is destroyed is forgotten, and counted when storage has it.
LEMMA DestroyKeepsV1 ==
  ASSUME V1Inv, NEW id \in DOMAIN held, native_destroy(id)
  PROVE  V1Inv'
<1>1. /\ status = "running" /\ UNCHANGED <<used, txn, status>>
      /\ held' = remove(held, id)
      /\ aggregators' = [i \in DOMAIN aggregators \ {id} |-> aggregators[i]]
      /\ calls' = [i \in DOMAIN calls \ {id} |-> calls[i]]
      /\ UNCHANGED <<counters, resources, num_aggregators, minted, ids>>
  BY DEF native_destroy, sessionVars
<1>2. \/ id \in new_aggregators /\ new_aggregators' = new_aggregators \ {id}
                               /\ UNCHANGED destroyed_aggregators
      \/ id \notin new_aggregators /\ UNCHANGED new_aggregators
         /\ destroyed_aggregators' = destroyed_aggregators \cup {id}
  BY DEF native_destroy
<1>3. IdsInv /\ StorageInv /\ StructsInv /\ TracksInv
  BY <1>1 DEF V1Inv
<1>4. IdsInv' /\ StorageInv'
  BY <1>1, <1>3 DEF IdsInv, StorageInv, IsTable
<1>5. /\ IsTable(held', ids, Limit) /\ DOMAIN held' = DOMAIN held \ {id}
      /\ \A other \in DOMAIN held' : held'[other] = held[other]
  BY <1>1, <1>3 DEF remove, StructsInv, IsTable
<1>6. StructsInv'
  <2>1. \A other \in DOMAIN resources : other \notin new_aggregators
    BY <1>3 DEF StructsInv
  <2>2. DOMAIN held' = (DOMAIN resources \ destroyed_aggregators') \cup new_aggregators'
    BY <1>2, <1>3, <1>5, <2>1 DEF StructsInv
  <2>3. destroyed_aggregators' \subseteq DOMAIN resources
    BY <1>2, <1>3 DEF StructsInv
  <2>4. \A other \in DOMAIN resources \ destroyed_aggregators' : held'[other] = resources[other]
    BY <1>2, <1>3, <1>5, <2>1, <2>2 DEF StructsInv
  <2>5. /\ new_aggregators' \subseteq DOMAIN aggregators' /\ DOMAIN aggregators' \subseteq DOMAIN held'
        /\ DOMAIN calls' \subseteq DOMAIN aggregators'
    BY <1>1, <1>2, <1>3, <1>5 DEF StructsInv
  <2>6. \A other \in new_aggregators' : other.txn = txn
    BY <1>2, <1>3 DEF StructsInv
  <2>7. IsTable(held', ids', Limit)
    BY <1>1, <1>5
  <2> QED
    BY <1>1, <1>3, <2>2, <2>3, <2>4, <2>5, <2>6, <2>7 DEF StructsInv
<1>7. ASSUME NEW other \in DOMAIN aggregators'
      PROVE  Tracks(other, aggregators[other], called(other))'
  <2>1. /\ other \in DOMAIN aggregators /\ other # id /\ other \in DOMAIN held'
        /\ aggregators'[other] = aggregators[other] /\ called(other)' = called(other)
        /\ other \in new_aggregators' <=> other \in new_aggregators
    BY <1>1, <1>2, <1>3, <1>5 DEF StructsInv, called
  <2> QED
    BY <1>1, <1>3, <1>5, <2>1, TracksStays DEF TracksInv
<1>8. TracksInv'
  BY <1>7 DEF TracksInv
<1> QED
  BY <1>4, <1>6, <1>8 DEF V1Inv

\* After the session, nothing is left of it but storage.
LEMMA EndKeepsV1 ==
  ASSUME V1Inv, end_aggregators, StorageInv'
  PROVE  V1Inv'
<1>1. /\ status' = "idle" /\ num_aggregators' = 0 /\ new_aggregators' = {}
      /\ destroyed_aggregators' = {} /\ aggregators' = new /\ calls' = new
      /\ UNCHANGED <<used, minted, ids>>
  BY DEF end_aggregators, close_session
<1>2. new' = new
  BY DEF new
<1>3. IdsInv'
  BY <1>1, <1>2 DEF V1Inv, IdsInv
<1> QED
  BY <1>1, <1>3 DEF V1Inv

\* The change set deletes what was destroyed, writes values and merges deltas:
\* storage has a counter for each struct of the session, within its limit.
LEMMA CommitKeepsV1 ==
  ASSUME V1Inv, commit_aggregators
  PROVE  V1Inv'
<1> DEFINE changes == aggregator_changes
<1>1. /\ status = "running" /\ mergeable /\ end_aggregators
      /\ counters' = apply_changes(changes) /\ resources' = held /\ UNCHANGED ids
  BY DEF commit_aggregators, end_aggregators
<1>2. IdsInv /\ StorageInv /\ StructsInv /\ TracksInv
  BY <1>1 DEF V1Inv
<1>3. DOMAIN changes = DOMAIN aggregators \cup destroyed_aggregators
  BY DEF aggregator_changes
<1>4. \A id \in destroyed_aggregators : changes[id].op = "Delete"
  BY <1>3 DEF aggregator_changes
<1>5. \A id \in DOMAIN aggregators :
        /\ id \notin destroyed_aggregators
        /\ changes[id].value = aggregators[id].value
        /\ changes[id].op = IF aggregators[id].state = "Data" THEN "Write" ELSE "Merge"
  BY <1>2 DEF aggregator_changes, StructsInv
<1> HIDE DEF changes
<1>6. DOMAIN counters' = {i \in DOMAIN counters \cup DOMAIN changes :
                            i \in DOMAIN changes => changes[i].op # "Delete"}
  BY <1>1 DEF apply_changes
<1>7. DOMAIN counters' = DOMAIN held
  <2>1. \A id \in DOMAIN aggregators : changes[id].op # "Delete"
    BY <1>5
  <2>2. DOMAIN counters' = (DOMAIN counters \cup DOMAIN aggregators) \ destroyed_aggregators
    BY <1>3, <1>4, <1>5, <1>6, <2>1
  <2> QED
    BY <1>2, <2>2 DEF StructsInv, StorageInv
<1>8. ASSUME NEW id \in DOMAIN held
      PROVE  counters'[id] \in 0 .. held[id]
  <2>1. counters'[id] = IF id \notin DOMAIN changes THEN counters[id]
                        ELSE IF changes[id].op = "Merge" THEN counters[id] + changes[id].value
                        ELSE changes[id].value
    BY <1>1, <1>6, <1>7 DEF apply_changes
  <2>2. id \notin destroyed_aggregators
    BY <1>2 DEF StructsInv
  <2>3. CASE id \notin DOMAIN aggregators
    <3>1. id \notin new_aggregators
      BY <1>2, <2>3 DEF StructsInv
    <3> QED
      BY <1>2, <1>3, <2>1, <2>2, <2>3, <3>1, StoredValues
  <2>4. CASE id \in DOMAIN aggregators
    <3> DEFINE aggregator == aggregators[id]
    <3>1. Tracks(id, aggregator, called(id)) /\ IsHistory(called(id))
      BY <1>2, <2>4 DEF TracksInv, Tracks
    <3>2. CASE aggregator.state = "Data"
      <4>1. counters'[id] = aggregator.value
        BY <1>3, <1>5, <2>1, <2>4, <3>2
      <4> QED
        BY <3>1, <3>2, <4>1 DEF Tracks, Plain, IsHistory
    <3>3. CASE aggregator.state # "Data"
      <4>1. counters'[id] = counters[id] + aggregator.value
        BY <1>3, <1>5, <2>1, <2>4, <3>3
      <4>2. DeltaFits(aggregator, called(id)) /\ id \notin new_aggregators
        BY <3>1, <3>3 DEF Tracks
      <4>3. fits(counters[id], aggregator, held[id])
        BY <1>1, <2>4, <3>3 DEF mergeable
      <4>4. counters[id] \in Int /\ held[id] \in Int
        BY <1>2, <4>2, StoredValues
      <4>5. Plain(counters[id], called(id), held[id])
        BY <3>1, <4>2, <4>3, <4>4, ExtremesStandForAll
      <4>6. aggregator.value = called(id).total /\ called(id).total \in called(id).totals
        BY <3>1, <4>2 DEF DeltaFits, IsHistory
      <4> QED
        BY <4>1, <4>5, <4>6 DEF Plain
    <3> QED
      BY <3>2, <3>3
  <2> QED
    BY <2>3, <2>4
<1>9. IsTable(counters', ids', Int)
  <2>1. counters' = [id \in DOMAIN counters' |-> counters'[id]]
    BY <1>1, <1>6 DEF apply_changes
  <2>2. \A id \in DOMAIN counters' : counters'[id] \in Int
    BY <1>7, <1>8
  <2> QED
    BY <1>1, <1>2, <1>7, <2>1, <2>2 DEF IsTable, StructsInv
<1>10. StorageInv'
  BY <1>1, <1>2, <1>7, <1>8, <1>9 DEF StorageInv, StructsInv, IsTable
<1> QED
  BY <1>1, <1>10, EndKeepsV1

\* Another transaction changes a counter of which the session has a delta only.
LEMMA CountedElsewhereKeepsV1 ==
  ASSUME V1Inv, NEW id, NEW later \in Nat, counted_elsewhere(id, later)
  PROVE  V1Inv'
<1>1. /\ id \in DOMAIN counters /\ later <= resources[id]
      /\ id \in DOMAIN aggregators => aggregators[id].state # "Data"
      /\ counters' = [counters EXCEPT ![id] = later]
      /\ UNCHANGED <<used, txn, status, resources, held, num_aggregators>>
      /\ UNCHANGED <<new_aggregators, destroyed_aggregators, aggregators, calls, minted, ids>>
  BY DEF counted_elsewhere, sessionVars, contextV1
<1>2. IdsInv /\ StorageInv
  BY DEF V1Inv
<1>3. IdsInv'
  BY <1>1, <1>2 DEF IdsInv
<1>4. /\ DOMAIN counters' = DOMAIN counters /\ counters'[id] = later
      /\ \A other \in DOMAIN counters : other # id => counters'[other] = counters[other]
      /\ IsTable(counters', ids, Int)
  BY <1>1, <1>2 DEF StorageInv, IsTable
<1>5. resources[id] \in Nat
  BY <1>1, <1>2, AggregatorV1Constants DEF StorageInv, IsTable
<1>6. StorageInv'
  BY <1>1, <1>2, <1>4, <1>5 DEF StorageInv, IsTable
<1>7. ASSUME status = "running"
      PROVE  StructsInv' /\ TracksInv'
  <2>1. StructsInv /\ TracksInv
    BY <1>7 DEF V1Inv
  <2>2. StructsInv'
    BY <1>1, <2>1 DEF StructsInv, IsTable
  <2>3. ASSUME NEW other \in DOMAIN aggregators'
        PROVE  Tracks(other, aggregators[other], called(other))'
    <3>1. Tracks(other, aggregators[other], called(other)) /\ called(other)' = called(other)
      BY <1>1, <2>1 DEF TracksInv, called
    <3>2. CASE other = id
      <4>1. aggregators[other].state # "Data" /\ DeltaFits(aggregators[other], called(other))
        BY <1>1, <3>1, <3>2 DEF Tracks
      <4> QED
        BY <1>1, <3>1, <3>2, <4>1 DEF Tracks, called
    <3>3. CASE other # id
      <4>1. CASE other \in DOMAIN counters
        BY <1>1, <1>4, <3>1, <3>3, <4>1, TracksStays
      <4>2. CASE other \notin DOMAIN counters
        <5>1. other \in new_aggregators
          BY <1>1, <1>2, <2>1, <4>2 DEF StructsInv, StorageInv
        <5>2. aggregators[other].state = "Data"
          BY <3>1, <5>1 DEF Tracks
        <5> QED
          BY <1>1, <3>1, <5>1, <5>2 DEF Tracks, called
      <4> QED
        BY <4>1, <4>2
    <3> QED
      BY <3>2, <3>3
  <2> QED
    BY <2>2, <2>3 DEF TracksInv
<1> QED
  BY <1>1, <1>3, <1>6, <1>7 DEF V1Inv

LEMMA StepKeepsV1 == V1Inv /\ [V1Next]_v1Vars => V1Inv'
<1> SUFFICES ASSUME V1Inv, [V1Next]_v1Vars PROVE V1Inv'
  OBVIOUS
<1>1. ASSUME NEW hash \in TxnHash, start_aggregators(hash) PROVE V1Inv'
  BY <1>1, StartKeepsV1
<1>2. CASE V1Call
  <2>1. ASSUME NEW limit \in Limit, native_new_aggregator(limit) PROVE V1Inv'
    BY <2>1, NewAggregatorKeepsV1
  <2>2. ASSUME NEW id \in DOMAIN held, native_read(id) \/ native_destroy(id) PROVE V1Inv'
    BY <2>2, ReadKeepsV1, DestroyKeepsV1
  <2>3. ASSUME NEW id \in DOMAIN held, NEW amount \in Amount,
               native_add(id, amount) \/ native_sub(id, amount)
        PROVE  V1Inv'
    <3>1. amount \in Int /\ -amount \in Int
      BY AggregatorV1Constants
    <3> QED
      BY <2>3, <3>1, MoveKeepsV1 DEF native_add, native_sub
  <2> QED
    BY <1>2, <2>1, <2>2, <2>3 DEF V1Call
<1>3. CASE commit_aggregators
  BY <1>3, CommitKeepsV1
<1>4. CASE discard_aggregators
  <2>1. end_aggregators /\ UNCHANGED <<counters, resources, ids>>
    BY <1>4 DEF discard_aggregators, end_aggregators
  <2>2. StorageInv'
    BY <2>1 DEF V1Inv, StorageInv, IsTable
  <2> QED
    BY <2>1, <2>2, EndKeepsV1
<1>5. ASSUME NEW id \in DOMAIN counters, NEW later \in 0 .. Max(Limit), counted_elsewhere(id, later)
      PROVE  V1Inv'
  BY <1>5, CountedElsewhereKeepsV1
<1>6. CASE UNCHANGED v1Vars
  <2>1. /\ UNCHANGED <<used, txn, status, counters, resources, held, num_aggregators>>
        /\ UNCHANGED <<new_aggregators, destroyed_aggregators, aggregators, calls, minted, ids>>
    BY <1>6 DEF v1Vars, sessionVars, contextV1
  <2>2. IdsInv' /\ StorageInv'
    BY <2>1 DEF V1Inv, IdsInv, StorageInv, IsTable
  <2>3. ASSUME status = "running" PROVE StructsInv' /\ TracksInv'
    <3>1. StructsInv'
      BY <2>1, <2>3 DEF V1Inv, StructsInv, IsTable
    <3>2. \A id \in DOMAIN aggregators' : Tracks(id, aggregators[id], called(id))'
      BY <2>1, <2>3, TracksStays DEF V1Inv, TracksInv, called
    <3> QED
      BY <3>1, <3>2 DEF TracksInv
  <2> QED
    BY <2>1, <2>2, <2>3 DEF V1Inv
<1> QED
  BY <1>1, <1>2, <1>3, <1>4, <1>5, <1>6 DEF V1Next

LEMMA V1Invariant == V1Spec => []V1Inv
<1>1. V1Init => V1Inv
  BY V1InvInitially
<1>2. V1Inv /\ [V1Next]_v1Vars => V1Inv'
  BY StepKeepsV1
<1> QED
  BY <1>1, <1>2, PTL DEF V1Spec

(* A session that never reads a counter commits exactly when a plain counter *)
(* would have stayed within its limit all the way, and leaves its value; one *)
(* that reads goes on with a value that a plain counter has too: the history *)
(* of a delta (DeltaHistory) loses nothing that matters.                     *)
THEOREM DeltasMergeLikePlain == V1Spec => []MergesLikePlain
<1>1. V1Inv => MergesLikePlain
  <2> SUFFICES ASSUME V1Inv, status = "running", NEW id \in DOMAIN aggregators
               PROVE  IF aggregators[id].state = "Data" /\ id \notin new_aggregators
                      THEN /\ Plain(counters[id], called(id), held[id])
                           /\ aggregators[id].value = counters[id] + called(id).total
                      ELSE /\ aggregators[id].value = called(id).total
                           /\ \A start \in 0 .. held[id] :
                                id \notin new_aggregators =>
                                  (fits(start, aggregators[id], held[id])
                                     <=> Plain(start, called(id), held[id]))
    BY DEF MergesLikePlain
  <2>1. IdsInv /\ StorageInv /\ StructsInv /\ TracksInv
    BY DEF V1Inv
  <2>2. Tracks(id, aggregators[id], called(id)) /\ IsHistory(called(id)) /\ id \in DOMAIN held
    BY <2>1 DEF TracksInv, Tracks, StructsInv
  <2>3. CASE aggregators[id].state = "Data"
    BY <2>2, <2>3 DEF Tracks
  <2>4. CASE aggregators[id].state # "Data"
    <3>1. DeltaFits(aggregators[id], called(id)) /\ held[id] \in Int
      BY <2>1, <2>2, <2>4, StoredValues DEF Tracks
    <3>2. \A start \in 0 .. held[id] :
            fits(start, aggregators[id], held[id]) <=> Plain(start, called(id), held[id])
      BY <2>2, <3>1, ExtremesStandForAll
    <3> QED
      BY <2>4, <3>1, <3>2 DEF DeltaFits
  <2> QED
    BY <2>3, <2>4
<1> QED
  BY <1>1, V1Invariant, PTL

(* No two structs have the same id, in or across sessions, and storage has a *)
(* counter for exactly the structs that exist, within the limit of each: an  *)
(* aggregator made and destroyed in one session leaves nothing behind, and   *)
(* one of an earlier session is deleted with its struct (into_change_set).   *)
THEOREM CountersFollowStructs == V1Spec => []CountersMatchStructs
<1>1. V1Inv => CountersMatchStructs
  BY DEF V1Inv, IdsInv, StorageInv, CountersMatchStructs
<1> QED
  BY <1>1, V1Invariant, PTL

-----------------------------------------------------------------------------
(* Aggregators with snapshots.                                              *)

\* What storage has: every aggregator is within its maximum, and every string has
\* the value of its snapshot.
V2StorageInv ==
  /\ DOMAIN max_values \subseteq Aggregator /\ DOMAIN base \subseteq DOMAIN max_values
  /\ \A a \in DOMAIN max_values : max_values[a] \in Nat
  /\ \A a \in DOMAIN base : base[a] \in 0 .. max_values[a]
  /\ StringsMatchSnapshots
  /\ status = "idle" => derived = {} /\ DOMAIN max_values = DOMAIN base

\* What a session has beside its aggregators: the snapshots of storage as they
\* are, others of which each is a value or stands for an aggregator in storage,
\* and strings that will get what their snapshots get.
V2SessionInv ==
  /\ DOMAIN fields = DOMAIN max_values /\ DOMAIN plain_ones = DOMAIN max_values
  /\ DOMAIN predicted = DOMAIN base /\ DOMAIN deltas = DOMAIN base
  /\ \A s \in DOMAIN taken : s \in DOMAIN snapshots /\ snapshots[s] = plain(taken[s])
  /\ \A s \in DOMAIN snapshots :
       snapshots[s].of # "value" => snapshots[s].of \in DOMAIN base
  /\ \A d \in derived : d.of \in DOMAIN snapshots /\ d.field = snapshots[d.of]

\* A history of a delta over an aggregator that is predicted to be at value.
IsDeltaHistory(h, at) ==
  /\ h \in [max_achieved : Int, min_achieved : Int,
            min_overflow : SUBSET Int, max_underflow : SUBSET Int, read : SUBSET Int]
  /\ h.min_overflow = {} \/ \E refused \in h.min_overflow : h.min_overflow = {refused}
  /\ h.max_underflow = {} \/ \E refused \in h.max_underflow : h.max_underflow = {refused}
  /\ h.read \subseteq {at}

\* Where a plain counter may have started, as far as the session knows.
Possible(a, start) ==
  IF fields[a].of = "value"
  THEN start = IF a \in DOMAIN base THEN predicted[a] ELSE 0
  ELSE allows(deltas[a], max_values[a], start)

\* The field of an aggregator is its value, or a delta within the extremes of its
\* history; the plain counters that are still possible agree with it.
Followed(a) ==
  /\ fields[a] \in [of : {"value", a}, by : Int]
  /\ fields[a].of = "value" => fields[a].by \in 0 .. max_values[a]
  /\ fields[a].of # "value" =>
       /\ a \in DOMAIN base
       /\ deltas[a].min_achieved <= fields[a].by /\ fields[a].by <= deltas[a].max_achieved
  /\ a \in DOMAIN base =>
       predicted[a] \in 0 .. max_values[a] /\ IsDeltaHistory(deltas[a], predicted[a])
  /\ DOMAIN plain_ones[a].from = 0 .. max_values[a]
  /\ \A start \in 0 .. max_values[a] :
       /\ DOMAIN plain_ones[a].from[start] = {"value", "agrees", "seen"}
       /\ DOMAIN plain_ones[a].from[start].seen \subseteq DOMAIN snapshots
       /\ Possible(a, start) => Agrees(a, start)

V2Inv ==
  /\ V2StorageInv
  /\ status # "idle" => V2SessionInv /\ \A a \in DOMAIN fields : Followed(a)

-----------------------------------------------------------------------------
\* The smaller of two numbers.
LEMMA MinOfTwo ==
  ASSUME NEW x \in Int, NEW y \in Int
  PROVE  Min({x, y}) \in {x, y} /\ Min({x, y}) <= x /\ Min({x, y}) <= y
<1>1. \E z \in {x, y} : \A other \in {x, y} : z <= other
  <2>1. CASE x >= y
    BY <2>1
  <2>2. CASE y >= x
    BY <2>2
  <2> QED
    BY <2>1, <2>2
<1>2. /\ Min({x, y}) \in {x, y}
      /\ \A other \in {x, y} : Min({x, y}) <= other
  BY <1>1 DEF Min
<1> QED
  BY <1>2

\* A delta that was refused becomes the bound, or is beyond the bound there is.
LEMMA RefusedAbove ==
  ASSUME NEW refused \in SUBSET Int, NEW by \in Int,
         refused = {} \/ \E one \in Int : refused = {one}
  PROVE  \E bound \in Int :
           /\ {Min(refused \cup {by})} = {bound} /\ bound <= by
           /\ \A one \in refused : one \in Int /\ bound <= one
<1>1. CASE refused = {}
  <2>1. refused \cup {by} = {by, by}
    BY <1>1
  <2> QED
    BY <1>1, <2>1, MinOfTwo
<1>2. ASSUME NEW one \in Int, refused = {one}
      PROVE  \E bound \in Int :
               /\ {Min(refused \cup {by})} = {bound} /\ bound <= by
               /\ \A other \in refused : other \in Int /\ bound <= other
  <2> DEFINE bound == Min({one, by})
  <2>1. refused \cup {by} = {one, by}
    BY <1>2
  <2>2. bound \in Int /\ bound <= one /\ bound <= by
    BY MinOfTwo
  <2>3. {Min(refused \cup {by})} = {bound}
    BY <2>1
  <2> HIDE DEF bound
  <2> QED
    BY <1>2, <2>2, <2>3
<1> QED
  BY <1>1, <1>2

LEMMA RefusedBelow ==
  ASSUME NEW refused \in SUBSET Int, NEW by \in Int,
         refused = {} \/ \E one \in Int : refused = {one}
  PROVE  \E bound \in Int :
           /\ {Max(refused \cup {by})} = {bound} /\ bound >= by
           /\ \A one \in refused : one \in Int /\ bound >= one
<1>1. CASE refused = {}
  <2>1. refused \cup {by} = {by, by}
    BY <1>1
  <2> QED
    BY <1>1, <2>1, MaxOfTwo
<1>2. ASSUME NEW one \in Int, refused = {one}
      PROVE  \E bound \in Int :
               /\ {Max(refused \cup {by})} = {bound} /\ bound >= by
               /\ \A other \in refused : other \in Int /\ bound >= other
  <2> DEFINE bound == Max({one, by})
  <2>1. refused \cup {by} = {one, by}
    BY <1>2
  <2>2. bound \in Int /\ bound >= one /\ bound >= by
    BY MaxOfTwo
  <2>3. {Max(refused \cup {by})} = {bound}
    BY <2>1
  <2> HIDE DEF bound
  <2> QED
    BY <1>2, <2>2, <2>3
<1> QED
  BY <1>1, <1>2

\* What is decided by the value that storage is predicted to have is what would
\* be decided by every value that the history still allows, and these are among
\* the values that it allowed before.
LEMMA DecisionsStand ==
  ASSUME NEW max \in Nat, NEW at \in 0 .. max, NEW h, IsDeltaHistory(h, at),
         NEW by \in Int
  PROVE  LET after == record(h, by, max, at)
         IN /\ IsDeltaHistory(after, at)
            /\ after.min_achieved <= h.min_achieved /\ h.max_achieved <= after.max_achieved
            /\ at + by \in 0 .. max => after.min_achieved <= by /\ by <= after.max_achieved
            /\ \A start \in 0 .. max :
                 allows(after, max, start) =>
                   /\ allows(h, max, start)
                   /\ start + by \in 0 .. max <=> at + by \in 0 .. max
<1> DEFINE after == record(h, by, max, at)
<1>0. /\ h \in [max_achieved : Int, min_achieved : Int,
                min_overflow : SUBSET Int, max_underflow : SUBSET Int, read : SUBSET Int]
      /\ h.min_overflow = {} \/ \E refused \in h.min_overflow : h.min_overflow = {refused}
      /\ h.max_underflow = {} \/ \E refused \in h.max_underflow : h.max_underflow = {refused}
      /\ h.read \subseteq {at}
  BY DEF IsDeltaHistory
<1>1. CASE at + by > max
  <2>1. PICK bound \in Int :
           /\ {Min(h.min_overflow \cup {by})} = {bound} /\ bound <= by
           /\ \A one \in h.min_overflow : one \in Int /\ bound <= one
    BY <1>0, RefusedAbove
  <2>2. after = [h EXCEPT !.min_overflow = {bound}]
    BY <1>1, <2>1 DEF record
  <2> HIDE DEF after
  <2>3. /\ after.min_overflow = {bound} /\ after.max_achieved = h.max_achieved
        /\ after.min_achieved = h.min_achieved /\ after.max_underflow = h.max_underflow
        /\ after.read = h.read
    BY <1>0, <2>2
  <2>4. IsDeltaHistory(after, at)
    BY <1>0, <2>1, <2>2 DEF IsDeltaHistory
  <2>5. ASSUME NEW start \in 0 .. max, allows(after, max, start)
        PROVE  allows(h, max, start) /\ start + by > max
    <3>1. start + bound > max
      BY <2>3, <2>5 DEF allows
    <3>2. \A refused \in h.min_overflow : start + refused > max
      BY <2>1, <3>1
    <3>3. start + by > max
      BY <2>1, <3>1
    <3> QED
      BY <2>3, <2>5, <3>2, <3>3 DEF allows
  <2>6. ~ at + by \in 0 .. max
    BY <1>1
  <2>7. h.min_achieved <= h.min_achieved /\ h.max_achieved <= h.max_achieved
    BY <1>0
  <2>8. \A start \in 0 .. max : start + by > max => ~ start + by \in 0 .. max
    OBVIOUS
  <2> QED
    BY <2>3, <2>4, <2>5, <2>6, <2>7, <2>8 DEF after
<1>2. CASE ~ at + by > max /\ at + by < 0
  <2>1. PICK bound \in Int :
           /\ {Max(h.max_underflow \cup {by})} = {bound} /\ bound >= by
           /\ \A one \in h.max_underflow : one \in Int /\ bound >= one
    BY <1>0, RefusedBelow
  <2>2. after = [h EXCEPT !.max_underflow = {bound}]
    BY <1>2, <2>1 DEF record
  <2> HIDE DEF after
  <2>3. /\ after.max_underflow = {bound} /\ after.max_achieved = h.max_achieved
        /\ after.min_achieved = h.min_achieved /\ after.min_overflow = h.min_overflow
        /\ after.read = h.read
    BY <1>0, <2>2
  <2>4. IsDeltaHistory(after, at)
    BY <1>0, <2>1, <2>2 DEF IsDeltaHistory
  <2>5. ASSUME NEW start \in 0 .. max, allows(after, max, start)
        PROVE  allows(h, max, start) /\ start + by < 0
    <3>1. start + bound < 0
      BY <2>3, <2>5 DEF allows
    <3>2. \A refused \in h.max_underflow : start + refused < 0
      BY <2>1, <3>1
    <3>3. start + by < 0
      BY <2>1, <3>1
    <3> QED
      BY <2>3, <2>5, <3>2, <3>3 DEF allows
  <2>6. ~ at + by \in 0 .. max
    BY <1>2
  <2>7. h.min_achieved <= h.min_achieved /\ h.max_achieved <= h.max_achieved
    BY <1>0
  <2>8. \A start \in 0 .. max : start + by < 0 => ~ start + by \in 0 .. max
    OBVIOUS
  <2> QED
    BY <2>3, <2>4, <2>5, <2>6, <2>7, <2>8 DEF after
<1>3. CASE ~ at + by > max /\ ~ at + by < 0
  <2> DEFINE high == Max({h.max_achieved, by})
             low == Min({h.min_achieved, by})
  <2>1. after = [h EXCEPT !.max_achieved = high, !.min_achieved = low]
    BY <1>0, <1>3 DEF record
  <2>2. high \in Int /\ high >= h.max_achieved /\ high >= by
    BY <1>0, MaxOfTwo
  <2>3. low \in Int /\ low <= h.min_achieved /\ low <= by
    BY <1>0, MinOfTwo
  <2> HIDE DEF after, high, low
  <2>4. /\ after.max_achieved = high /\ after.min_achieved = low
        /\ after.min_overflow = h.min_overflow /\ after.max_underflow = h.max_underflow
        /\ after.read = h.read
    BY <1>0, <2>1
  <2>5. IsDeltaHistory(after, at)
    BY <1>0, <2>1, <2>2, <2>3 DEF IsDeltaHistory
  <2>6. ASSUME NEW start \in 0 .. max, allows(after, max, start)
        PROVE  allows(h, max, start) /\ start + by \in 0 .. max
    <3>1. start + high <= max /\ start + low >= 0
      BY <2>4, <2>6 DEF allows
    <3>2. /\ start + h.max_achieved <= max /\ start + h.min_achieved >= 0
          /\ start + by <= max /\ start + by >= 0
      BY <1>0, <2>2, <2>3, <3>1
    <3> QED
      BY <2>4, <2>6, <3>2 DEF allows
  <2>7. at + by \in 0 .. max
    BY <1>3
  <2> QED
    BY <2>2, <2>3, <2>4, <2>5, <2>6, <2>7 DEF after
<1> QED
  BY <1>1, <1>2, <1>3

\* An aggregator that a step does not call is followed as before, whatever other
\* snapshots there are, and although the value behind it may have been read.
LEMMA FollowedStays ==
  ASSUME NEW a, Followed(a), max_values[a] \in Nat,
         UNCHANGED predicted, DOMAIN base' = DOMAIN base,
         fields'[a] = fields[a], plain_ones'[a] = plain_ones[a],
         max_values'[a] = max_values[a],
         a \in DOMAIN base =>
           deltas'[a] \in {deltas[a], [deltas[a] EXCEPT !.read = {predicted[a]}]},
         \A s \in DOMAIN snapshots : s \in DOMAIN snapshots' /\ snapshots'[s] = snapshots[s]
  PROVE  Followed(a)'
<1>1. ASSUME a \in DOMAIN base
      PROVE  /\ IsDeltaHistory(deltas'[a], predicted[a])
             /\ deltas'[a].min_achieved = deltas[a].min_achieved
             /\ deltas'[a].max_achieved = deltas[a].max_achieved
             /\ \A start \in 0 .. max_values[a] :
                  allows(deltas'[a], max_values[a], start)
                    => allows(deltas[a], max_values[a], start)
  <2>1. IsDeltaHistory(deltas[a], predicted[a]) /\ predicted[a] \in 0 .. max_values[a]
    BY <1>1 DEF Followed
  <2>2. CASE deltas'[a] = deltas[a]
    BY <2>1, <2>2
  <2>3. CASE deltas'[a] = [deltas[a] EXCEPT !.read = {predicted[a]}]
    BY <2>1, <2>3 DEF IsDeltaHistory, allows
  <2> QED
    BY <1>1, <2>2, <2>3
<1>2. ASSUME NEW start \in 0 .. max_values[a], Possible(a, start)'
      PROVE  Agrees(a, start)'
  <2>1. fields[a].of # "value" => a \in DOMAIN base
    BY DEF Followed
  <2>2. Possible(a, start)
    BY <1>1, <1>2, <2>1 DEF Possible
  <2>3. Agrees(a, start) /\ DOMAIN plain_ones[a].from[start].seen \subseteq DOMAIN snapshots
    BY <2>2 DEF Followed
  <2> QED
    BY <2>3 DEF Agrees, resolved
<1>3. \A start \in 0 .. max_values[a] :
        /\ DOMAIN plain_ones'[a].from[start] = {"value", "agrees", "seen"}
        /\ DOMAIN plain_ones'[a].from[start].seen \subseteq DOMAIN snapshots'
  BY DEF Followed
<1> QED
  BY <1>1, <1>2, <1>3 DEF Followed

LEMMA V2Initially == V2Init => V2Inv
<1> SUFFICES ASSUME V2Init PROVE V2Inv
  OBVIOUS
<1>1. DOMAIN new = {}
  BY DEF new
<1> QED
  BY <1>1 DEF V2Init, SessionInit, V2Inv, V2StorageInv, StringsMatchSnapshots

LEMMA StartKeepsV2 ==
  ASSUME V2Inv, NEW hash, NEW enabled \in BOOLEAN, start_v2(hash, enabled)
  PROVE  V2Inv'
<1>1. /\ status = "idle" /\ status' = "running" /\ predicted' = base
      /\ fields' = [a \in DOMAIN base |-> IF enabled THEN delta_of(a, 0) ELSE plain(base[a])]
      /\ snapshots' = [s \in DOMAIN taken |-> plain(taken[s])]
      /\ deltas' = [a \in DOMAIN base |-> NoHistory]
      /\ plain_ones' = [a \in DOMAIN base |-> beside(max_values[a])]
      /\ UNCHANGED <<max_values, base, taken, strings, derived>>
  BY DEF start_v2, open_session
<1>2. V2StorageInv /\ derived = {} /\ DOMAIN max_values = DOMAIN base
  BY <1>1 DEF V2Inv, V2StorageInv
<1>3. V2StorageInv'
  BY <1>1, <1>2 DEF V2StorageInv, StringsMatchSnapshots
<1>4. V2SessionInv'
  BY <1>1, <1>2 DEF V2SessionInv, plain
<1>5. ASSUME NEW a \in DOMAIN base
      PROVE  Followed(a)'
  <2> DEFINE max == max_values[a]
  <2>1. max \in Nat /\ base[a] \in 0 .. max /\ a # "value"
    BY <1>2, AggregatorV2Constants DEF V2StorageInv
  <2>2. /\ fields'[a] = IF enabled THEN [of |-> a, by |-> 0] ELSE [of |-> "value", by |-> base[a]]
        /\ deltas'[a] = NoHistory /\ plain_ones'[a] = beside(max)
        /\ predicted'[a] = base[a] /\ max_values'[a] = max /\ DOMAIN base' = DOMAIN base
    BY <1>1 DEF plain, delta_of
  <2>3. /\ beside(max).from = [start \in 0 .. max |->
                                [value |-> start, agrees |-> TRUE, seen |-> new]]
        /\ DOMAIN new = {}
    BY DEF beside, new
  <2>4. IsDeltaHistory(NoHistory, base[a]) /\ NoHistory.min_achieved = 0 /\ NoHistory.max_achieved = 0
    BY DEF IsDeltaHistory, NoHistory
  <2>5. ASSUME NEW start \in 0 .. max, Possible(a, start)'
        PROVE  Agrees(a, start)'
    <3>1. plain_ones'[a].from[start] = [value |-> start, agrees |-> TRUE, seen |-> new]
      BY <2>2, <2>3
    <3>2. CASE enabled
      <4>1. resolved(fields'[a], [base EXCEPT ![a] = start]) = start
        BY <2>1, <2>2, <3>2 DEF resolved
      <4> QED
        BY <1>1, <2>3, <3>1, <4>1 DEF Agrees
    <3>3. CASE ~ enabled
      <4>1. start = base[a]
        BY <1>1, <2>2, <2>5, <3>3 DEF Possible
      <4>2. resolved(fields'[a], [base EXCEPT ![a] = start]) = start
        BY <2>1, <2>2, <3>3, <4>1 DEF resolved
      <4> QED
        BY <1>1, <2>3, <3>1, <4>2 DEF Agrees
    <3> QED
      BY <3>2, <3>3
  <2> HIDE DEF max
  <2>6. \A start \in 0 .. max :
          /\ DOMAIN plain_ones'[a].from[start] = {"value", "agrees", "seen"}
          /\ DOMAIN plain_ones'[a].from[start].seen \subseteq DOMAIN snapshots'
    BY <2>2, <2>3
  <2>7. DOMAIN plain_ones'[a].from = 0 .. max
    BY <2>2, <2>3
  <2>8. /\ fields'[a] \in [of : {"value", a}, by : Int]
        /\ fields'[a].of = "value" => fields'[a].by \in 0 .. max
        /\ fields'[a].of # "value" => fields'[a].by = 0
    BY <2>1, <2>2
  <2> QED
    BY <2>1, <2>2, <2>4, <2>5, <2>6, <2>7, <2>8 DEF Followed
<1> QED
  BY <1>1, <1>3, <1>4, <1>5 DEF V2Inv

\* A plain counter starts from nothing beside an aggregator that starts from nothing.
LEMMA CreateKeepsV2 ==
  ASSUME V2Inv, NEW a \in Aggregator, NEW max \in MaxValues,
         create_aggregator_with_max_value(a, max)
  PROVE  V2Inv'
<1>1. /\ status = "running" /\ status' = status /\ a \notin DOMAIN fields
      /\ max_values' = add(max_values, a, max) /\ fields' = add(fields, a, plain(0))
      /\ plain_ones' = add(plain_ones, a, beside(max))
      /\ UNCHANGED <<base, taken, strings, predicted, snapshots, deltas, derived>>
  BY DEF create_aggregator_with_max_value, sessionVars, v2Storage
<1>2. V2StorageInv /\ V2SessionInv /\ \A other \in DOMAIN fields : Followed(other)
  BY <1>1 DEF V2Inv
<1>3. /\ a \notin DOMAIN max_values /\ a \notin DOMAIN base /\ a \notin DOMAIN plain_ones
      /\ max \in Nat /\ DOMAIN base \subseteq DOMAIN fields
  BY <1>1, <1>2, AggregatorV2Constants DEF V2SessionInv, V2StorageInv
<1>4. /\ DOMAIN max_values' = DOMAIN max_values \cup {a} /\ max_values'[a] = max
      /\ \A other \in DOMAIN max_values : max_values'[other] = max_values[other]
      /\ DOMAIN fields' = DOMAIN fields \cup {a} /\ fields'[a] = plain(0)
      /\ \A other \in DOMAIN fields : fields'[other] = fields[other]
      /\ DOMAIN plain_ones' = DOMAIN plain_ones \cup {a} /\ plain_ones'[a] = beside(max)
      /\ \A other \in DOMAIN plain_ones : plain_ones'[other] = plain_ones[other]
  BY <1>1, <1>3 DEF add
<1>5. V2StorageInv'
  BY <1>1, <1>2, <1>3, <1>4 DEF V2StorageInv, StringsMatchSnapshots
<1>6. V2SessionInv'
  BY <1>1, <1>2, <1>4 DEF V2SessionInv
<1>7. ASSUME NEW other \in DOMAIN fields
      PROVE  Followed(other)'
  <2>1. other \in DOMAIN max_values /\ other \in DOMAIN plain_ones /\ max_values[other] \in Nat
    BY <1>2 DEF V2SessionInv, V2StorageInv
  <2> QED
    BY <1>1, <1>2, <1>4, <2>1, FollowedStays
<1>8. Followed(a)'
  <2>1. /\ fields'[a] = [of |-> "value", by |-> 0] /\ max_values'[a] = max
        /\ a \notin DOMAIN base'
    BY <1>1, <1>3, <1>4 DEF plain
  <2>2. /\ plain_ones'[a].from = [start \in 0 .. max |->
                                  [value |-> start, agrees |-> TRUE, seen |-> new]]
        /\ DOMAIN new = {}
    BY <1>4 DEF beside, new
  <2>3. ASSUME NEW start \in 0 .. max, Possible(a, start)'
        PROVE  Agrees(a, start)'
    <3>1. start = 0 /\ plain_ones'[a].from[start] = [value |-> start, agrees |-> TRUE, seen |-> new]
      BY <2>1, <2>2, <2>3 DEF Possible
    <3> QED
      BY <2>1, <2>2, <3>1 DEF Agrees, resolved
  <2>4. \A start \in 0 .. max :
          /\ DOMAIN plain_ones'[a].from[start] = {"value", "agrees", "seen"}
          /\ DOMAIN plain_ones'[a].from[start].seen \subseteq DOMAIN snapshots'
    BY <2>2
  <2> QED
    BY <1>3, <2>1, <2>2, <2>3, <2>4 DEF Followed
<1> QED
  BY <1>1, <1>4, <1>5, <1>6, <1>7, <1>8 DEF V2Inv

\* An addition, a subtraction or a comparison: every plain counter that may still
\* have been the one in storage is told the same.
LEMMA TryKeepsV2 ==
  ASSUME V2Inv, NEW a \in Aggregator, NEW input \in Int, NEW apply \in BOOLEAN,
         try_add_or_check_delta(a, input, apply)
  PROVE  V2Inv'
<1> DEFINE max == max_values[a]
           field == fields[a]
           by == field.by + input
           success == bounded(a, resolved(field, predicted) + input)
<1>1. /\ status = "running" /\ a \in DOMAIN fields
      /\ fields' = [fields EXCEPT ![a].by = IF success /\ apply THEN @ + input ELSE @]
      /\ deltas' = IF field.of = "value" THEN deltas
                   ELSE [deltas EXCEPT ![a] = record(@, by, max, predicted[a])]
      /\ plain_ones' = [plain_ones EXCEPT ![a] =
                          [calls |-> @.calls + 1,
                           from |-> [start \in DOMAIN plain_ones[a].from |->
                             plain_add(a, plain_ones[a].from[start], input, apply, success)]]]
      /\ status' = status
      /\ UNCHANGED <<max_values, base, taken, strings, predicted, snapshots, derived>>
  BY DEF try_add_or_check_delta, callable, answered, sessionVars, v2Storage
<1>2. V2StorageInv /\ V2SessionInv /\ \A other \in DOMAIN fields : Followed(other)
  BY <1>1 DEF V2Inv
<1>3. a \in DOMAIN plain_ones /\ max \in Nat /\ a # "value"
  BY <1>1, <1>2, AggregatorV2Constants DEF V2SessionInv, V2StorageInv
<1>4. /\ field \in [of : {"value", a}, by : Int]
      /\ field.of = "value" => field.by \in 0 .. max
      /\ field.of # "value" =>
           /\ a \in DOMAIN base
           /\ deltas[a].min_achieved <= field.by /\ field.by <= deltas[a].max_achieved
      /\ a \in DOMAIN base => predicted[a] \in 0 .. max /\ IsDeltaHistory(deltas[a], predicted[a])
      /\ DOMAIN plain_ones[a].from = 0 .. max
      /\ \A start \in 0 .. max :
           /\ DOMAIN plain_ones[a].from[start] = {"value", "agrees", "seen"}
           /\ DOMAIN plain_ones[a].from[start].seen \subseteq DOMAIN snapshots
           /\ Possible(a, start) => Agrees(a, start)
  BY <1>1, <1>2 DEF Followed
<1>5. V2StorageInv'
  BY <1>1, <1>2 DEF V2StorageInv, StringsMatchSnapshots
<1>6. DOMAIN fields' = DOMAIN fields /\ DOMAIN plain_ones' = DOMAIN plain_ones
                                    /\ DOMAIN deltas' = DOMAIN deltas
  BY <1>1
<1>7. V2SessionInv'
  BY <1>1, <1>2, <1>6 DEF V2SessionInv
<1>8. ASSUME NEW other \in DOMAIN fields, other # a
      PROVE  Followed(other)'
  <2>1. /\ fields'[other] = fields[other] /\ plain_ones'[other] = plain_ones[other]
        /\ other \in DOMAIN base => deltas'[other] = deltas[other]
        /\ max_values[other] \in Nat
    BY <1>1, <1>2, <1>8 DEF V2SessionInv, V2StorageInv
  <2> QED
    BY <1>1, <1>2, <2>1, FollowedStays
<1>9. Followed(a)'
  <2> DEFINE after == fields'[a]
             from == plain_ones[a].from
  <2>1. /\ after.of = field.of /\ after.by = IF success /\ apply THEN by ELSE field.by
        /\ after \in [of : {"value", a}, by : Int]
    BY <1>1, <1>4
  <2>2. plain_ones'[a].from =
          [start \in 0 .. max |-> plain_add(a, from[start], input, apply, success)]
    BY <1>1, <1>3, <1>4
  <2>3. ASSUME NEW start \in 0 .. max
        PROVE  /\ DOMAIN plain_ones'[a].from[start] = {"value", "agrees", "seen"}
               /\ plain_ones'[a].from[start].seen = from[start].seen
               /\ plain_ones'[a].from[start].value =
                    IF apply /\ from[start].value + input \in 0 .. max
                    THEN from[start].value + input ELSE from[start].value
               /\ plain_ones'[a].from[start].agrees =
                    (from[start].agrees /\ (success <=> from[start].value + input \in 0 .. max))
    <3> DEFINE counter == from[start]
               total == IF apply /\ counter.value + input \in 0 .. max
                        THEN counter.value + input ELSE counter.value
               agrees == counter.agrees /\ (success <=> counter.value + input \in 0 .. max)
    <3>1. DOMAIN counter = {"value", "agrees", "seen"}
      BY <1>4
    <3>2. plain_ones'[a].from[start] = [counter EXCEPT !.value = total, !.agrees = agrees]
      BY <2>2 DEF plain_add, bounded
    <3> HIDE DEF counter, total, agrees
    <3>3. /\ DOMAIN plain_ones'[a].from[start] = {"value", "agrees", "seen"}
          /\ plain_ones'[a].from[start].seen = counter.seen
          /\ plain_ones'[a].from[start].value = total
          /\ plain_ones'[a].from[start].agrees = agrees
      BY <3>1, <3>2
    <3> QED
      BY <3>3 DEF counter, total, agrees
  <2>4. success <=> (IF field.of = "value" THEN field.by ELSE predicted[a] + field.by) + input
                      \in 0 .. max
    BY <1>4 DEF bounded, resolved
  <2> HIDE DEF success, from, after
  <2>5. CASE field.of = "value"
    <3>1. deltas' = deltas /\ after.of = "value"
      BY <1>1, <2>1, <2>5
    <3>2. success <=> by \in 0 .. max
      BY <2>4, <2>5
    <3>3. after.by \in 0 .. max
      BY <1>4, <2>1, <2>5, <3>2
    <3>4. ASSUME NEW start \in 0 .. max, Possible(a, start)'
          PROVE  Agrees(a, start)'
      <4>1. Possible(a, start)
        BY <1>1, <2>5, <3>1, <3>4 DEF Possible, after
      <4>2. /\ from[start].agrees /\ field.by = from[start].value
            /\ \A s \in DOMAIN from[start].seen :
                 resolved(snapshots[s], [predicted EXCEPT ![a] = start]) = from[start].seen[s]
        BY <1>4, <2>5, <4>1 DEF Agrees, resolved, from
      <4>3. /\ plain_ones'[a].from[start].agrees
            /\ plain_ones'[a].from[start].value = after.by
        <5>1. success <=> from[start].value + input \in 0 .. max
          BY <3>2, <4>2
        <5>2. plain_ones'[a].from[start].agrees
          BY <2>3, <4>2, <5>1
        <5>3. plain_ones'[a].from[start].value = IF success /\ apply THEN by ELSE field.by
          BY <2>3, <4>2, <5>1
        <5> QED
          BY <2>1, <5>2, <5>3
      <4> QED
        BY <1>1, <2>3, <3>1, <4>2, <4>3 DEF Agrees, resolved, after
    <3> QED
      BY <1>1, <1>4, <2>1, <2>2, <2>3, <3>1, <3>3, <3>4 DEF Followed, after, from
  <2>6. CASE field.of # "value"
    <3> DEFINE past == deltas[a]
               now == record(past, by, max, predicted[a])
    <3>1. /\ a \in DOMAIN base /\ a \in DOMAIN predicted /\ predicted[a] \in 0 .. max
          /\ IsDeltaHistory(past, predicted[a]) /\ field.of = a /\ by \in Int /\ field.by \in Int
          /\ past.min_achieved <= field.by /\ field.by <= past.max_achieved
      BY <1>2, <1>4, <2>6 DEF V2SessionInv
    <3>2. deltas'[a] = now /\ after.of = a
      BY <1>1, <1>2, <2>1, <2>6, <3>1 DEF V2SessionInv
    <3>3. success <=> predicted[a] + by \in 0 .. max
      BY <2>4, <2>6, <3>1
    <3>4. /\ IsDeltaHistory(now, predicted[a])
          /\ now.min_achieved <= past.min_achieved /\ past.max_achieved <= now.max_achieved
          /\ predicted[a] + by \in 0 .. max => now.min_achieved <= by /\ by <= now.max_achieved
          /\ \A start \in 0 .. max :
               allows(now, max, start) =>
                 /\ allows(past, max, start)
                 /\ start + by \in 0 .. max <=> predicted[a] + by \in 0 .. max
      BY <1>3, <3>1, DecisionsStand
    <3>5. past.min_achieved \in Int /\ past.max_achieved \in Int
          /\ now.min_achieved \in Int /\ now.max_achieved \in Int
      BY <3>1, <3>4 DEF IsDeltaHistory
    <3> HIDE DEF now
    <3>6. now.min_achieved <= after.by /\ after.by <= now.max_achieved
      BY <2>1, <3>1, <3>3, <3>4, <3>5
    <3>7. ASSUME NEW start \in 0 .. max, Possible(a, start)'
          PROVE  Agrees(a, start)'
      <4>1. allows(now, max, start)
        BY <1>1, <1>3, <3>2, <3>7 DEF Possible, after
      <4>2. Possible(a, start) /\ (start + by \in 0 .. max <=> predicted[a] + by \in 0 .. max)
        BY <2>6, <3>4, <4>1 DEF Possible
      <4>3. /\ from[start].agrees /\ start + field.by = from[start].value
            /\ \A s \in DOMAIN from[start].seen :
                 resolved(snapshots[s], [predicted EXCEPT ![a] = start]) = from[start].seen[s]
        BY <1>4, <2>6, <3>1, <4>2 DEF Agrees, resolved, from
      <4>4. from[start].value + input = start + by
        BY <1>4, <3>1, <4>3
      <4>5. /\ plain_ones'[a].from[start].agrees
            /\ plain_ones'[a].from[start].value = start + after.by
        BY <2>1, <2>3, <3>3, <4>2, <4>3, <4>4
      <4>6. resolved(after, [predicted EXCEPT ![a] = start]) = start + after.by
        BY <1>3, <3>1, <3>2 DEF resolved
      <4> QED
        BY <1>1, <2>3, <4>3, <4>5, <4>6 DEF Agrees, after
    <3> QED
      BY <1>1, <1>3, <1>4, <2>1, <2>2, <2>3, <3>1, <3>2, <3>4, <3>6, <3>7 DEF Followed, after, from
  <2> QED
    BY <2>5, <2>6
<1> QED
  BY <1>1, <1>5, <1>6, <1>7, <1>8, <1>9 DEF V2Inv

\* The natives that read what a field stands for; a read ties the session to the
\* value in storage that it is told.
LEMMA ReadKeepsV2 ==
  ASSUME V2Inv, NEW a \in Aggregator, native_read_aggregator(a)
  PROVE  V2Inv'
<1> DEFINE max == max_values[a]
           got == resolved(fields[a], predicted)
           from == plain_ones[a].from
<1>1. /\ status = "running" /\ a \in DOMAIN fields /\ status' # "idle"
      /\ read_field(fields[a])
      /\ plain_ones' = [plain_ones EXCEPT ![a] =
                          [calls |-> @.calls + 1,
                           from |-> [start \in DOMAIN from |->
                             [from[start] EXCEPT !.agrees = @ /\ got = from[start].value]]]]
      /\ UNCHANGED <<max_values, base, taken, strings, predicted, fields, snapshots, derived>>
  BY DEF native_read_aggregator, callable, answered, sessionVars, v2Storage, fail
<1>2. V2StorageInv /\ V2SessionInv /\ \A other \in DOMAIN fields : Followed(other)
  BY <1>1 DEF V2Inv
<1>3. a \in DOMAIN plain_ones /\ max \in Nat /\ a # "value"
  BY <1>1, <1>2, AggregatorV2Constants DEF V2SessionInv, V2StorageInv
<1>4. fields[a].of \in {"value", a} /\ (fields[a].of # "value" => a \in DOMAIN base)
  BY <1>1, <1>2 DEF Followed
<1>5. /\ DOMAIN deltas' = DOMAIN deltas
      /\ \A other \in DOMAIN base : other # a => deltas'[other] = deltas[other]
      /\ deltas'[a] = IF fields[a].of = "value" THEN deltas[a]
                      ELSE [deltas[a] EXCEPT !.read = {predicted[a]}]
  BY <1>1, <1>2, <1>4 DEF read_field, V2SessionInv
<1>6. V2StorageInv'
  BY <1>1, <1>2 DEF V2StorageInv, StringsMatchSnapshots
<1>7. DOMAIN plain_ones' = DOMAIN plain_ones
  BY <1>1
<1>8. V2SessionInv'
  BY <1>1, <1>2, <1>5, <1>7 DEF V2SessionInv
<1>9. ASSUME NEW other \in DOMAIN fields, other # a
      PROVE  Followed(other)'
  <2>1. plain_ones'[other] = plain_ones[other] /\ max_values[other] \in Nat
    BY <1>1, <1>2, <1>9 DEF V2SessionInv, V2StorageInv
  <2> QED
    BY <1>1, <1>2, <1>5, <1>9, <2>1, FollowedStays
<1>10. Followed(a)'
  <2> DEFINE h == deltas[a]
  <2>1. /\ fields[a] \in [of : {"value", a}, by : Int]
        /\ fields[a].of = "value" => fields[a].by \in 0 .. max
        /\ fields[a].of # "value" =>
             /\ a \in DOMAIN base
             /\ h.min_achieved <= fields[a].by /\ fields[a].by <= h.max_achieved
        /\ a \in DOMAIN base => predicted[a] \in 0 .. max /\ IsDeltaHistory(h, predicted[a])
        /\ DOMAIN from = 0 .. max
        /\ \A start \in 0 .. max :
             /\ DOMAIN from[start] = {"value", "agrees", "seen"}
             /\ DOMAIN from[start].seen \subseteq DOMAIN snapshots
             /\ Possible(a, start) => Agrees(a, start)
    BY <1>1, <1>2 DEF Followed
  <2>2. plain_ones'[a].from =
          [start \in 0 .. max |-> [from[start] EXCEPT !.agrees = @ /\ got = from[start].value]]
    BY <1>1, <1>3, <2>1
  <2>3. ASSUME NEW start \in 0 .. max
        PROVE  /\ DOMAIN plain_ones'[a].from[start] = {"value", "agrees", "seen"}
               /\ plain_ones'[a].from[start].seen = from[start].seen
               /\ plain_ones'[a].from[start].value = from[start].value
               /\ plain_ones'[a].from[start].agrees =
                    (from[start].agrees /\ got = from[start].value)
    <3> DEFINE counter == from[start]
               agrees == counter.agrees /\ got = counter.value
    <3>1. DOMAIN counter = {"value", "agrees", "seen"}
      BY <2>1
    <3>2. plain_ones'[a].from[start] = [counter EXCEPT !.agrees = agrees]
      BY <2>2
    <3> HIDE DEF counter, agrees
    <3>3. /\ DOMAIN plain_ones'[a].from[start] = {"value", "agrees", "seen"}
          /\ plain_ones'[a].from[start].seen = counter.seen
          /\ plain_ones'[a].from[start].value = counter.value
          /\ plain_ones'[a].from[start].agrees = agrees
      BY <3>1, <3>2
    <3> QED
      BY <3>3 DEF counter, agrees
  <2>4. ASSUME a \in DOMAIN base
        PROVE  /\ IsDeltaHistory(deltas'[a], predicted[a])
               /\ deltas'[a].min_achieved = h.min_achieved
               /\ deltas'[a].max_achieved = h.max_achieved
    BY <1>5, <2>1, <2>4 DEF IsDeltaHistory
  <2>5. ASSUME NEW start \in 0 .. max, Possible(a, start)'
        PROVE  Possible(a, start) /\ got = resolved(fields[a], [predicted EXCEPT ![a] = start])
    <3>1. CASE fields[a].of = "value"
      BY <1>1, <2>5, <3>1 DEF Possible, resolved
    <3>2. CASE fields[a].of # "value"
      <4>1. /\ a \in DOMAIN base /\ a \in DOMAIN predicted /\ fields[a].of = a
            /\ IsDeltaHistory(h, predicted[a])
            /\ deltas'[a] = [h EXCEPT !.read = {predicted[a]}]
        BY <1>2, <1>5, <2>1, <3>2 DEF V2SessionInv
      <4>2. allows(deltas'[a], max, start)
        BY <1>1, <2>5, <3>2 DEF Possible
      <4>3. start = predicted[a] /\ allows(h, max, start)
        BY <4>1, <4>2 DEF allows, IsDeltaHistory
      <4> QED
        BY <3>2, <4>1, <4>3 DEF Possible, resolved
    <3> QED
      BY <3>1, <3>2
  <2> HIDE DEF got
  <2>6. ASSUME NEW start \in 0 .. max, Possible(a, start)'
        PROVE  Agrees(a, start)'
    <3>1. Possible(a, start) /\ got = resolved(fields[a], [predicted EXCEPT ![a] = start])
      BY <2>5, <2>6
    <3>2. Agrees(a, start)
      BY <2>1, <3>1
    <3>3. plain_ones'[a].from[start].agrees
      BY <2>3, <3>1, <3>2 DEF Agrees
    <3> QED
      BY <1>1, <2>3, <3>2, <3>3 DEF Agrees
  <2>7. DOMAIN plain_ones'[a].from = 0 .. max
    BY <2>2
  <2> QED
    BY <1>1, <2>1, <2>3, <2>4, <2>6, <2>7 DEF Followed
<1> QED
  BY <1>1, <1>6, <1>8, <1>9, <1>10 DEF V2Inv

\* The snapshot takes what the field stands for, whatever that is.
LEMMA SnapshotKeepsV2 ==
  ASSUME V2Inv, NEW a \in Aggregator, NEW s \in Snapshot, native_snapshot(a, s)
  PROVE  V2Inv'
<1> DEFINE max == max_values[a]
           from == plain_ones[a].from
<1>1. /\ status = "running" /\ status' = status /\ a \in DOMAIN fields
      /\ s \notin DOMAIN snapshots
      /\ snapshots' = add(snapshots, s, fields[a])
      /\ plain_ones' = [plain_ones EXCEPT ![a] =
                          [calls |-> @.calls + 1,
                           from |-> [start \in DOMAIN from |->
                             [from[start] EXCEPT !.seen = add(@, s, from[start].value)]]]]
      /\ UNCHANGED <<max_values, base, taken, strings, predicted, fields, deltas, derived>>
  BY DEF native_snapshot, callable, answered, sessionVars, v2Storage
<1>2. V2StorageInv /\ V2SessionInv /\ \A other \in DOMAIN fields : Followed(other)
  BY <1>1 DEF V2Inv
<1>3. a \in DOMAIN plain_ones /\ max \in Nat /\ a # "value"
  BY <1>1, <1>2, AggregatorV2Constants DEF V2SessionInv, V2StorageInv
<1>4. /\ fields[a] \in [of : {"value", a}, by : Int]
      /\ fields[a].of = "value" => fields[a].by \in 0 .. max
      /\ fields[a].of # "value" =>
           /\ a \in DOMAIN base
           /\ deltas[a].min_achieved <= fields[a].by /\ fields[a].by <= deltas[a].max_achieved
      /\ a \in DOMAIN base => predicted[a] \in 0 .. max /\ IsDeltaHistory(deltas[a], predicted[a])
      /\ DOMAIN from = 0 .. max
      /\ \A start \in 0 .. max :
           /\ DOMAIN from[start] = {"value", "agrees", "seen"}
           /\ DOMAIN from[start].seen \subseteq DOMAIN snapshots
           /\ Possible(a, start) => Agrees(a, start)
  BY <1>1, <1>2 DEF Followed
<1>5. /\ DOMAIN snapshots' = DOMAIN snapshots \cup {s} /\ snapshots'[s] = fields[a]
      /\ \A other \in DOMAIN snapshots : snapshots'[other] = snapshots[other]
  BY <1>1 DEF add
<1>6. V2StorageInv'
  BY <1>1, <1>2 DEF V2StorageInv, StringsMatchSnapshots
<1>7. DOMAIN plain_ones' = DOMAIN plain_ones
  BY <1>1
<1>8. V2SessionInv'
  BY <1>1, <1>2, <1>4, <1>5, <1>7 DEF V2SessionInv
<1>9. ASSUME NEW other \in DOMAIN fields, other # a
      PROVE  Followed(other)'
  <2>1. plain_ones'[other] = plain_ones[other] /\ max_values[other] \in Nat
    BY <1>1, <1>2, <1>9 DEF V2SessionInv, V2StorageInv
  <2> QED
    BY <1>1, <1>2, <1>5, <1>9, <2>1, FollowedStays
<1>10. Followed(a)'
  <2>1. plain_ones'[a].from =
          [start \in 0 .. max |-> [from[start] EXCEPT !.seen = add(@, s, from[start].value)]]
    BY <1>1, <1>3, <1>4
  <2>2. ASSUME NEW start \in 0 .. max
        PROVE  LET counter == plain_ones'[a].from[start]
               IN /\ DOMAIN counter = {"value", "agrees", "seen"}
                  /\ counter.value = from[start].value /\ counter.agrees = from[start].agrees
                  /\ DOMAIN counter.seen = DOMAIN from[start].seen \cup {s}
                  /\ counter.seen[s] = from[start].value
                  /\ \A other \in DOMAIN from[start].seen :
                       other # s => counter.seen[other] = from[start].seen[other]
    <3> DEFINE old == from[start]
               more == add(old.seen, s, old.value)
               counter == [old EXCEPT !.seen = more]
    <3>1. DOMAIN old = {"value", "agrees", "seen"}
      BY <1>4
    <3>2. plain_ones'[a].from[start] = counter
      BY <2>1
    <3>3. /\ DOMAIN more = DOMAIN old.seen \cup {s} /\ more[s] = old.value
          /\ \A other \in DOMAIN old.seen : other # s => more[other] = old.seen[other]
      BY DEF add
    <3> HIDE DEF old, more
    <3>4. /\ DOMAIN counter = {"value", "agrees", "seen"} /\ counter.seen = more
          /\ counter.value = old.value /\ counter.agrees = old.agrees
      BY <3>1
    <3> HIDE DEF counter
    <3> QED
      BY <3>2, <3>3, <3>4 DEF old
  <2>3. ASSUME NEW start \in 0 .. max, Possible(a, start)'
        PROVE  Agrees(a, start)'
    <3>1. Possible(a, start)
      BY <1>1, <2>3 DEF Possible
    <3>2. Agrees(a, start) /\ DOMAIN from[start].seen \subseteq DOMAIN snapshots
      BY <1>4, <3>1
    <3>3. ASSUME NEW other \in DOMAIN plain_ones'[a].from[start].seen
          PROVE  resolved(snapshots'[other], [predicted EXCEPT ![a] = start])
                   = plain_ones'[a].from[start].seen[other]
      <4>1. CASE other = s
        BY <1>5, <2>2, <3>2, <4>1 DEF Agrees
      <4>2. CASE other # s
        <5>1. other \in DOMAIN from[start].seen /\ other \in DOMAIN snapshots
          BY <2>2, <3>2, <3>3, <4>2
        <5>2. plain_ones'[a].from[start].seen[other] = from[start].seen[other]
          BY <2>2, <4>2, <5>1
        <5>3. snapshots'[other] = snapshots[other]
          BY <1>5, <5>1
        <5>4. resolved(snapshots[other], [predicted EXCEPT ![a] = start]) = from[start].seen[other]
          BY <3>2, <5>1 DEF Agrees
        <5> QED
          BY <5>2, <5>3, <5>4
      <4> QED
        BY <4>1, <4>2
    <3> QED
      BY <1>1, <2>2, <3>2, <3>3 DEF Agrees
  <2>4. \A start \in 0 .. max :
          /\ DOMAIN plain_ones'[a].from[start] = {"value", "agrees", "seen"}
          /\ DOMAIN plain_ones'[a].from[start].seen \subseteq DOMAIN snapshots'
    BY <1>4, <1>5, <2>2
  <2>5. DOMAIN plain_ones'[a].from = 0 .. max
    BY <2>1
  <2> QED
    BY <1>1, <1>4, <2>3, <2>4, <2>5 DEF Followed
<1> QED
  BY <1>1, <1>6, <1>8, <1>9, <1>10 DEF V2Inv

\* The natives that concern snapshots only
LEMMA OwnSnapshotKeepsV2 ==
  ASSUME V2Inv, NEW s \in Snapshot, NEW input \in Inputs, native_create_snapshot(s, input)
  PROVE  V2Inv'
<1>1. /\ status = "running" /\ status' = status /\ s \notin DOMAIN snapshots
      /\ snapshots' = add(snapshots, s, plain(input))
      /\ UNCHANGED <<max_values, base, taken, strings, predicted, fields, deltas, derived,
                     plain_ones>>
  BY DEF native_create_snapshot, sessionVars, v2Storage
<1>2. V2StorageInv /\ V2SessionInv /\ \A a \in DOMAIN fields : Followed(a)
  BY <1>1 DEF V2Inv
<1>3. /\ DOMAIN snapshots' = DOMAIN snapshots \cup {s} /\ snapshots'[s].of = "value"
      /\ \A other \in DOMAIN snapshots : snapshots'[other] = snapshots[other]
  BY <1>1 DEF add, plain
<1>4. V2StorageInv'
  BY <1>1, <1>2 DEF V2StorageInv, StringsMatchSnapshots
<1>5. V2SessionInv'
  BY <1>1, <1>2, <1>3 DEF V2SessionInv
<1>6. ASSUME NEW a \in DOMAIN fields
      PROVE  Followed(a)'
  <2>1. max_values[a] \in Nat
    BY <1>2 DEF V2SessionInv, V2StorageInv
  <2> QED
    BY <1>1, <1>2, <1>3, <2>1, FollowedStays
<1> QED
  BY <1>1, <1>4, <1>5, <1>6 DEF V2Inv

LEMMA ReadSnapshotKeepsV2 ==
  ASSUME V2Inv, NEW s \in Snapshot, native_read_snapshot(s)
  PROVE  V2Inv'
<1>1. /\ status = "running" /\ status' = status /\ s \in DOMAIN snapshots
      /\ read_field(snapshots[s])
      /\ UNCHANGED <<max_values, base, taken, strings, predicted, fields, snapshots, derived,
                     plain_ones>>
  BY DEF native_read_snapshot, sessionVars, v2Storage
<1>2. V2StorageInv /\ V2SessionInv /\ \A a \in DOMAIN fields : Followed(a)
  BY <1>1 DEF V2Inv
<1>3. /\ DOMAIN deltas' = DOMAIN deltas
      /\ \A a \in DOMAIN base :
           deltas'[a] \in {deltas[a], [deltas[a] EXCEPT !.read = {predicted[a]}]}
  <2>1. snapshots[s].of # "value" => snapshots[s].of \in DOMAIN deltas
    BY <1>1, <1>2 DEF V2SessionInv
  <2>2. DOMAIN deltas = DOMAIN base
    BY <1>2 DEF V2SessionInv
  <2> QED
    BY <1>1, <2>1, <2>2 DEF read_field
<1>4. V2StorageInv'
  BY <1>1, <1>2 DEF V2StorageInv, StringsMatchSnapshots
<1>5. V2SessionInv'
  BY <1>1, <1>2, <1>3 DEF V2SessionInv
<1>6. ASSUME NEW a \in DOMAIN fields
      PROVE  Followed(a)'
  <2>1. max_values[a] \in Nat
    BY <1>2 DEF V2SessionInv, V2StorageInv
  <2> QED
    BY <1>1, <1>2, <1>3, <2>1, FollowedStays
<1> QED
  BY <1>1, <1>4, <1>5, <1>6 DEF V2Inv

LEMMA DeriveKeepsV2 ==
  ASSUME V2Inv, NEW s \in Snapshot, NEW len, native_derive_string_concat(s, len)
  PROVE  V2Inv'
<1>1. /\ status = "running" /\ status' # "idle" /\ s \in DOMAIN snapshots
      /\ \/ derived' = derived
         \/ derived' = derived \cup {[of |-> s, len |-> len, field |-> snapshots[s]]}
      /\ UNCHANGED <<max_values, base, taken, strings, predicted, fields, snapshots, deltas,
                     plain_ones>>
  BY DEF native_derive_string_concat, sessionVars, v2Storage, fail
<1>2. V2StorageInv /\ V2SessionInv /\ \A a \in DOMAIN fields : Followed(a)
  BY <1>1 DEF V2Inv
<1>3. \A d \in derived' : d.of \in DOMAIN snapshots /\ d.field = snapshots[d.of]
  BY <1>1, <1>2 DEF V2SessionInv
<1>4. V2StorageInv'
  BY <1>1, <1>2 DEF V2StorageInv, StringsMatchSnapshots
<1>5. V2SessionInv'
  BY <1>1, <1>2, <1>3 DEF V2SessionInv
<1>6. ASSUME NEW a \in DOMAIN fields
      PROVE  Followed(a)'
  <2>1. max_values[a] \in Nat
    BY <1>2 DEF V2SessionInv, V2StorageInv
  <2> QED
    BY <1>1, <1>2, <2>1, FollowedStays
<1> QED
  BY <1>1, <1>4, <1>5, <1>6 DEF V2Inv

LEMMA FailKeepsV2 ==
  ASSUME V2Inv, native_not_supported
  PROVE  V2Inv'
<1>1. /\ status = "running" /\ status' # "idle"
      /\ UNCHANGED <<max_values, base, taken, strings, predicted, fields, snapshots, deltas,
                     derived, plain_ones>>
  BY DEF native_not_supported, v2Storage, v2Session, fail
<1>2. V2StorageInv /\ V2SessionInv /\ \A a \in DOMAIN fields : Followed(a)
  BY <1>1 DEF V2Inv
<1>3. V2StorageInv' /\ V2SessionInv'
  BY <1>1, <1>2 DEF V2StorageInv, StringsMatchSnapshots, V2SessionInv
<1>4. \A a \in DOMAIN fields : Followed(a)'
  BY <1>1, <1>2 DEF Followed, Possible, Agrees
<1> QED
  BY <1>1, <1>3, <1>4 DEF V2Inv

\* The session commits the values that its ids stand for: the extremes of the
\* deltas keep an aggregator within its maximum, and what a string was made from
\* is what its snapshot gets.
LEMMA CommitKeepsV2 ==
  ASSUME V2Inv, commit_v2
  PROVE  V2Inv'
<1>1. /\ status = "running" /\ status' = "idle" /\ derived' = {}
      /\ \A a \in DOMAIN base : allows(deltas[a], max_values[a], base[a])
      /\ base' = [a \in DOMAIN fields |-> resolved(fields[a], base)]
      /\ taken' = [s \in DOMAIN snapshots |-> resolved(snapshots[s], base)]
      /\ strings' = strings \cup
           {[of |-> d.of, len |-> d.len, value |-> resolved(d.field, base)] : d \in derived}
      /\ max_values' = max_values
  BY DEF commit_v2, end_v2, close_session
<1>2. V2StorageInv /\ V2SessionInv /\ \A a \in DOMAIN fields : Followed(a)
  BY <1>1 DEF V2Inv
<1>3. ASSUME NEW a \in DOMAIN fields
      PROVE  base'[a] \in 0 .. max_values[a]
  <2>1. /\ fields[a] \in [of : {"value", a}, by : Int]
        /\ fields[a].of = "value" => fields[a].by \in 0 .. max_values[a]
        /\ fields[a].of # "value" =>
             /\ a \in DOMAIN base
             /\ deltas[a].min_achieved <= fields[a].by /\ fields[a].by <= deltas[a].max_achieved
        /\ a \in DOMAIN base => IsDeltaHistory(deltas[a], predicted[a])
    BY <1>2 DEF Followed
  <2>2. base'[a] = resolved(fields[a], base)
    BY <1>1
  <2>3. max_values[a] \in Nat /\ (a \in DOMAIN base => base[a] \in 0 .. max_values[a])
    BY <1>2 DEF V2StorageInv, V2SessionInv
  <2>4. CASE fields[a].of = "value"
    BY <2>1, <2>2, <2>4 DEF resolved
  <2>5. CASE fields[a].of # "value"
    <3> DEFINE by == fields[a].by
               low == deltas[a].min_achieved
               high == deltas[a].max_achieved
    <3>1. a \in DOMAIN base /\ by \in Int /\ low \in Int /\ high \in Int /\ low <= by /\ by <= high
      BY <2>1, <2>5 DEF IsDeltaHistory
    <3>2. base[a] + high <= max_values[a] /\ base[a] + low >= 0
      BY <1>1, <3>1 DEF allows
    <3>3. base'[a] = base[a] + by
      BY <2>1, <2>2, <2>5 DEF resolved
    <3> HIDE DEF by, low, high
    <3> QED
      BY <2>3, <3>1, <3>2, <3>3
  <2> QED
    BY <2>4, <2>5
<1>4. StringsMatchSnapshots'
  <2> SUFFICES ASSUME NEW d \in strings'
               PROVE  d.of \in DOMAIN taken' /\ d.value = taken'[d.of]
    BY DEF StringsMatchSnapshots
  <2>1. CASE d \in strings
    <3>1. d.of \in DOMAIN taken /\ d.value = taken[d.of]
      BY <1>2, <2>1 DEF V2StorageInv, StringsMatchSnapshots
    <3>2. d.of \in DOMAIN snapshots /\ snapshots[d.of] = plain(taken[d.of])
      BY <1>2, <3>1 DEF V2SessionInv
    <3>3. resolved(snapshots[d.of], base) = taken[d.of]
      BY <3>2 DEF resolved, plain
    <3> QED
      BY <1>1, <3>1, <3>2, <3>3
  <2>2. ASSUME NEW so_far \in derived,
               d = [of |-> so_far.of, len |-> so_far.len, value |-> resolved(so_far.field, base)]
        PROVE  d.of \in DOMAIN taken' /\ d.value = taken'[d.of]
    <3>1. so_far.of \in DOMAIN snapshots /\ so_far.field = snapshots[so_far.of]
      BY <1>2 DEF V2SessionInv
    <3> QED
      BY <1>1, <2>2, <3>1
  <2> QED
    BY <1>1, <2>1, <2>2
<1>5. V2StorageInv'
  BY <1>1, <1>2, <1>3, <1>4 DEF V2StorageInv, V2SessionInv
<1> QED
  BY <1>1, <1>5 DEF V2Inv

LEMMA DiscardKeepsV2 ==
  ASSUME V2Inv, discard_v2
  PROVE  V2Inv'
<1>1. /\ status # "idle" /\ status' = "idle" /\ derived' = {}
      /\ max_values' = [a \in DOMAIN base |-> max_values[a]]
      /\ UNCHANGED <<base, taken, strings>>
  BY DEF discard_v2, end_v2, close_session
<1>2. V2StorageInv
  BY DEF V2Inv
<1>3. V2StorageInv'
  BY <1>1, <1>2 DEF V2StorageInv, StringsMatchSnapshots
<1> QED
  BY <1>1, <1>3 DEF V2Inv

LEMMA ElsewhereKeepsV2 ==
  ASSUME V2Inv, NEW a \in Aggregator, NEW amount, changed_elsewhere(a, amount)
  PROVE  V2Inv'
<1>1. /\ a \in DOMAIN base /\ amount \in 0 .. max_values[a]
      /\ base' = [base EXCEPT ![a] = amount]
      /\ UNCHANGED <<status, max_values, taken, strings, predicted, fields, snapshots, deltas,
                     derived, plain_ones>>
  BY DEF changed_elsewhere, sessionVars, v2Session
<1>2. DOMAIN base' = DOMAIN base
  BY <1>1
<1>3. V2StorageInv'
  BY <1>1, <1>2 DEF V2Inv, V2StorageInv, StringsMatchSnapshots
<1>4. status # "idle" => V2SessionInv'
  BY <1>1, <1>2 DEF V2Inv, V2SessionInv
<1>5. ASSUME status # "idle", NEW other \in DOMAIN fields
      PROVE  Followed(other)'
  <2>1. Followed(other) /\ max_values[other] \in Nat
    BY <1>5 DEF V2Inv, V2SessionInv, V2StorageInv
  <2> QED
    BY <1>1, <1>2, <2>1, FollowedStays
<1> QED
  BY <1>1, <1>3, <1>4, <1>5 DEF V2Inv

LEMMA StepKeepsV2 == V2Inv /\ [V2Next]_v2Vars => V2Inv'
<1> SUFFICES ASSUME V2Inv, [V2Next]_v2Vars PROVE V2Inv'
  OBVIOUS
<1>1. ASSUME NEW hash \in TxnHash, NEW enabled \in BOOLEAN, start_v2(hash, enabled)
      PROVE  V2Inv'
  BY <1>1, StartKeepsV2
<1>2. CASE V2Call
  <2>1. ASSUME NEW a \in Aggregator, NEW max \in MaxValues,
               create_aggregator_with_max_value(a, max)
        PROVE  V2Inv'
    BY <2>1, CreateKeepsV2
  <2>2. ASSUME NEW a \in Aggregator, NEW input \in Inputs,
               \/ native_try_add(a, input) \/ native_try_sub(a, input)
               \/ native_is_at_least_impl(a, input)
        PROVE  V2Inv'
    <3>1. input \in Int /\ -input \in Int
      BY AggregatorV2Constants
    <3> QED
      BY <2>2, <3>1, TryKeepsV2 DEF native_try_add, native_try_sub, native_is_at_least_impl
  <2>3. ASSUME NEW a \in Aggregator, native_read_aggregator(a)
        PROVE  V2Inv'
    BY <2>3, ReadKeepsV2
  <2>4. ASSUME NEW a \in Aggregator, NEW s \in Snapshot, native_snapshot(a, s)
        PROVE  V2Inv'
    BY <2>4, SnapshotKeepsV2
  <2>5. ASSUME NEW s \in Snapshot, NEW input \in Inputs, native_create_snapshot(s, input)
        PROVE  V2Inv'
    BY <2>5, OwnSnapshotKeepsV2
  <2>6. ASSUME NEW s \in Snapshot, native_read_snapshot(s)
        PROVE  V2Inv'
    BY <2>6, ReadSnapshotKeepsV2
  <2>7. ASSUME NEW s \in Snapshot, NEW len \in Lengths, native_derive_string_concat(s, len)
        PROVE  V2Inv'
    BY <2>7, DeriveKeepsV2
  <2>8. CASE native_not_supported
    BY <2>8, FailKeepsV2
  <2> QED
    BY <1>2, <2>1, <2>2, <2>3, <2>4, <2>5, <2>6, <2>7, <2>8 DEF V2Call
<1>3. CASE commit_v2
  BY <1>3, CommitKeepsV2
<1>4. CASE discard_v2
  BY <1>4, DiscardKeepsV2
<1>5. ASSUME NEW a \in Aggregator, NEW amount \in 0 .. Max(MaxValues),
             changed_elsewhere(a, amount)
      PROVE  V2Inv'
  BY <1>5, ElsewhereKeepsV2
<1>6. CASE UNCHANGED v2Vars
  BY <1>6 DEF v2Vars, v2Storage, v2Session, sessionVars, V2Inv, V2StorageInv, V2SessionInv,
              StringsMatchSnapshots, Followed, Possible, Agrees
<1> QED
  BY <1>1, <1>2, <1>3, <1>4, <1>5, <1>6 DEF V2Next

LEMMA V2Invariant == V2Spec => []V2Inv
<1>1. V2Init => V2Inv
  BY V2Initially
<1>2. V2Inv /\ [V2Next]_v2Vars => V2Inv'
  BY StepKeepsV2
<1> QED
  BY <1>1, <1>2, PTL DEF V2Spec

(* Whatever value storage has at the commit: if the history of the deltas    *)
(* allows it, a plain counter that starts there gives the same answers to    *)
(* every call of the session, and every snapshot its value at the moment it  *)
(* was taken; derived strings have the values of their snapshots.            *)
THEOREM DelayedDecidesLikePlain == V2Spec => []DelayedLikePlain
<1>1. V2Inv => DelayedLikePlain
  <2> SUFFICES ASSUME V2Inv PROVE DelayedLikePlain
    OBVIOUS
  <2>1. StringsMatchSnapshots
    BY DEF V2Inv, V2StorageInv
  <2>2. ASSUME status # "idle", NEW a \in DOMAIN fields
        PROVE  IF fields[a].of = "value"
               THEN Agrees(a, IF a \in DOMAIN base THEN predicted[a] ELSE 0)
               ELSE \A start \in 0 .. max_values[a] :
                      allows(deltas[a], max_values[a], start) => Agrees(a, start)
    <3>1. Followed(a) /\ max_values[a] \in Nat
      BY <2>2 DEF V2Inv, V2StorageInv, V2SessionInv
    <3>2. \A start \in 0 .. max_values[a] : Possible(a, start) => Agrees(a, start)
      BY <3>1 DEF Followed
    <3>3. 0 \in 0 .. max_values[a] /\ (a \in DOMAIN base => predicted[a] \in 0 .. max_values[a])
      BY <3>1 DEF Followed
    <3> QED
      BY <3>2, <3>3 DEF Possible
  <2> QED
    BY <2>1, <2>2 DEF DelayedLikePlain
<1> QED
  BY <1>1, V2Invariant, PTL

-----------------------------------------------------------------------------
(* Points of ristretto255.                                                  *)
MovedPoint == [handle : Nat, plain : Scalar]

\* The point of every RistrettoPoint is at its handle, and at no other's.
PointsInv ==
  /\ points \in Seq(Scalar) /\ Len(points) <= NUM_POINTS_LIMIT
  /\ moved_points \in Seq(MovedPoint)
  /\ \A i \in DOMAIN moved_points :
       /\ moved_points[i].handle < Len(points)
       /\ points[moved_points[i].handle + 1] = moved_points[i].plain
       /\ \A j \in DOMAIN moved_points : i # j => moved_points[i].handle # moved_points[j].handle
  /\ scalars \subseteq Int
  /\ compressed \subseteq Scalar

\* Arithmetic modulo L stays in the scalars.
LEMMA Modulo ==
  /\ \A n \in Int : n % L \in Scalar
  /\ 0 \in Scalar
  /\ \A a \in Int : scalar_of(a) \in Int
  BY RistrettoConstants DEF Scalar, scalar_of

LEMMA Products == ASSUME NEW a \in Int, NEW b \in Int PROVE a * b \in Int
  OBVIOUS

LEMMA GotPoint ==
  ASSUME PointsInv, NEW i \in DOMAIN moved_points
  PROVE  /\ moved_points[i] \in MovedPoint
         /\ moved_points[i].handle \in 0 .. Len(points) - 1
         /\ moved_points[i].handle + 1 \in DOMAIN points
         /\ get_point(i) = moved_points[i].plain
         /\ get_point(i) \in Scalar /\ get_point(i) \in Int
<1>1. moved_points[i] \in MovedPoint /\ Len(points) \in Nat
  BY DEF PointsInv
<1>2. moved_points[i].handle \in Nat /\ moved_points[i].plain \in Scalar
  BY <1>1 DEF MovedPoint
<1> QED
  BY <1>1, <1>2 DEF PointsInv, get_point, Scalar

\* A new point goes behind the others, and its handle is new.
LEMMA AddedPoint ==
  ASSUME PointsInv, NEW point \in Scalar, safe_add_point(point)
  PROVE  PointsInv'
<1>1. UNCHANGED <<scalars, compressed>>
  BY DEF safe_add_point
<1>2. CASE UNCHANGED pointStore
  BY <1>1, <1>2 DEF pointStore, PointsInv
<1>3. CASE /\ Len(points) < NUM_POINTS_LIMIT
           /\ points' = Append(points, point)
           /\ moved_points' = Append(moved_points, [handle |-> Len(points), plain |-> point])
  <2> DEFINE struct == [handle |-> Len(points), plain |-> point]
             n == Len(moved_points) + 1
  <2>1. struct \in MovedPoint /\ struct.handle = Len(points) /\ struct.plain = point
        /\ Len(points) \in Nat /\ Len(moved_points) \in Nat /\ NUM_POINTS_LIMIT \in Nat
    BY RistrettoConstants DEF PointsInv, MovedPoint
  <2> HIDE DEF struct
  <2>2. /\ points' \in Seq(Scalar) /\ Len(points') = Len(points) + 1
        /\ points'[Len(points) + 1] = point
        /\ \A k \in 1 .. Len(points) : points'[k] = points[k]
    BY <1>3 DEF PointsInv
  <2>3. /\ moved_points' \in Seq(MovedPoint) /\ DOMAIN moved_points' = 1 .. n
        /\ moved_points'[n] = struct
        /\ \A k \in DOMAIN moved_points : k # n /\ moved_points'[k] = moved_points[k]
    BY <1>3, <2>1 DEF PointsInv, struct
  <2>4. \A k \in DOMAIN moved_points' : k = n \/ k \in DOMAIN moved_points
    BY <2>1, <2>3 DEF PointsInv
  <2>5. \A k \in DOMAIN moved_points : moved_points[k].handle \in 0 .. Len(points) - 1
    BY GotPoint
  <2> HIDE DEF n
  <2>6. ASSUME NEW i \in DOMAIN moved_points'
        PROVE  /\ moved_points'[i].handle < Len(points')
               /\ points'[moved_points'[i].handle + 1] = moved_points'[i].plain
    <3>1. CASE i = n
      BY <2>1, <2>2, <2>3, <3>1
    <3>2. CASE i \in DOMAIN moved_points
      <4>1. /\ moved_points'[i] = moved_points[i] /\ moved_points[i].handle \in 0 .. Len(points) - 1
            /\ points[moved_points[i].handle + 1] = moved_points[i].plain
        BY <2>3, <2>5, <3>2 DEF PointsInv
      <4>2. moved_points[i].handle + 1 \in 1 .. Len(points)
        BY <2>1, <4>1
      <4> QED
        BY <2>1, <2>2, <4>1, <4>2
    <3> QED
      BY <2>4, <3>1, <3>2
  <2>7. ASSUME NEW i \in DOMAIN moved_points', NEW j \in DOMAIN moved_points', i # j
        PROVE  moved_points'[i].handle # moved_points'[j].handle
    <3>1. \A k \in DOMAIN moved_points : moved_points[k].handle # struct.handle
      BY <2>1, <2>5
    <3>2. CASE i \in DOMAIN moved_points /\ j \in DOMAIN moved_points
      BY <2>3, <2>7, <3>2 DEF PointsInv
    <3> QED
      BY <2>3, <2>4, <2>7, <3>1, <3>2
  <2>8. Len(points') <= NUM_POINTS_LIMIT
    BY <1>3, <2>1, <2>2
  <2> QED
    BY <1>1, <2>2, <2>3, <2>6, <2>7, <2>8 DEF PointsInv
<1> QED
  BY <1>2, <1>3 DEF safe_add_point

\* An assignment changes the point of one RistrettoPoint only.
LEMMA AssignedPoint ==
  ASSUME PointsInv, NEW i \in DOMAIN moved_points, NEW point \in Scalar, assign(i, point, point)
  PROVE  PointsInv'
<1> DEFINE at == moved_points[i].handle + 1
<1>1. /\ points' = [points EXCEPT ![at] = point]
      /\ moved_points' = [moved_points EXCEPT ![i].plain = point]
      /\ UNCHANGED <<scalars, compressed>>
  BY DEF assign
<1>2. at \in DOMAIN points /\ moved_points[i] \in MovedPoint
  BY GotPoint
<1>3. /\ points' \in Seq(Scalar) /\ Len(points') = Len(points) /\ points'[at] = point
      /\ \A k \in DOMAIN points : k # at => points'[k] = points[k]
  BY <1>1, <1>2 DEF PointsInv
<1>4. [moved_points[i] EXCEPT !.plain = point] \in MovedPoint
  BY <1>2 DEF MovedPoint
<1>5. /\ moved_points' \in Seq(MovedPoint) /\ DOMAIN moved_points' = DOMAIN moved_points
      /\ moved_points'[i].plain = point /\ moved_points'[i].handle = moved_points[i].handle
      /\ \A j \in DOMAIN moved_points : j # i => moved_points'[j] = moved_points[j]
  BY <1>1, <1>2, <1>4 DEF PointsInv, MovedPoint
<1>6. \A j \in DOMAIN moved_points : moved_points'[j].handle = moved_points[j].handle
  BY <1>5
<1>7. ASSUME NEW j \in DOMAIN moved_points
      PROVE  points'[moved_points'[j].handle + 1] = moved_points'[j].plain
  <2>1. CASE j = i
    BY <1>3, <1>5, <2>1
  <2>2. CASE j # i
    <3>1. moved_points[j].handle + 1 \in DOMAIN points /\ moved_points[j].handle \in Int
          /\ moved_points[i].handle \in Int
      BY GotPoint
    <3>2. moved_points[j].handle + 1 # at
      BY <2>2, <3>1 DEF PointsInv
    <3> QED
      BY <1>3, <1>5, <2>2, <3>1, <3>2 DEF PointsInv
  <2> QED
    BY <2>1, <2>2
<1> HIDE DEF at
<1> QED
  BY <1>1, <1>3, <1>5, <1>6, <1>7 DEF PointsInv

\* A RistrettoPoint goes, the others are as they were.
LEMMA DroppedPoint ==
  ASSUME PointsInv, NEW i \in DOMAIN moved_points, drop_point(i)
  PROVE  PointsInv'
<1> DEFINE from(k) == IF k < i THEN k ELSE k + 1
           n == Len(moved_points)
<1>1. /\ UNCHANGED <<points, scalars, compressed>>
      /\ moved_points' = SubSeq(moved_points, 1, i - 1) \o SubSeq(moved_points, i + 1, n)
  BY DEF drop_point
<1>2. moved_points \in Seq(MovedPoint) /\ n \in Nat /\ i \in 1 .. n
  BY DEF PointsInv
<1> DEFINE before == SubSeq(moved_points, 1, i - 1)
           behind == SubSeq(moved_points, i + 1, n)
<1>3. /\ before \in Seq(MovedPoint) /\ Len(before) = i - 1
      /\ \A k \in 1 .. i - 1 : before[k] = moved_points[k]
  BY <1>2
<1>4. /\ behind \in Seq(MovedPoint) /\ Len(behind) = n - i
      /\ \A k \in 1 .. n - i : behind[k] = moved_points[i + k]
  BY <1>2
<1>5. moved_points' = before \o behind
  BY <1>1
<1> HIDE DEF before, behind, n
<1>6. /\ before \o behind \in Seq(MovedPoint) /\ Len(before \o behind) = n - 1
      /\ \A k \in 1 .. i - 1 : (before \o behind)[k] = before[k]
      /\ \A k \in i .. n - 1 : (before \o behind)[k] = behind[k - (i - 1)]
  <2>1. Len(before) + Len(behind) = n - 1 /\ i - 1 \in Nat /\ n - i \in Nat
    BY <1>2, <1>3, <1>4
  <2>2. /\ before \o behind \in Seq(MovedPoint)
        /\ Len(before \o behind) = Len(before) + Len(behind)
        /\ \A k \in 1 .. Len(before) + Len(behind) :
             (before \o behind)[k] = IF k <= Len(before) THEN before[k] ELSE behind[k - Len(before)]
    BY <1>3, <1>4, ConcatProperties
  <2>3. \A k \in 1 .. i - 1 : k \in 1 .. n - 1 /\ k <= i - 1
    BY <1>2
  <2>4. \A k \in i .. n - 1 : k \in 1 .. n - 1 /\ ~(k <= i - 1)
    BY <1>2
  <2> QED
    BY <1>3, <2>1, <2>2, <2>3, <2>4
<1>7. \A k \in i .. n - 1 : k - (i - 1) \in 1 .. n - i /\ i + (k - (i - 1)) = k + 1
  BY <1>2
<1>8. /\ moved_points' \in Seq(MovedPoint) /\ DOMAIN moved_points' = 1 .. n - 1
      /\ \A k \in 1 .. i - 1 : moved_points'[k] = moved_points[k]
      /\ \A k \in i .. n - 1 : moved_points'[k] = moved_points[k + 1]
  <2>1. n - 1 \in Nat
    BY <1>2
  <2> QED
    BY <1>3, <1>4, <1>5, <1>6, <1>7, <2>1
<1>9. ASSUME NEW k \in 1 .. n - 1
      PROVE  moved_points'[k] = moved_points[from(k)] /\ from(k) \in 1 .. n
  <2>1. CASE k < i
    BY <1>2, <1>8, <2>1
  <2>2. CASE ~(k < i)
    BY <1>2, <1>8, <2>2
  <2> QED
    BY <2>1, <2>2
<1>10. \A j, k \in 1 .. n - 1 : j # k => from(j) # from(k)
  BY <1>2
<1>11. DOMAIN moved_points = 1 .. n
  BY <1>2 DEF n
<1> HIDE DEF from
<1>12. ASSUME NEW k \in DOMAIN moved_points'
       PROVE  /\ moved_points'[k].handle < Len(points)
              /\ points[moved_points'[k].handle + 1] = moved_points'[k].plain
  BY <1>8, <1>9, <1>11 DEF PointsInv
<1>13. ASSUME NEW j \in DOMAIN moved_points', NEW k \in DOMAIN moved_points', j # k
       PROVE  moved_points'[j].handle # moved_points'[k].handle
  BY <1>8, <1>9, <1>10, <1>11, <1>13 DEF PointsInv
<1> QED
  BY <1>1, <1>8, <1>12, <1>13 DEF PointsInv

LEMMA PointsInitially == RistrettoInit => PointsInv
<1> SUFFICES ASSUME RistrettoInit PROVE PointsInv
  OBVIOUS
<1>1. points = <<>> /\ moved_points = <<>> /\ scalars = {} /\ compressed = {}
  BY DEF RistrettoInit
<1> QED
  BY <1>1, RistrettoConstants DEF PointsInv

\* A session begins and ends without points.
LEMMA NoPoints ==
  ASSUME PointsInv, points' = <<>>, moved_points' = <<>>,
         UNCHANGED <<scalars, compressed>> \/ (scalars' = {} /\ compressed' = {})
  PROVE  PointsInv'
<1>1. scalars' \subseteq Int /\ compressed' \subseteq Scalar
  BY DEF PointsInv
<1> QED
  BY <1>1, RistrettoConstants DEF PointsInv

\* A call on points.
LEMMA PointCallKeepsPoints == ASSUME PointsInv, pointCall PROVE PointsInv'
<1>1. CASE native_point_identity
  BY <1>1, Modulo, AddedPoint DEF native_point_identity
<1>2. ASSUME NEW point \in Scalar, native_new_point(point) PROVE PointsInv'
  BY <1>2, AddedPoint DEF native_new_point
<1>3. ASSUME NEW encoding \in PointBytes, native_point_decompress(encoding) PROVE PointsInv'
  <2>1. CASE encoding < L /\ safe_add_point(encoding)
    <3>1. encoding \in Scalar
      BY <2>1, RistrettoConstants DEF PointBytes, Scalar
    <3> QED
      BY <2>1, <3>1, AddedPoint
  <2>2. CASE UNCHANGED <<sessionVars, ristrettoContext>>
    BY <2>2 DEF ristrettoContext, pointStore, PointsInv
  <2>3. CASE encoding \in compressed /\ encoding = L
    <3>1. L \notin Scalar
      BY RistrettoConstants DEF Scalar
    <3> QED
      BY <2>3, <3>1 DEF PointsInv
  <2> QED
    BY <1>3, <2>1, <2>2, <2>3 DEF native_point_decompress
<1>4. ASSUME NEW encoding \in PointBytes, new_compressed_point_from_bytes(encoding) PROVE PointsInv'
  <2>1. encoding \in Scalar /\ UNCHANGED <<points, moved_points, scalars>>
        /\ compressed' = compressed \cup {encoding}
    BY <1>4, RistrettoConstants
    DEF new_compressed_point_from_bytes, native_point_is_canonical, new_compressed, pointStore,
        PointBytes, Scalar
  <2> QED
    BY <2>1 DEF PointsInv
<1>5. ASSUME NEW a \in scalars, native_basepoint_mul(a) PROVE PointsInv'
  <2>1. scalar_of(a) % L \in Scalar
    BY Modulo DEF PointsInv
  <2> QED
    BY <1>5, <2>1, AddedPoint DEF native_basepoint_mul
<1>6. ASSUME NEW a \in scalars, native_multi_scalar_mul(a) PROVE PointsInv'
  <2>1. PICK total \in [0 .. Len(moved_points) -> Scalar] : safe_add_point(total[Len(moved_points)])
    BY <1>6 DEF native_multi_scalar_mul
  <2>2. Len(moved_points) \in 0 .. Len(moved_points)
    BY DEF PointsInv
  <2>3. total[Len(moved_points)] \in Scalar
    BY <2>1, <2>2
  <2> QED
    BY <2>1, <2>3, AddedPoint
<1>7. ASSUME NEW i \in DOMAIN moved_points, native_point_clone(i) PROVE PointsInv'
  BY <1>7, GotPoint, AddedPoint DEF native_point_clone
<1>8. ASSUME NEW i \in DOMAIN moved_points, native_point_compress(i) PROVE PointsInv'
  <2>1. /\ UNCHANGED <<points, moved_points, scalars>>
        /\ compressed' = compressed \cup {get_point(i)}
    BY <1>8 DEF native_point_compress, new_compressed, pointStore
  <2> QED
    BY <2>1, GotPoint DEF PointsInv
<1>9. ASSUME NEW i \in DOMAIN moved_points, drop_point(i) PROVE PointsInv'
  BY <1>9, DroppedPoint
<1>10. ASSUME NEW i \in DOMAIN moved_points, NEW in_place \in BOOLEAN, native_point_neg(i, in_place)
       PROVE  PointsInv'
  <2> DEFINE negative == (L - get_point(i)) % L
  <2>1. negative \in Scalar /\ get_point(i) = moved_points[i].plain
    <3>1. L - get_point(i) \in Int
      BY GotPoint, RistrettoConstants
    <3> QED
      BY <3>1, GotPoint, Modulo
  <2>2. safe_add_point(negative) \/ assign(i, negative, negative)
    BY <1>10, <2>1 DEF native_point_neg
  <2> HIDE DEF negative
  <2> QED
    BY <2>1, <2>2, AddedPoint, AssignedPoint
<1>11. ASSUME NEW i \in DOMAIN moved_points, NEW in_place \in BOOLEAN, NEW a \in scalars,
              native_point_mul(i, a, in_place)
       PROVE  PointsInv'
  <2> DEFINE multiple == (scalar_of(a) * get_point(i)) % L
  <2>1. multiple \in Scalar /\ get_point(i) = moved_points[i].plain
    <3>1. scalar_of(a) * get_point(i) \in Int
      BY GotPoint, Modulo, Products DEF PointsInv
    <3> QED
      BY <3>1, GotPoint, Modulo
  <2>2. safe_add_point(multiple) \/ assign(i, multiple, multiple)
    BY <1>11, <2>1 DEF native_point_mul
  <2> HIDE DEF multiple
  <2> QED
    BY <2>1, <2>2, AddedPoint, AssignedPoint
<1>12. ASSUME NEW i \in DOMAIN moved_points, NEW a \in scalars, NEW b \in scalars,
              native_basepoint_double_mul(a, i, b)
       PROVE  PointsInv'
  <2>1. scalar_of(a) * get_point(i) \in Int /\ scalar_of(b) \in Int
    BY GotPoint, Modulo, Products DEF PointsInv
  <2>2. (scalar_of(a) * get_point(i) + scalar_of(b)) % L \in Scalar
    BY <2>1, Modulo
  <2> QED
    BY <1>12, <2>2, AddedPoint DEF native_basepoint_double_mul
<1>13. ASSUME NEW i \in DOMAIN moved_points, NEW j \in DOMAIN moved_points,
              NEW a \in scalars, NEW b \in scalars, native_double_scalar_mul(i, j, a, b)
       PROVE  PointsInv'
  <2>1. scalar_of(a) * get_point(i) \in Int /\ scalar_of(b) * get_point(j) \in Int
    BY GotPoint, Modulo, Products DEF PointsInv
  <2>2. (scalar_of(a) * get_point(i) + scalar_of(b) * get_point(j)) % L \in Scalar
    BY <2>1, Modulo
  <2> QED
    BY <1>13, <2>2, AddedPoint DEF native_double_scalar_mul
<1>14. ASSUME NEW i \in DOMAIN moved_points, NEW j \in DOMAIN moved_points, NEW in_place \in BOOLEAN,
              native_point_add(i, j, in_place) \/ native_point_sub(i, j, in_place)
       PROVE  PointsInv'
  <2> DEFINE sum == (get_point(i) + get_point(j)) % L
             difference == (get_point(i) + L - get_point(j)) % L
  <2>1. /\ sum \in Scalar /\ difference \in Scalar
        /\ get_point(i) = moved_points[i].plain /\ get_point(j) = moved_points[j].plain
    <3>1. get_point(i) + get_point(j) \in Int /\ get_point(i) + L - get_point(j) \in Int
      BY GotPoint, RistrettoConstants
    <3> QED
      BY <3>1, GotPoint, Modulo
  <2>2. \/ safe_add_point(sum) \/ safe_add_point(difference)
        \/ assign(i, sum, sum) \/ assign(i, difference, difference)
        \/ UNCHANGED ristrettoContext
    BY <1>14, <2>1 DEF native_point_add, native_point_sub, assign_with
  <2>3. CASE UNCHANGED ristrettoContext
    BY <2>3 DEF ristrettoContext, pointStore, PointsInv
  <2> HIDE DEF sum, difference
  <2> QED
    BY <2>1, <2>2, <2>3, AddedPoint, AssignedPoint
<1> QED
  BY <1>1, <1>2, <1>3, <1>4, <1>5, <1>6, <1>7, <1>8, <1>9, <1>10, <1>11, <1>12, <1>13, <1>14
  DEF pointCall

\* A call on scalars makes one more.
LEMMA ScalarCallKeepsPoints == ASSUME PointsInv, scalarCall PROVE PointsInv'
<1>1. ASSUME NEW n \in Int, new_scalar(n) PROVE PointsInv'
  <2>1. scalars' = scalars \cup {n} /\ UNCHANGED <<points, moved_points, compressed>>
    BY <1>1 DEF new_scalar, pointStore
  <2> QED
    BY <2>1 DEF PointsInv
<1>2. \A n \in Int : n % L \in Int
  BY RistrettoConstants
<1>3. \A encoding \in ScalarBytes :
        new_scalar_from_bytes(encoding) \/ native_scalar_reduced(encoding) => \E n \in Int : new_scalar(n)
  BY <1>2 DEF ScalarBytes, new_scalar_from_bytes, native_scalar_reduced
<1>4. \A scalar \in Scalar : native_scalar_from_sha512(scalar) => \E n \in Int : new_scalar(n)
  BY DEF Scalar, native_scalar_from_sha512
<1>5. ASSUME NEW a \in scalars
      PROVE  native_scalar_invert(a) \/ native_scalar_neg(a) => \E n \in Int : new_scalar(n)
  <2>1. HighBit * L - scalar_of(a) \in Int
    BY Modulo, Products, RistrettoConstants DEF PointsInv
  <2>2. (HighBit * L - scalar_of(a)) % L \in Int
    BY <1>2, <2>1
  <2> QED
    BY <2>2 DEF native_scalar_invert, native_scalar_neg, Scalar
<1>6. ASSUME NEW a \in scalars, NEW b \in scalars
      PROVE  native_scalar_mul(a, b) \/ native_scalar_add(a, b) \/ native_scalar_sub(a, b)
               => \E n \in Int : new_scalar(n)
  <2>1. scalar_of(a) \in Int /\ scalar_of(b) \in Int
    BY Modulo DEF PointsInv
  <2>2. scalar_of(a) * scalar_of(b) \in Int /\ HighBit * L \in Int
    BY <2>1, Products, RistrettoConstants
  <2>3. scalar_of(a) + scalar_of(b) \in Int /\ scalar_of(a) + HighBit * L - scalar_of(b) \in Int
    BY <2>1, <2>2
  <2>4. /\ (scalar_of(a) * scalar_of(b)) % L \in Int /\ (scalar_of(a) + scalar_of(b)) % L \in Int
        /\ (scalar_of(a) + HighBit * L - scalar_of(b)) % L \in Int
    BY <1>2, <2>2, <2>3
  <2> QED
    BY <2>4 DEF native_scalar_mul, native_scalar_add, native_scalar_sub
<1> QED
  BY <1>1, <1>3, <1>4, <1>5, <1>6 DEF scalarCall

LEMMA StepKeepsPoints == PointsInv /\ [RistrettoNext]_ristrettoVars => PointsInv'
<1> SUFFICES ASSUME PointsInv, [RistrettoNext]_ristrettoVars PROVE PointsInv'
  OBVIOUS
<1>1. CASE \E hash \in TxnHash : start_ristretto(hash)
  <2>1. points' = <<>> /\ moved_points' = <<>> /\ UNCHANGED <<scalars, compressed>>
    BY <1>1 DEF start_ristretto
  <2> QED
    BY <2>1, NoPoints
<1>2. CASE end_ristretto
  <2>1. /\ points' = <<>> /\ moved_points' = <<>>
        /\ UNCHANGED <<scalars, compressed>> \/ (scalars' = {} /\ compressed' = {})
    BY <1>2 DEF end_ristretto
  <2> QED
    BY <2>1, NoPoints
<1>3. CASE abort_ristretto \/ UNCHANGED ristrettoVars
  BY <1>3 DEF abort_ristretto, ristrettoVars, ristrettoContext, pointStore, PointsInv
<1> QED
  BY <1>1, <1>2, <1>3, PointCallKeepsPoints, ScalarCallKeepsPoints DEF RistrettoNext

LEMMA PointsInvariant == RistrettoSpec => []PointsInv
<1>1. RistrettoInit => PointsInv
  BY PointsInitially
<1>2. PointsInv /\ [RistrettoNext]_ristrettoVars => PointsInv'
  BY StepKeepsPoints
<1> QED
  BY <1>1, <1>2, PTL DEF RistrettoSpec

(* Move sees what it would see if each RistrettoPoint held its own point: the*)
(* handles that ristretto255_point.rs gives out are never shared, so that no *)
(* assignment changes another point and get_two_muts does not panic, and the*)
(* handle of a decompression that fails is never used.                      *)
THEOREM PointsAreValues == RistrettoSpec => []PointsLikeValues
<1>1. PointsInv => PointsLikeValues
  BY GotPoint DEF PointsInv, PointsLikeValues
<1> QED
  BY <1>1, PointsInvariant, PTL

-----------------------------------------------------------------------------
(* Identifiers of a transaction.                                            *)
\* There is a least number in a set of natural numbers.
LEMMA LeastNumber ==
  ASSUME NEW S, S \subseteq Nat, S # {}
  PROVE  \E n \in S : \A m \in S : n <= m
<1> DEFINE Less == {mn \in Nat \X Nat : mn[1] < mn[2]}
<1>1. IsWellFoundedOn(Less, Nat)
  BY NatLessThanWellFounded DEF OpToRel
<1>2. \A m, n \in Nat : m < n => <<m, n>> \in Less
  OBVIOUS
<1> HIDE DEF Less
<1>3. PICK n \in S : \A m \in S : ~(<<m, n>> \in Less)
  BY <1>1, WFMin
<1>4. ASSUME NEW m \in S
      PROVE  n <= m
  <2>1. m \in Nat /\ n \in Nat
    OBVIOUS
  <2>2. m < n => <<m, n>> \in Less
    BY <1>2, <2>1
  <2>3. ~(m < n)
    BY <1>3, <2>2
  <2> QED
    BY <2>1, <2>3
<1> QED
  BY <1>4

\* There is a greatest number in a set of numbers with a bound.
LEMMA GreatestNumber ==
  ASSUME NEW k \in Nat, NEW S, S \subseteq 0 .. k, S # {}
  PROVE  \E n \in S : \A m \in S : m <= n
<1> DEFINE T == {k - m : m \in S}
<1>1. T \subseteq Nat /\ T # {}
  OBVIOUS
<1>2. PICK least \in T : \A m \in T : least <= m
  BY <1>1, LeastNumber
<1>3. PICK n \in S : least = k - n
  OBVIOUS
<1>4. ASSUME NEW m \in S
      PROVE  m <= n
  <2>1. k - m \in T
    OBVIOUS
  <2>2. k - n <= k - m
    BY <1>2, <1>3, <2>1
  <2> QED
    BY <2>2
<1> QED
  BY <1>4

\* The order of the counter: the last byte counts most.
Below(s, t) ==
  \E i \in 1 .. CounterBytes : s[i] < t[i] /\ \A j \in i + 1 .. CounterBytes : s[j] = t[j]

LEMMA NotBelowItself == ASSUME NEW s \in CounterState PROVE ~ Below(s, s)
  BY ContextConstants DEF Below, CounterState

\* Two states that are not the same differ in a highest byte.
LEMMA HighestDifference ==
  ASSUME NEW s \in CounterState, NEW t \in CounterState, s # t
  PROVE  \E i \in 1 .. CounterBytes :
           s[i] # t[i] /\ \A j \in i + 1 .. CounterBytes : s[j] = t[j]
<1> DEFINE S == {i \in 1 .. CounterBytes : s[i] # t[i]}
<1>1. S # {} /\ S \subseteq 0 .. CounterBytes /\ CounterBytes \in Nat
  <2>1. CASE \A i \in 1 .. CounterBytes : s[i] = t[i]
    <3>1. /\ s = [i \in 1 .. CounterBytes |-> s[i]]
          /\ t = [i \in 1 .. CounterBytes |-> t[i]]
      BY DEF CounterState
    <3>2. [i \in 1 .. CounterBytes |-> s[i]] = [i \in 1 .. CounterBytes |-> t[i]]
      BY <2>1
    <3> QED
      BY <3>1, <3>2
  <2> QED
    BY <2>1, ContextConstants
<1>2. PICK i \in S : \A m \in S : m <= i
  BY <1>1, GreatestNumber
<1>3. ASSUME NEW j \in i + 1 .. CounterBytes
      PROVE  s[j] = t[j]
  <2>1. j \in 1 .. CounterBytes /\ ~(j <= i)
    BY <1>1
  <2> QED
    BY <1>2, <2>1
<1> QED
  BY <1>3

\* The counter is at its last state.
AllOnes(s) == \A i \in 1 .. CounterBytes : s[i] = Byte - 1

\* Every state is below the last one.
LEMMA LastIsLast ==
  ASSUME NEW s \in CounterState, NEW t \in CounterState, AllOnes(t), s # t
  PROVE  Below(s, t)
<1>1. PICK i \in 1 .. CounterBytes : s[i] # t[i] /\ \A j \in i + 1 .. CounterBytes : s[j] = t[j]
  BY HighestDifference
<1>2. s[i] \in 0 .. Byte - 1 /\ t[i] = Byte - 1 /\ Byte \in Nat
  BY ContextConstants DEF CounterState, AllOnes
<1>3. s[i] < t[i]
  BY <1>1, <1>2
<1> QED
  BY <1>1, <1>3 DEF Below

\* The bytes that increment changes are a carry: up to one, all are full.
LEMMA Carry ==
  ASSUME NEW s \in CounterState, ~ AllOnes(s)
  PROVE  \E p \in 1 .. CounterBytes :
           /\ s[p] # Byte - 1 /\ increment(s)[p] = s[p] + 1
           /\ \A i \in 1 .. p - 1 : s[i] = Byte - 1 /\ increment(s)[i] = 0
           /\ \A i \in p + 1 .. CounterBytes : increment(s)[i] = s[i]
<1> DEFINE S == {i \in 1 .. CounterBytes : s[i] # Byte - 1}
<1>1. S # {} /\ S \subseteq Nat
  BY DEF AllOnes
<1>2. PICK p \in S : \A m \in S : p <= m
  BY <1>1, LeastNumber
<1>3. /\ DOMAIN s = 1 .. CounterBytes /\ Byte \in Nat /\ Byte > 0 /\ CounterBytes \in Nat
      /\ \A i \in 1 .. CounterBytes : s[i] \in 0 .. Byte - 1
  BY ContextConstants DEF CounterState
<1>4. \A i \in 1 .. p - 1 : i \in 1 .. CounterBytes /\ s[i] = Byte - 1
  BY <1>2, <1>3
<1>5. \A i \in 1 .. CounterBytes :
        increment(s)[i] =
          IF \A j \in 1 .. i - 1 : s[j] = Byte - 1 THEN (s[i] + 1) % Byte ELSE s[i]
  BY <1>3 DEF increment
<1>6. increment(s)[p] = s[p] + 1
  <2>1. s[p] + 1 \in 0 .. Byte - 1
    BY <1>3
  <2>2. (s[p] + 1) % Byte = s[p] + 1
    BY <1>3, <2>1
  <2> QED
    BY <1>4, <1>5, <2>2
<1>7. \A i \in 1 .. p - 1 : increment(s)[i] = 0
  <2>1. (Byte - 1 + 1) % Byte = 0
    BY <1>3
  <2>2. \A i \in 1 .. p - 1 : \A j \in 1 .. i - 1 : j \in 1 .. p - 1
    BY <1>3
  <2> QED
    BY <1>4, <1>5, <2>1, <2>2
<1>8. ASSUME NEW i \in p + 1 .. CounterBytes
      PROVE  increment(s)[i] = s[i]
  <2>1. i \in 1 .. CounterBytes /\ p \in 1 .. i - 1
    BY <1>3
  <2> QED
    BY <1>5, <2>1
<1> QED
  BY <1>4, <1>6, <1>7, <1>8

LEMMA IncrementedIsState ==
  ASSUME NEW s \in CounterState
  PROVE  increment(s) \in CounterState
<1>1. /\ DOMAIN s = 1 .. CounterBytes /\ Byte \in Nat /\ Byte > 0
      /\ \A i \in 1 .. CounterBytes : s[i] \in 0 .. Byte - 1
  BY ContextConstants DEF CounterState
<1>2. \A n \in Nat : n % Byte \in 0 .. Byte - 1
  BY <1>1
<1>3. \A i \in 1 .. CounterBytes : (s[i] + 1) % Byte \in 0 .. Byte - 1
  BY <1>1, <1>2
<1> QED
  BY <1>1, <1>3 DEF increment, CounterState

\* After the last state the counter is at zero, below which there is nothing.
LEMMA NothingBelowZero == ASSUME NEW s \in CounterState PROVE ~ Below(s, zero)
  BY DEF Below, zero, CounterState

\* The states below the next one are those below this one, and this one.
LEMMA BelowTheNext ==
  ASSUME NEW s \in CounterState, NEW t \in CounterState, ~ AllOnes(t)
  PROVE  Below(s, increment(t)) <=> s = t \/ Below(s, t)
<1> DEFINE next == increment(t)
<1>1. PICK p \in 1 .. CounterBytes :
        /\ t[p] # Byte - 1 /\ next[p] = t[p] + 1
        /\ \A i \in 1 .. p - 1 : t[i] = Byte - 1 /\ next[i] = 0
        /\ \A i \in p + 1 .. CounterBytes : next[i] = t[i]
  BY Carry
<1>2. /\ \A i \in 1 .. CounterBytes : s[i] \in 0 .. Byte - 1 /\ t[i] \in 0 .. Byte - 1
      /\ CounterBytes \in Nat /\ Byte \in Nat
  BY ContextConstants DEF CounterState
<1> HIDE DEF next
<1>3. ASSUME s = t
      PROVE  Below(s, next)
  <2>1. s[p] < next[p]
    BY <1>1, <1>2, <1>3
  <2> QED
    BY <1>1, <1>3, <2>1 DEF Below
<1>4. ASSUME Below(s, t)
      PROVE  Below(s, next)
  <2>1. PICK i \in 1 .. CounterBytes : s[i] < t[i] /\ \A j \in i + 1 .. CounterBytes : s[j] = t[j]
    BY <1>4 DEF Below
  <2>2. CASE i > p
    <3>1. i \in p + 1 .. CounterBytes /\ \A j \in i + 1 .. CounterBytes : j \in p + 1 .. CounterBytes
      BY <1>2, <2>2
    <3>2. s[i] < next[i] /\ \A j \in i + 1 .. CounterBytes : s[j] = next[j]
      BY <1>1, <2>1, <3>1
    <3> QED
      BY <3>2 DEF Below
  <2>3. CASE ~(i > p)
    <3>1. s[p] <= t[p]
      BY <1>2, <2>1, <2>3
    <3>2. s[p] < next[p]
      BY <1>1, <1>2, <3>1
    <3>3. \A j \in p + 1 .. CounterBytes : j \in i + 1 .. CounterBytes
      BY <1>2, <2>3
    <3> QED
      BY <1>1, <2>1, <3>2, <3>3 DEF Below
  <2> QED
    BY <2>2, <2>3
<1>5. ASSUME Below(s, next), s # t
      PROVE  Below(s, t)
  <2>1. PICK i \in 1 .. CounterBytes :
          s[i] < next[i] /\ \A j \in i + 1 .. CounterBytes : s[j] = next[j]
    BY <1>5 DEF Below
  <2>2. CASE i > p
    <3>1. i \in p + 1 .. CounterBytes /\ \A j \in i + 1 .. CounterBytes : j \in p + 1 .. CounterBytes
      BY <1>2, <2>2
    <3>2. s[i] < t[i] /\ \A j \in i + 1 .. CounterBytes : s[j] = t[j]
      BY <1>1, <2>1, <3>1
    <3> QED
      BY <3>2 DEF Below
  <2>3. ~(i < p)
    BY <1>1, <1>2, <2>1
  <2>4. CASE i = p
    <3>1. s[p] <= t[p]
      BY <1>1, <1>2, <2>1, <2>4
    <3>2. \A j \in p + 1 .. CounterBytes : s[j] = t[j]
      BY <1>1, <2>1, <2>4
    <3>3. CASE s[p] < t[p]
      BY <3>2, <3>3 DEF Below
    <3>4. CASE s[p] = t[p]
      <4>1. PICK d \in 1 .. CounterBytes :
              s[d] # t[d] /\ \A j \in d + 1 .. CounterBytes : s[j] = t[j]
        BY <1>5, HighestDifference
      <4>2. d < p
        <5>1. d \notin p + 1 .. CounterBytes /\ d # p
          BY <3>2, <3>4, <4>1
        <5> QED
          BY <1>2, <5>1
      <4>3. t[d] = Byte - 1
        BY <1>1, <1>2, <4>2
      <4>4. s[d] < t[d]
        BY <1>2, <4>1, <4>3
      <4> QED
        BY <4>1, <4>4 DEF Below
    <3> QED
      BY <1>2, <3>1, <3>3, <3>4
  <2> QED
    BY <1>2, <2>2, <2>3, <2>4
<1> QED
  BY <1>3, <1>4, <1>5 DEF next

-----------------------------------------------------------------------------
ContextInv ==
  /\ status = "running" => txn \in used
  \* unique addresses
  /\ IsFiniteSet(auids) /\ requested = Cardinality(auids) /\ auid_counter \in Nat
  /\ \A a \in auids : a.of \in used /\ a.n \in Nat /\ (a.of = txn => a.n <= auid_counter)
  \* randomness
  /\ IsFiniteSet(blobs) /\ drawn = Cardinality(blobs)
  /\ blobs \subseteq used \X CounterState
  /\ txn_local_state \in CounterState
  /\ \/ \A state \in CounterState : <<txn, state>> \in blobs <=> Below(state, txn_local_state)
     \/ \A state \in CounterState : <<txn, state>> \in blobs
  \* derived addresses
  /\ \A a \in answers : a[3] = object_address_from_object(a[1], a[2])
  /\ \A key \in DOMAIN derived_from_object_addresses :
       derived_from_object_addresses[key] = object_address_from_object(key[2], key[1])

LEMMA ContextInitially == ContextInit => ContextInv
<1> SUFFICES ASSUME ContextInit PROVE ContextInv
  OBVIOUS
<1>1. /\ status = "idle" /\ auid_counter = 0 /\ derived_from_object_addresses = <<>>
      /\ txn_local_state = zero /\ auids = {} /\ blobs = {} /\ requested = 0 /\ drawn = 0
      /\ answers = {}
  BY DEF ContextInit, SessionInit
<1>2. zero \in CounterState
  BY ContextConstants DEF zero, CounterState
<1>3. \A state \in CounterState : ~ Below(state, zero)
  BY NothingBelowZero
<1> QED
  BY <1>1, <1>2, <1>3, FS_EmptySet DEF ContextInv

LEMMA StartKeepsContext ==
  ASSUME ContextInv, NEW hash, NEW script, NEW user, NEW marked,
         start_context(hash, script, user, marked)
  PROVE  ContextInv'
<1>1. /\ hash \notin used /\ txn' = hash /\ used' = used \cup {hash} /\ status' = "running"
      /\ auid_counter' = 0 /\ derived_from_object_addresses' = <<>> /\ txn_local_state' = zero
      /\ UNCHANGED <<auids, blobs, requested, drawn, answers>>
  BY DEF start_context, open_session
<1>2. zero \in CounterState /\ \A state \in CounterState : ~ Below(state, zero)
  BY NothingBelowZero, ContextConstants DEF zero, CounterState
<1>3. \A state \in CounterState : <<hash, state>> \notin blobs
  BY <1>1 DEF ContextInv
<1>4. \A state \in CounterState : ~ Below(state, txn_local_state)'
  BY <1>1, <1>2 DEF Below
<1>5. \A a \in auids : a.of # hash
  BY <1>1 DEF ContextInv
<1> QED
  BY <1>1, <1>2, <1>3, <1>4, <1>5 DEF ContextInv

LEMMA AuidKeepsContext == ASSUME ContextInv, native_generate_unique_address PROVE ContextInv'
<1>1. /\ status = "running"
      /\ UNCHANGED <<used, txn, derived_from_object_addresses, txn_local_state>>
      /\ UNCHANGED <<blobs, drawn, answers>>
  BY DEF native_generate_unique_address, sessionVars, fail, objectContext, randomnessContext
<1>2. CASE fail /\ UNCHANGED <<auid_counter, auids, requested>>
  BY <1>1, <1>2 DEF fail, ContextInv, Below
<1>3. CASE /\ auid_counter' = auid_counter + 1
           /\ auids' = auids \cup {auid(auid_counter')} /\ requested' = requested + 1
           /\ UNCHANGED sessionVars
  <2>1. auid(auid_counter').of = txn /\ auid(auid_counter').n = auid_counter + 1
    BY <1>3 DEF auid
  <2>2. auid(auid_counter') \notin auids
    BY <2>1 DEF ContextInv
  <2>3. IsFiniteSet(auids') /\ Cardinality(auids') = requested + 1
    BY <1>3, <2>2, FS_AddElement DEF ContextInv
  <2>4. txn \in used /\ auid_counter \in Nat
    BY <1>1 DEF ContextInv
  <2>5. \A a \in auids' : a.of \in used /\ a.n \in Nat /\ (a.of = txn => a.n <= auid_counter + 1)
    BY <1>3, <2>1, <2>4 DEF ContextInv
  <2> QED
    BY <1>1, <1>3, <2>3, <2>4, <2>5 DEF ContextInv, sessionVars, Below
<1> QED
  BY <1>2, <1>3 DEF native_generate_unique_address

LEMMA DerivedKeepsContext ==
  ASSUME ContextInv, NEW source, NEW derive_from, NEW directly \in BOOLEAN,
         create_user_derived_object_address(source, derive_from, directly)
  PROVE  ContextInv'
<1> DEFINE key == cache_key(derive_from, source)
           fresh == object_address_from_object(source, derive_from)
           reply == IF directly /\ key \in DOMAIN derived_from_object_addresses
                     THEN derived_from_object_addresses[key] ELSE fresh
<1>1. /\ answers' = answers \cup {<<source, derive_from, reply>>}
      /\ derived_from_object_addresses' =
           [k \in DOMAIN derived_from_object_addresses \cup (IF directly THEN {key} ELSE {}) |->
             IF k \in DOMAIN derived_from_object_addresses
             THEN derived_from_object_addresses[k] ELSE fresh]
      /\ UNCHANGED <<used, txn, status, auid_counter, txn_local_state>>
      /\ UNCHANGED <<auids, blobs, requested, drawn>>
  BY DEF create_user_derived_object_address, sessionVars, randomnessContext
<1>2. key[1] = derive_from /\ key[2] = source
  BY DEF cache_key
<1> HIDE DEF key
<1>3. reply = fresh
  BY <1>2 DEF ContextInv
<1>4. \A k \in DOMAIN derived_from_object_addresses' :
        derived_from_object_addresses'[k] = object_address_from_object(k[2], k[1])
  BY <1>1, <1>2 DEF ContextInv
<1> HIDE DEF reply
<1>5. \A a \in answers' : a[3] = object_address_from_object(a[1], a[2])
  BY <1>1, <1>3 DEF ContextInv
<1> QED
  BY <1>1, <1>4, <1>5 DEF ContextInv, Below

LEMMA DrawKeepsContext == ASSUME ContextInv, next_32_bytes PROVE ContextInv'
<1> DEFINE blob == <<txn, txn_local_state>>
<1>1. /\ status = "running"
      /\ UNCHANGED <<used, txn, auid_counter, derived_from_object_addresses>>
      /\ UNCHANGED <<auids, requested, answers>>
  BY DEF next_32_bytes, sessionVars, fail, objectContext
<1>2. CASE fail /\ UNCHANGED <<blobs, txn_local_state, drawn>>
  BY <1>1, <1>2 DEF fail, ContextInv, Below
<1>3. CASE /\ \E state \in CounterState : <<txn, state>> \notin blobs
           /\ blobs' = blobs \cup {blob} /\ txn_local_state' = increment(txn_local_state)
           /\ drawn' = drawn + 1 /\ UNCHANGED sessionVars
  <2>1. \A state \in CounterState : <<txn, state>> \in blobs <=> Below(state, txn_local_state)
    BY <1>3 DEF ContextInv
  <2>2. txn_local_state \in CounterState /\ txn \in used
    BY <1>1 DEF ContextInv
  <2>3. blob \notin blobs
    BY <2>1, <2>2, NotBelowItself
  <2>4. IsFiniteSet(blobs') /\ Cardinality(blobs') = drawn + 1
    BY <1>3, <2>3, FS_AddElement DEF ContextInv
  <2>5. blobs' \subseteq used \X CounterState /\ increment(txn_local_state) \in CounterState
    BY <1>3, <2>2, IncrementedIsState DEF ContextInv
  <2>6. \A state \in CounterState :
          <<txn, state>> \in blobs' <=> state = txn_local_state \/ Below(state, txn_local_state)
    BY <1>3, <2>1
  <2>7. CASE AllOnes(txn_local_state)
    <3>1. \A state \in CounterState : <<txn, state>> \in blobs'
      BY <2>2, <2>6, <2>7, LastIsLast
    <3> QED
      BY <1>1, <1>3, <2>2, <2>4, <2>5, <3>1 DEF ContextInv, sessionVars
  <2>8. CASE ~ AllOnes(txn_local_state)
    <3>1. \A state \in CounterState :
            <<txn, state>> \in blobs' <=> Below(state, increment(txn_local_state))
      BY <2>2, <2>6, <2>8, BelowTheNext
    <3>2. \A state \in CounterState : <<txn, state>> \in blobs' <=> Below(state, txn_local_state')
      BY <1>3, <3>1
    <3> QED
      BY <1>1, <1>3, <2>2, <2>4, <2>5, <3>2 DEF ContextInv, sessionVars, Below
  <2> QED
    BY <2>7, <2>8
<1> QED
  BY <1>2, <1>3 DEF next_32_bytes

LEMMA StepKeepsContext == ContextInv /\ [ContextNext]_contextVars => ContextInv'
<1> SUFFICES ASSUME ContextInv, [ContextNext]_contextVars PROVE ContextInv'
  OBVIOUS
<1>1. CASE \E hash \in TxnHash, script \in Script, user \in Payload \cup {NoContext},
              marked \in BOOLEAN : start_context(hash, script, user, marked)
  BY <1>1, StartKeepsContext
<1>2. CASE \E source, derive_from \in Address, directly \in BOOLEAN :
             create_user_derived_object_address(source, derive_from, directly)
  BY <1>2, DerivedKeepsContext
<1>3. CASE native_user_context \/ end_context \/ UNCHANGED contextVars
  <2>1. /\ UNCHANGED <<used, txn, auid_counter, derived_from_object_addresses, txn_local_state>>
        /\ UNCHANGED <<auids, blobs, requested, drawn, answers>>
        /\ status' \in {"failed", "idle", status}
    BY <1>3 DEF native_user_context, end_context, fail, close_session, contextVars, sessionVars,
                objectContext, randomnessContext
  <2> QED
    BY <2>1 DEF ContextInv, Below
<1> QED
  BY <1>1, <1>2, <1>3, AuidKeepsContext, DrawKeepsContext DEF ContextNext

(* No unique address and no random blob is given out twice, whatever sessions*)
(* run, fail and commit: the addresses are numbered within a transaction, and*)
(* the carry of increment (randomness.rs) takes the counter through all of   *)
(* its states, in their order, before one comes back.  Derived addresses are *)
(* those of object.move whatever the cache (NativeObjectContext) has seen.   *)
THEOREM IdentifiersNeverRepeat == ContextSpec => []IdentifiersAreFresh
<1>1. ContextInit => ContextInv
  BY ContextInitially
<1>2. ContextInv /\ [ContextNext]_contextVars => ContextInv'
  BY StepKeepsContext
<1>3. ContextInv => IdentifiersAreFresh
  <2> SUFFICES ASSUME ContextInv PROVE IdentifiersAreFresh
    OBVIOUS
  <2>1. ASSUME NEW a \in answers, NEW b \in answers
        PROVE  (a[1] = b[1] /\ a[2] = b[2]) <=> a[3] = b[3]
    <3>1. /\ a[3] = [scheme |-> "derived", of |-> a[1], from |-> a[2]]
          /\ b[3] = [scheme |-> "derived", of |-> b[1], from |-> b[2]]
      BY DEF ContextInv, object_address_from_object
    <3>2. a[3].of = a[1] /\ a[3].from = a[2] /\ b[3].of = b[1] /\ b[3].from = b[2]
      BY <3>1
    <3> QED
      BY <3>1, <3>2
  <2> QED
    BY <2>1 DEF ContextInv, IdentifiersAreFresh, DerivedAddressesAgree
<1> QED
  BY <1>1, <1>2, <1>3, PTL DEF ContextSpec
-----------------------------------------------------------------------------
(* Arithmetic modulo a number.                                             *)

LEMMA Quotient ==
  ASSUME NEW n \in Nat \ {0}, NEW a \in Nat
  PROVE  /\ a % n \in 0 .. n - 1 /\ a \div n \in Nat /\ a = n * (a \div n) + (a % n)
  BY Z3

LEMMA Remainder ==
  ASSUME NEW n \in Nat \ {0}, NEW r \in 0 .. n-1, NEW q \in Nat
  PROVE  (n * q + r) % n = r
  BY Z3

LEMMA SameRemainder ==
  ASSUME NEW n \in Nat \ {0}, NEW a \in Nat, NEW q \in Nat
  PROVE  (n * q + a) % n = a % n
<1> DEFINE p == a \div n
<1> DEFINE r == a % n
<1>1. r \in 0 .. n - 1 /\ p \in Nat /\ a = n * p + r
  BY Quotient
<1> HIDE DEF p
<1>2. SUFFICES (n * q + a) % n = r
  OBVIOUS
<1> HIDE DEF r
<1>3. q + p \in Nat /\ n * q + a = n * (q + p) + r
  BY <1>1, Z3
<1> QED
  BY <1>1, <1>3, Remainder

LEMMA MulMod ==
  ASSUME NEW n \in Nat \ {0}, NEW a \in Nat, NEW b \in Nat
  PROVE  ((a % n) * b) % n = (a * b) % n
<1> DEFINE q == a \div n
<1> DEFINE r == a % n
<1>1. r \in 0 .. n - 1 /\ q \in Nat /\ a = n * q + r
  BY Quotient
<1> HIDE DEF q
<1>2. SUFFICES (r * b) % n = (a * b) % n
  OBVIOUS
<1> HIDE DEF r
<1>3. r \in Nat /\ q * b \in Nat /\ r * b \in Nat
  BY <1>1, Z3
<1>4. a * b = n * (q * b) + r * b
  BY <1>1, Z3
<1> DEFINE c == r * b
           d == q * b
<1> HIDE DEF c, d
<1>5. c \in Nat /\ d \in Nat /\ a * b = n * d + c
  BY <1>3, <1>4 DEF c, d
<1>6. (n * d + c) % n = c % n
  BY <1>5, SameRemainder
<1> QED
  BY <1>5, <1>6 DEF c

LEMMA AddMod ==
  ASSUME NEW n \in Nat \ {0}, NEW a \in Nat, NEW b \in Nat
  PROVE  ((a % n) + b) % n = (a + b) % n
<1> DEFINE q == a \div n
<1> DEFINE r == a % n
<1>1. r \in 0 .. n - 1 /\ q \in Nat /\ a = n * q + r
  BY Quotient
<1> HIDE DEF q
<1>2. SUFFICES (r + b) % n = (a + b) % n
  OBVIOUS
<1> HIDE DEF r
<1>3. r + b \in Nat /\ a + b = n * q + (r + b)
  BY <1>1, Z3
<1> DEFINE c == r + b
<1> HIDE DEF c
<1>4. c \in Nat /\ a + b = n * q + c
  BY <1>3 DEF c
<1>5. (n * q + c) % n = c % n
  BY <1>1, <1>4, SameRemainder
<1> QED
  BY <1>4, <1>5 DEF c
\* Products and sums modulo n
Product(n, a, b) == (a * b) % n
Total(n, a, b) == (a + b) % n

LEMMA SumTimes ==
  ASSUME NEW n \in Nat \ {0}, NEW a \in Nat, NEW b \in Nat, NEW m \in Nat
  PROVE  Total(n, Product(n, a, m), Product(n, b, m)) = Product(n, Total(n, a, b), m)
<1> DEFINE x == a * m
           y == b * m
           s == a + b
           r == y % n
<1>1. x \in Nat /\ y \in Nat /\ s \in Nat
  BY Z3
<1>2. s * m = x + y
  BY Z3
<1>3. r \in Nat
  BY <1>1, Quotient
<1> HIDE DEF x, y, s
<1>4. ((x % n) + r) % n = (x + r) % n
  BY <1>1, <1>3, AddMod
<1>5. (r + x) % n = (y + x) % n
  BY <1>1, AddMod
<1>6. ((s % n) * m) % n = (s * m) % n
  BY <1>1, MulMod
<1> HIDE DEF r
<1>7. x + r = r + x /\ x + y = y + x
  BY <1>1, <1>3
<1>8. ((x % n) + r) % n = ((s % n) * m) % n
  BY <1>2, <1>4, <1>5, <1>6, <1>7
<1> QED
  BY <1>8 DEF x, y, s, r, Product, Total
-----------------------------------------------------------------------------
(* Powers.                                                                 *)

\* Induction over the numbers, as a set of them.
LEMMA AllNumbers ==
  ASSUME NEW S, 0 \in S, \A n \in Nat : n \in S => n + 1 \in S
  PROVE  \A n \in Nat : n \in S
<1> SUFFICES ASSUME Nat \ S # {} PROVE FALSE
  OBVIOUS
<1> DEFINE Less == {p \in Nat \X Nat : p[1] < p[2]}
<1>1. IsWellFoundedOn(Less, Nat)
  BY NatLessThanWellFounded DEF OpToRel
<1>2. \A m, n \in Nat : m < n => <<m, n>> \in Less
  OBVIOUS
<1> HIDE DEF Less
<1>3. PICK n \in Nat \ S : \A m \in Nat \ S : ~(<<m, n>> \in Less)
  BY <1>1, WFMin
<1>4. n - 1 \in Nat /\ n - 1 < n /\ (n - 1) + 1 = n
  BY <1>3
<1> QED
  BY <1>2, <1>3, <1>4

\* The table of powers that pow fills
Powers(p, a, n, modulus) ==
  p = [k \in 0 .. n |-> IF k = 0 THEN 1 ELSE (p[k - 1] * a) % modulus]

LEMMA PowersExist ==
  ASSUME NEW a, NEW modulus
  PROVE  \A n \in Nat : \E p : Powers(p, a, n, modulus)
<1> DEFINE S == {n \in Nat : \E p : Powers(p, a, n, modulus)}
<1>1. 0 \in S
  <2> DEFINE p == [k \in 0 .. 0 |-> 1]
  <2>1. \A k \in 0 .. 0 : k = 0
    OBVIOUS
  <2>2. Powers(p, a, 0, modulus)
    BY <2>1 DEF Powers
  <2> QED
    BY <2>2
<1>2. ASSUME NEW n \in Nat, n \in S
      PROVE  n + 1 \in S
  <2>1. PICK p : Powers(p, a, n, modulus)
    BY <1>2
  <2> DEFINE q == [k \in 0 .. n + 1 |-> IF k = n + 1 THEN (p[n] * a) % modulus ELSE p[k]]
  <2>2. ASSUME NEW k \in 0 .. n + 1
        PROVE  q[k] = IF k = 0 THEN 1 ELSE (q[k - 1] * a) % modulus
    <3>1. CASE k = n + 1
      <4>1. k - 1 = n /\ n \in 0 .. n + 1 /\ n # n + 1 /\ k # 0
        BY <3>1
      <4> QED
        BY <3>1, <4>1
    <3>2. CASE k # n + 1
      <4>1. k \in 0 .. n
        BY <3>2
      <4>2. p[k] = IF k = 0 THEN 1 ELSE (p[k - 1] * a) % modulus
        BY <2>1, <4>1 DEF Powers
      <4>3. k # 0 => k - 1 \in 0 .. n + 1 /\ k - 1 # n + 1
        BY <4>1
      <4> QED
        BY <3>2, <4>1, <4>2, <4>3
    <3> QED
      BY <3>1, <3>2
  <2>3. q = [k \in 0 .. n + 1 |-> q[k]]
    OBVIOUS
  <2> HIDE DEF q
  <2>4. Powers(q, a, n + 1, modulus)
    BY <2>2, <2>3 DEF Powers
  <2> QED
    BY <2>4
<1> HIDE DEF S
<1>3. \A n \in Nat : n \in S
  BY <1>1, <1>2, AllNumbers
<1> QED
  BY <1>3 DEF S

\* Tables of different lengths agree.
LEMMA PowersAgree ==
  ASSUME NEW a, NEW modulus, NEW n \in Nat, NEW p, Powers(p, a, n, modulus),
         NEW l \in Nat, n <= l, NEW q, Powers(q, a, l, modulus)
  PROVE  p[n] = q[n]
<1> DEFINE S == {k \in Nat : k <= n => p[k] = q[k]}
<1>1. 0 \in S
  <2>1. 0 \in 0 .. n /\ 0 \in 0 .. l
    OBVIOUS
  <2> QED
    BY <2>1 DEF Powers
<1>2. ASSUME NEW k \in Nat, k \in S
      PROVE  k + 1 \in S
  <2>1. ASSUME k + 1 <= n
        PROVE  p[k + 1] = q[k + 1]
    <3>1. k + 1 \in 0 .. n /\ k + 1 \in 0 .. l /\ k + 1 # 0 /\ (k + 1) - 1 = k /\ k <= n
      BY <2>1
    <3>2. p[k + 1] = (p[k] * a) % modulus
      BY <3>1 DEF Powers
    <3>3. q[k + 1] = (q[k] * a) % modulus
      BY <3>1 DEF Powers
    <3> QED
      BY <1>2, <3>1, <3>2, <3>3
  <2> QED
    BY <2>1
<1> HIDE DEF S
<1>3. \A k \in Nat : k \in S
  BY <1>1, <1>2, AllNumbers
<1> QED
  BY <1>3 DEF S

LEMMA PowIsPower ==
  ASSUME NEW a, NEW modulus, NEW n \in Nat
  PROVE  \E p : Powers(p, a, n, modulus) /\ pow(a, n, modulus) = p[n]
<1> DEFINE p == CHOOSE p : Powers(p, a, n, modulus)
<1>1. pow(a, n, modulus) = p[n]
  BY DEF pow, Powers
<1>2. Powers(p, a, n, modulus)
  BY PowersExist
<1> HIDE DEF p
<1> QED
  BY <1>1, <1>2

\* The equations of pow.
LEMMA PowZero ==
  ASSUME NEW a, NEW modulus
  PROVE  pow(a, 0, modulus) = 1
<1>1. PICK p : Powers(p, a, 0, modulus) /\ pow(a, 0, modulus) = p[0]
  BY PowIsPower
<1> QED
  BY <1>1 DEF Powers

LEMMA PowNext ==
  ASSUME NEW a, NEW modulus, NEW n \in Nat
  PROVE  pow(a, n + 1, modulus) = (pow(a, n, modulus) * a) % modulus
<1>1. PICK p : Powers(p, a, n, modulus) /\ pow(a, n, modulus) = p[n]
  BY PowIsPower
<1>2. n + 1 \in Nat
  OBVIOUS
<1>3. PICK q : Powers(q, a, n + 1, modulus) /\ pow(a, n + 1, modulus) = q[n + 1]
  BY <1>2, PowIsPower
<1>4. p[n] = q[n]
  BY <1>1, <1>2, <1>3, PowersAgree
<1>5. q[n + 1] = (q[n] * a) % modulus
  <2>1. n + 1 \in 0 .. n + 1 /\ n + 1 # 0 /\ (n + 1) - 1 = n
    OBVIOUS
  <2> QED
    BY <1>3, <2>1 DEF Powers
<1> QED
  BY <1>1, <1>3, <1>4, <1>5

\* The laws that make the powers of a generator a group, modulo more than 1.
LEMMA PowInRange ==
  ASSUME NEW modulus \in Nat, modulus > 1, NEW a \in Nat
  PROVE  \A n \in Nat : pow(a, n, modulus) \in 0 .. modulus - 1
<1> DEFINE S == {n \in Nat : pow(a, n, modulus) \in 0 .. modulus - 1}
<1>1. 0 \in S
  BY PowZero
<1>2. ASSUME NEW n \in Nat, n \in S
      PROVE  n + 1 \in S
  <2> DEFINE b == pow(a, n, modulus)
  <2>1. b \in 0 .. modulus - 1 /\ pow(a, n + 1, modulus) = (b * a) % modulus
    BY <1>2, PowNext
  <2> HIDE DEF b
  <2>2. b \in Nat
    BY <2>1
  <2>3. b * a \in Nat
    BY <2>2, Z3
  <2>4. (b * a) % modulus \in 0 .. modulus - 1
    BY <2>3, Quotient
  <2> QED
    BY <2>1, <2>4
<1> HIDE DEF S
<1>3. \A n \in Nat : n \in S
  BY <1>1, <1>2, AllNumbers
<1> QED
  BY <1>3 DEF S

LEMMA PowOfOne ==
  ASSUME NEW modulus \in Nat, modulus > 1
  PROVE  \A n \in Nat : pow(1, n, modulus) = 1
<1> DEFINE S == {n \in Nat : pow(1, n, modulus) = 1}
<1>1. 0 \in S
  BY PowZero
<1>2. ASSUME NEW n \in Nat, n \in S
      PROVE  n + 1 \in S
  <2>1. pow(1, n + 1, modulus) = (1 * 1) % modulus
    BY <1>2, PowNext
  <2>2. (1 * 1) % modulus = 1
    BY Z3
  <2> QED
    BY <2>1, <2>2
<1> HIDE DEF S
<1>3. \A n \in Nat : n \in S
  BY <1>1, <1>2, AllNumbers
<1> QED
  BY <1>3 DEF S

\* Products modulo m can be taken in any order.
LEMMA ProductMod ==
  ASSUME NEW m \in Nat \ {0}, NEW a \in Nat, NEW b \in Nat, NEW c \in Nat, NEW d \in Nat
  PROVE  Product(m, Product(m, a, b), Product(m, c, d))
           = Product(m, Product(m, a, c), Product(m, b, d))
<1> DEFINE ab == a * b
<1> DEFINE cd == c * d
<1> DEFINE ac == a * c
<1> DEFINE bd == b * d
<1>1. ab \in Nat /\ cd \in Nat /\ ac \in Nat /\ bd \in Nat
  BY Z3
<1>2. ab * cd = ac * bd
  BY Z3
<1>3. ASSUME NEW x \in Nat, NEW y \in Nat
      PROVE  ((x % m) * (y % m)) % m = (x * y) % m
  <2>1. x % m \in Nat /\ y % m \in Nat
    BY Quotient
  <2>2. ((x % m) * (y % m)) % m = (x * (y % m)) % m
    BY <2>1, MulMod
  <2>3. x * (y % m) = (y % m) * x /\ x * y = y * x
    BY <2>1, Z3
  <2>4. ((y % m) * x) % m = (y * x) % m
    BY MulMod
  <2> QED
    BY <2>2, <2>3, <2>4
<1> HIDE DEF ab, cd, ac, bd
<1>4. ((ab % m) * (cd % m)) % m = ((ac % m) * (bd % m)) % m
  <2>1. ((ab % m) * (cd % m)) % m = (ab * cd) % m
    BY <1>1, <1>3, Zenon
  <2>2. ((ac % m) * (bd % m)) % m = (ac * bd) % m
    BY <1>1, <1>3, Zenon
  <2> QED
    BY <1>2, <2>1, <2>2, Zenon
<1> QED
  BY <1>4 DEF ab, cd, ac, bd, Product

LEMMA PowOfProduct ==
  ASSUME NEW modulus \in Nat, modulus > 1, NEW a \in Nat, NEW b \in Nat
  PROVE  \A n \in Nat : pow((a * b) % modulus, n, modulus)
                          = (pow(a, n, modulus) * pow(b, n, modulus)) % modulus
<1> DEFINE c == (a * b) % modulus
<1> DEFINE S == {n \in Nat : pow(c, n, modulus) = (pow(a, n, modulus) * pow(b, n, modulus)) % modulus}
<1>1. 0 \in S
  <2>1. (1 * 1) % modulus = 1
    BY Z3
  <2> QED
    BY <2>1, PowZero
<1>2. ASSUME NEW n \in Nat, n \in S
      PROVE  n + 1 \in S
  <2> DEFINE x == pow(a, n, modulus)
  <2> DEFINE y == pow(b, n, modulus)
  <2>1. /\ pow(c, n, modulus) = (x * y) % modulus
        /\ pow(c, n + 1, modulus) = (pow(c, n, modulus) * c) % modulus
        /\ pow(a, n + 1, modulus) = (x * a) % modulus
        /\ pow(b, n + 1, modulus) = (y * b) % modulus
    BY <1>2, PowNext
  <2>2. x \in Nat /\ y \in Nat /\ modulus \in Nat \ {0}
    <3>1. /\ \A k \in Nat : pow(a, k, modulus) \in 0 .. modulus - 1
          /\ \A k \in Nat : pow(b, k, modulus) \in 0 .. modulus - 1
      BY PowInRange
    <3> QED
      BY <3>1
  <2> HIDE DEF x, y
  <2>3. Product(modulus, Product(modulus, x, y), Product(modulus, a, b))
          = Product(modulus, Product(modulus, x, a), Product(modulus, y, b))
    BY <2>2, ProductMod
  <2> QED
    BY <2>1, <2>3 DEF Product
<1> HIDE DEF S
<1>3. \A n \in Nat : n \in S
  BY <1>1, <1>2, AllNumbers
<1> QED
  BY <1>3 DEF S

-----------------------------------------------------------------------------
(* The subgroup.                                                           *)

LEMMA OneInSubgroup == in_subgroup(1)
  BY PowOfOne, AlgebraConstants DEF in_subgroup

LEMMA ProductInSubgroup ==
  ASSUME NEW a \in Nat, NEW b \in Nat, in_subgroup(a), in_subgroup(b)
  PROVE  (a * b) % Q \in 0 .. Q - 1 /\ in_subgroup((a * b) % Q)
<1>1. Q \in Nat \ {0} /\ Q > 1 /\ R \in Nat
  BY AlgebraConstants
<1>2. a * b \in Nat
  BY Z3
<1>3. (1 * 1) % Q = 1
  BY <1>1, Z3
<1>4. pow((a * b) % Q, R, Q) = (pow(a, R, Q) * pow(b, R, Q)) % Q
  BY <1>1, PowOfProduct
<1> QED
  BY <1>1, <1>2, <1>3, <1>4, Quotient DEF in_subgroup

LEMMA PowerInSubgroup ==
  ASSUME NEW a \in Nat, in_subgroup(a)
  PROVE  \A n \in Nat : pow(a, n, Q) \in 0 .. Q - 1 /\ in_subgroup(pow(a, n, Q))
<1> DEFINE S == {n \in Nat : pow(a, n, Q) \in Nat /\ in_subgroup(pow(a, n, Q))}
<1>1. 0 \in S
  BY PowZero, OneInSubgroup
<1>2. ASSUME NEW n \in Nat, n \in S
      PROVE  n + 1 \in S
  <2> DEFINE b == pow(a, n, Q)
  <2>1. b \in Nat /\ in_subgroup(b) /\ pow(a, n + 1, Q) = (b * a) % Q
    BY <1>2, PowNext
  <2> HIDE DEF b
  <2>2. (b * a) % Q \in 0 .. Q - 1 /\ in_subgroup((b * a) % Q)
    BY <2>1, ProductInSubgroup
  <2> QED
    BY <2>1, <2>2
<1> HIDE DEF S
<1>3. \A n \in Nat : n \in S
  BY <1>1, <1>2, AllNumbers
<1>4. \A n \in Nat : pow(a, n, Q) \in 0 .. Q - 1
  BY PowInRange, AlgebraConstants
<1> QED
  BY <1>3, <1>4 DEF S

LEMMA InverseInSubgroup ==
  ASSUME NEW a \in Nat, in_subgroup(a), NEW b \in inverse(a, Q)
  PROVE  b \in 0 .. Q - 1 /\ in_subgroup(b)
<1>1. Q \in Nat \ {0} /\ Q > 1 /\ R \in Nat
  BY AlgebraConstants
<1>2. b \in 1 .. Q - 1 /\ (a * b) % Q = 1
  BY DEF inverse
<1>3. b \in Nat /\ b \in 0 .. Q - 1
  BY <1>1, <1>2
<1>4. pow(1, R, Q) = (pow(a, R, Q) * pow(b, R, Q)) % Q
  BY <1>1, <1>2, <1>3, PowOfProduct
<1>5. pow(1, R, Q) = 1 /\ pow(a, R, Q) = 1
  BY <1>1, PowOfOne DEF in_subgroup
<1> DEFINE c == pow(b, R, Q)
<1>6. c \in 0 .. Q - 1
  BY <1>1, <1>3, PowInRange
<1>7. 1 = (1 * c) % Q
  BY <1>4, <1>5
<1> HIDE DEF c
<1>8. c = 1
  <2>1. 1 * c = c /\ c \in Nat
    BY <1>6
  <2>2. c % Q = c
    BY <1>1, <1>6, Z3
  <2> QED
    BY <1>7, <2>1, <2>2
<1> QED
  BY <1>3, <1>8 DEF c, in_subgroup
-----------------------------------------------------------------------------
(* What a native stores is an element of the structure that Move is told.  *)

AlgebraInv ==
  /\ elements \subseteq [of : Structure, handle : Nat]
  /\ objs = [i \in 1 .. Len(objs) |-> objs[i]] /\ Len(objs) \in Nat
  /\ ElementsMatchTypes

LEMMA OrdersAreModuli ==
  /\ R \in Nat \ {0} /\ R > 1 /\ Q \in Nat \ {0} /\ Q > 1
  /\ \A s : order(s) \in {R, Q} /\ order(s) \in Nat \ {0}
  BY AlgebraConstants DEF order

LEMMA ElementsAreNumbers ==
  ASSUME NEW s
  PROVE  /\ Elements(s) \subseteq Nat
         /\ s.kind # "Gt" => Elements(s) = 0 .. order(s) - 1
         /\ s.kind = "Gt" => Elements(s) = {a \in 0 .. Q - 1 : in_subgroup(a)}
  BY OrdersAreModuli DEF Elements

\* The order of the type that an element is kept as
LEMMA OrderOfType ==
  ASSUME NEW s \in Structure
  PROVE  /\ s.kind = "Gt" => order(typ(s)) = Q
         /\ s.kind # "Gt" => order(typ(s)) = order(s)
  BY DEF typ, of_curve, order, Structure

\* A number modulo the order is an element, except for Gt.
LEMMA ReducedIsElement ==
  ASSUME NEW s, s.kind # "Gt", NEW n \in Nat
  PROVE  n % order(s) \in Elements(s)
  BY Quotient, OrdersAreModuli, ElementsAreNumbers

LEMMA ClosedUnderPlus ==
  ASSUME NEW s \in Structure, NEW a \in Elements(s), NEW b \in Elements(s)
  PROVE  plus(s, a, b) \in Elements(s)
<1>1. a \in Nat /\ b \in Nat
  BY ElementsAreNumbers
<1>2. CASE s.kind = "Gt"
  <2>1. in_subgroup(a) /\ in_subgroup(b)
    BY <1>2, ElementsAreNumbers
  <2>2. plus(s, a, b) = (a * b) % Q
    BY <1>2, OrderOfType DEF plus
  <2> QED
    BY <1>1, <1>2, <2>1, <2>2, ProductInSubgroup, ElementsAreNumbers
<1>3. CASE s.kind # "Gt"
  <2>1. plus(s, a, b) = (a + b) % order(s)
    BY <1>3, OrderOfType DEF plus
  <2>2. a + b \in Nat
    BY <1>1
  <2> QED
    BY <1>3, <2>1, <2>2, ReducedIsElement
<1> QED
  BY <1>2, <1>3

LEMMA ClosedUnderMinus ==
  ASSUME NEW s \in Structure, NEW a \in Elements(s)
  PROVE  minus(s, a) \subseteq Elements(s)
<1>1. a \in Nat
  BY ElementsAreNumbers
<1>2. CASE s.kind = "Gt"
  BY <1>1, <1>2, InverseInSubgroup, ElementsAreNumbers DEF minus
<1>3. CASE s.kind # "Gt"
  <2>1. order(s) - a \in Nat
    BY <1>3, ElementsAreNumbers, OrdersAreModuli
  <2> QED
    BY <1>3, <2>1, ReducedIsElement DEF minus
<1> QED
  BY <1>2, <1>3

LEMMA ClosedUnderTimes ==
  ASSUME NEW s \in Structure, NEW a \in Elements(s), NEW n \in Nat
  PROVE  times(s, a, n) \in Elements(s)
<1>1. a \in Nat
  BY ElementsAreNumbers
<1>2. CASE s.kind = "Gt"
  BY <1>1, <1>2, PowerInSubgroup, ElementsAreNumbers DEF times
<1>3. CASE s.kind # "Gt"
  <2>1. a * n \in Nat
    BY <1>1, Z3
  <2> QED
    BY <1>3, <2>1, ReducedIsElement DEF times
<1> QED
  BY <1>2, <1>3

\* The inverse of an element of a field, and products with it
LEMMA ProductIsElement ==
  ASSUME NEW s, s.kind # "Gt", NEW a \in Nat, NEW b \in Nat
  PROVE  (a * b) % order(s) \in Elements(s)
<1>1. a * b \in Nat
  BY Z3
<1> QED
  BY <1>1, ReducedIsElement

LEMMA InverseIsElement ==
  ASSUME NEW s, s.kind # "Gt", NEW a \in Nat
  PROVE  inverse(a, order(s)) \subseteq Elements(s) /\ inverse(a, order(s)) \subseteq Nat
  BY ElementsAreNumbers, OrdersAreModuli DEF inverse

\* A pairing is a power of the generator.
LEMMA PairIsElement ==
  ASSUME NEW x, NEW y, value(x) \in Nat, value(y) \in Nat
  PROVE  pair(x, y) \in 0 .. Q - 1 /\ in_subgroup(pair(x, y))
<1> DEFINE n == (value(x) * value(y)) % R
<1>1. value(x) * value(y) \in Nat
  BY Z3
<1>2. n \in Nat
  BY <1>1, Quotient, OrdersAreModuli
<1>3. GtGenerator \in Nat /\ in_subgroup(GtGenerator)
  BY AlgebraConstants, GeneratorOfGt
<1>4. pair(x, y) = pow(GtGenerator, n, Q)
  BY DEF pair
<1> HIDE DEF n
<1> QED
  BY <1>2, <1>3, <1>4, PowerInSubgroup

-----------------------------------------------------------------------------
(* The steps.                                                              *)

\* A native whose results are elements of s keeps every handle typed.
LEMMA NativeKeepsTypes ==
  ASSUME AlgebraInv, NEW s \in Structure, NEW kinds, NEW result,
         s.kind \in kinds => result \subseteq Elements(s), native(s, kinds, result)
  PROVE  AlgebraInv'
<1>1. CASE UNCHANGED algebraContext
  BY <1>1 DEF algebraContext, AlgebraInv, ElementsMatchTypes, value
<1>2. ASSUME NEW val \in Elements(s), objs' = Append(objs, [typ |-> typ(s), val |-> val]),
             elements' = elements \cup {[of |-> s, handle |-> Len(objs)]}
      PROVE  AlgebraInv'
  <2> DEFINE entry == [typ |-> typ(s), val |-> val]
             x == [of |-> s, handle |-> Len(objs)]
             n == Len(objs)
  <2>1. n \in Nat /\ objs = [i \in 1 .. n |-> objs[i]]
    BY DEF AlgebraInv
  <2>2. objs' = [i \in 1 .. n + 1 |-> IF i = n + 1 THEN entry ELSE objs[i]]
    BY <1>2, <2>1
  <2>3. Len(objs') = n + 1
    BY <2>1, <2>2
  <2>4. /\ objs'[n + 1] = entry
        /\ \A i \in 1 .. n : objs'[i] = objs[i]
    BY <2>1, <2>2
  <2>5. objs' = [i \in 1 .. Len(objs') |-> objs'[i]]
    BY <2>1, <2>2, <2>3
  <2>6. x \in [of : Structure, handle : Nat]
    BY <2>1
  <2>7. ASSUME NEW y \in elements'
        PROVE  /\ y.handle \in 0 .. Len(objs') - 1
               /\ objs'[y.handle + 1].typ = typ(y.of)
               /\ objs'[y.handle + 1].val \in Elements(y.of)
    <3>1. CASE y \in elements
      <4>1. /\ y.handle \in 0 .. n - 1
            /\ objs[y.handle + 1].typ = typ(y.of)
            /\ objs[y.handle + 1].val \in Elements(y.of)
        BY <3>1 DEF AlgebraInv, ElementsMatchTypes, value
      <4>2. y.handle \in 0 .. (n + 1) - 1 /\ y.handle + 1 \in 1 .. n
        BY <2>1, <4>1
      <4> QED
        BY <2>3, <2>4, <4>1, <4>2
    <3>2. CASE y = x
      <4>1. y.handle = n /\ y.of = s /\ n \in 0 .. (n + 1) - 1
        BY <2>1, <3>2
      <4> QED
        BY <2>3, <2>4, <4>1
    <3> QED
      BY <1>2, <3>1, <3>2
  <2>8. ElementsMatchTypes'
    BY <2>7 DEF ElementsMatchTypes, value
  <2> QED
    BY <1>2, <2>1, <2>3, <2>5, <2>6, <2>8 DEF AlgebraInv
<1> QED
  BY <1>1, <1>2 DEF native, store_element

\* The values of the handles that a native gets
LEMMA ElementIsTyped ==
  ASSUME AlgebraInv, NEW x \in elements
  PROVE  x.of \in Structure /\ value(x) \in Elements(x.of) /\ value(x) \in Nat
  BY ElementsAreNumbers DEF AlgebraInv, ElementsMatchTypes

LEMMA ConstantsKeepTypes ==
  ASSUME AlgebraInv, NEW s \in Structure,
         \/ zero_internal(s) \/ one_internal(s) \/ hash_to_internal(s)
         \/ \E n \in Integer : from_u64_internal(s, n)
         \/ \E format \in formats(s), b \in Bytes : deserialize_internal(s, format, b)
  PROVE  AlgebraInv'
<1>1. 0 \in 0 .. order(s) - 1 /\ (order(s) > 1 => 1 \in 0 .. order(s) - 1) /\ order(s) > 1
  BY OrdersAreModuli
<1>2. /\ (IF s.kind = "Gt" THEN 1 ELSE 0) \in Elements(s)
      /\ (IF s.kind = "Gt" THEN GtGenerator ELSE 1) \in Elements(s)
  <2>1. 1 \in 0 .. Q - 1 /\ GtGenerator \in 0 .. Q - 1
    BY OrdersAreModuli, AlgebraConstants
  <2> QED
    BY <1>1, <2>1, OneInSubgroup, GeneratorOfGt, ElementsAreNumbers
<1>3. CASE zero_internal(s)
  BY <1>2, <1>3, NativeKeepsTypes DEF zero_internal
<1>4. CASE one_internal(s)
  BY <1>2, <1>4, NativeKeepsTypes DEF one_internal
<1>5. CASE hash_to_internal(s)
  BY <1>5, NativeKeepsTypes DEF hash_to_internal
<1>6. ASSUME NEW n \in Integer, from_u64_internal(s, n)
      PROVE  AlgebraInv'
  <2>1. n \in Nat
    BY AlgebraConstants
  <2>2. s.kind \in Fields => n % order(s) \in Elements(s)
    BY <2>1, ReducedIsElement DEF Fields
  <2> QED
    BY <1>6, <2>2, NativeKeepsTypes DEF from_u64_internal
<1>7. ASSUME NEW format, NEW b, deserialize_internal(s, format, b)
      PROVE  AlgebraInv'
  <2>1. deserialize(s, format, b) \subseteq Elements(s)
    BY DEF deserialize
  <2> QED
    BY <1>7, <2>1, NativeKeepsTypes DEF deserialize_internal
<1> QED
  BY <1>3, <1>4, <1>5, <1>6, <1>7

LEMMA UnaryKeepsTypes ==
  ASSUME AlgebraInv, NEW x \in elements,
         neg_internal(x) \/ double_internal(x) \/ sqr_internal(x) \/ inv_internal(x)
  PROVE  AlgebraInv'
<1>1. x.of \in Structure /\ value(x) \in Elements(x.of) /\ value(x) \in Nat
  BY ElementIsTyped
<1>2. CASE neg_internal(x)
  BY <1>1, <1>2, ClosedUnderMinus, NativeKeepsTypes DEF neg_internal
<1>3. CASE double_internal(x)
  BY <1>1, <1>3, ClosedUnderPlus, NativeKeepsTypes DEF double_internal
<1>4. CASE sqr_internal(x)
  <2>1. x.of.kind \in Fields => (value(x) * value(x)) % order(x.of) \in Elements(x.of)
    BY <1>1, ProductIsElement DEF Fields
  <2> QED
    BY <1>1, <1>4, <2>1, NativeKeepsTypes DEF sqr_internal
<1>5. CASE inv_internal(x)
  <2>1. x.of.kind \in Fields => inverse(value(x), order(x.of)) \subseteq Elements(x.of)
    BY <1>1, InverseIsElement DEF Fields
  <2> QED
    BY <1>1, <1>5, <2>1, NativeKeepsTypes DEF inv_internal
<1> QED
  BY <1>2, <1>3, <1>4, <1>5

LEMMA CastsKeepTypes ==
  ASSUME AlgebraInv, NEW x \in elements, downcast_internal(x) \/ upcast_internal(x)
  PROVE  AlgebraInv'
<1>1. /\ x.of \in Structure /\ value(x) \in Elements(x.of) /\ x \in [of : Structure, handle : Nat]
      /\ x.handle \in 0 .. Len(objs) - 1 /\ objs[x.handle + 1].typ = typ(x.of)
  BY DEF AlgebraInv, ElementsMatchTypes
<1>2. SUFFICES ASSUME NEW y, elements' \subseteq elements \cup {y}, y.handle = x.handle,
                      y \in [of : Structure, handle : Nat],
                      typ(y.of) = typ(x.of), value(x) \in Elements(y.of),
                      objs' = objs
               PROVE  AlgebraInv'
  <2>1. CASE downcast_internal(x)
    <3> DEFINE y == [x EXCEPT !.of.kind = "Gt"]
    <3>1. x.of.kind = "Fq12" /\ objs' = objs
      BY <2>1 DEF downcast_internal
    <3>2. /\ y \in [of : Structure, handle : Nat] /\ y.handle = x.handle
          /\ y.of.kind = "Gt" /\ y.of.curve = x.of.curve
      BY <1>1, <3>1 DEF Structure, Groups
    <3>3. typ(y.of) = typ(x.of)
      BY <3>1, <3>2 DEF typ, of_curve
    <3>4. in_subgroup(value(x)) => value(x) \in Elements(y.of)
      BY <1>1, <3>1, <3>2, ElementsAreNumbers DEF order
    <3>a. elements' = elements \cup (IF in_subgroup(value(x)) THEN {y} ELSE {})
      BY <2>1 DEF downcast_internal
    <3> HIDE DEF y
    <3>5. /\ ~in_subgroup(value(x)) => elements' = elements
          /\ in_subgroup(value(x)) => elements' = elements \cup {y}
      BY <3>a, Zenon
    <3>6. CASE in_subgroup(value(x))
      BY <1>2, <3>1, <3>2, <3>3, <3>4, <3>5, <3>6
    <3>7. CASE ~in_subgroup(value(x))
      BY <3>1, <3>5, <3>7 DEF AlgebraInv, ElementsMatchTypes, value
    <3> QED
      BY <3>6, <3>7
  <2>2. CASE upcast_internal(x)
    <3> DEFINE y == [x EXCEPT !.of.kind = "Fq12"]
    <3>1. x.of.kind = "Gt" /\ objs' = objs
      BY <2>2 DEF upcast_internal
    <3>2. /\ y \in [of : Structure, handle : Nat] /\ y.handle = x.handle
          /\ y.of.kind = "Fq12" /\ y.of.curve = x.of.curve
      BY <1>1, <3>1 DEF Structure, Fields
    <3>3. typ(y.of) = typ(x.of)
      BY <3>1, <3>2 DEF typ, of_curve
    <3>4. value(x) \in Elements(y.of)
      BY <1>1, <3>1, <3>2, ElementsAreNumbers DEF order
    <3>5. elements' = elements \cup {y}
      BY <2>2 DEF upcast_internal
    <3> HIDE DEF y
    <3> QED
      BY <1>2, <3>1, <3>2, <3>3, <3>4, <3>5
  <2> QED
    BY <2>1, <2>2
<1>3. ASSUME NEW z \in elements'
      PROVE  /\ z.handle \in 0 .. Len(objs') - 1
             /\ objs'[z.handle + 1].typ = typ(z.of)
             /\ objs'[z.handle + 1].val \in Elements(z.of)
  <2>1. CASE z \in elements
    BY <1>2, <2>1 DEF AlgebraInv, ElementsMatchTypes, value
  <2>2. CASE z = y
    BY <1>1, <1>2, <2>2 DEF value
  <2> QED
    BY <1>2, <2>1, <2>2
<1>4. ElementsMatchTypes'
  BY <1>3 DEF ElementsMatchTypes, value
<1> QED
  BY <1>1, <1>2, <1>4 DEF AlgebraInv

LEMMA BinaryKeepsTypes ==
  ASSUME AlgebraInv, NEW x \in elements, NEW y \in elements,
         \/ add_internal(x, y) \/ sub_internal(x, y)
         \/ mul_internal(x, y) \/ div_internal(x, y)
         \/ scalar_mul_internal(x, y) \/ pairing_internal(x, y)
  PROVE  AlgebraInv'
<1>1. /\ x.of \in Structure /\ value(x) \in Elements(x.of) /\ value(x) \in Nat
      /\ y.of \in Structure /\ value(y) \in Elements(y.of) /\ value(y) \in Nat
  BY ElementIsTyped
<1>2. CASE add_internal(x, y)
  <2>1. plus(x.of, value(x), value(y)) \in Elements(x.of)
    BY <1>1, <1>2, ClosedUnderPlus DEF add_internal
  <2> QED
    BY <1>1, <1>2, <2>1, NativeKeepsTypes DEF add_internal
<1>3. CASE sub_internal(x, y)
  <2>1. minus(x.of, value(y)) \subseteq Elements(x.of)
    BY <1>1, <1>3, ClosedUnderMinus DEF sub_internal
  <2>2. {plus(x.of, value(x), b) : b \in minus(x.of, value(y))} \subseteq Elements(x.of)
    BY <1>1, <2>1, ClosedUnderPlus
  <2> QED
    BY <1>1, <1>3, <2>2, NativeKeepsTypes DEF sub_internal
<1>4. CASE mul_internal(x, y)
  <2>1. x.of.kind \in Fields => (value(x) * value(y)) % order(x.of) \in Elements(x.of)
    BY <1>1, ProductIsElement DEF Fields
  <2> QED
    BY <1>1, <1>4, <2>1, NativeKeepsTypes DEF mul_internal
<1>5. CASE div_internal(x, y)
  <2>1. x.of.kind \in Fields =>
          {(value(x) * b) % order(x.of) : b \in inverse(value(y), order(x.of))}
            \subseteq Elements(x.of)
    BY <1>1, ProductIsElement, InverseIsElement DEF Fields
  <2> QED
    BY <1>1, <1>5, <2>1, NativeKeepsTypes DEF div_internal
<1>6. CASE scalar_mul_internal(x, y)
  BY <1>1, <1>6, ClosedUnderTimes, NativeKeepsTypes DEF scalar_mul_internal
<1>7. CASE pairing_internal(x, y)
  <2> DEFINE s == of_curve(x.of, "Gt")
  <2>1. s \in Structure /\ s.kind = "Gt"
    BY <1>1 DEF of_curve, Structure, Groups
  <2>2. pair(x, y) \in Elements(s)
    BY <1>1, <2>1, PairIsElement, ElementsAreNumbers
  <2>3. native(s, {"Gt"}, {pair(x, y)})
    BY <1>7 DEF pairing_internal
  <2> HIDE DEF s
  <2> QED
    BY <2>1, <2>2, <2>3, NativeKeepsTypes
<1> QED
  BY <1>2, <1>3, <1>4, <1>5, <1>6, <1>7

LEMMA MultiKeepsTypes ==
  ASSUME AlgebraInv, NEW x \in elements, NEW y \in elements, NEW z \in elements, NEW w \in elements,
         multi_scalar_mul_internal(x, y, z, w) \/ multi_pairing_internal(x, y, z, w)
  PROVE  AlgebraInv'
<1>1. /\ x.of \in Structure /\ value(x) \in Elements(x.of) /\ value(x) \in Nat
      /\ y.of \in Structure /\ value(y) \in Elements(y.of) /\ value(y) \in Nat
      /\ z.of \in Structure /\ value(z) \in Elements(z.of) /\ value(z) \in Nat
      /\ w.of \in Structure /\ value(w) \in Elements(w.of) /\ value(w) \in Nat
  BY ElementIsTyped
<1>2. CASE multi_scalar_mul_internal(x, y, z, w)
  <2>1. /\ x.of = z.of
        /\ native(x.of, {"G1", "G2"},
                  {plus(x.of, times(x.of, value(x), value(y)), times(z.of, value(z), value(w)))})
    BY <1>2 DEF multi_scalar_mul_internal
  <2>2. plus(x.of, times(x.of, value(x), value(y)), times(z.of, value(z), value(w)))
          \in Elements(x.of)
    <3>1. /\ times(x.of, value(x), value(y)) \in Elements(x.of)
          /\ times(z.of, value(z), value(w)) \in Elements(x.of)
      BY <1>1, <2>1, ClosedUnderTimes
    <3> QED
      BY <1>1, <3>1, ClosedUnderPlus
  <2> QED
    BY <1>1, <2>1, <2>2, NativeKeepsTypes
<1>3. CASE multi_pairing_internal(x, y, z, w)
  <2> DEFINE s == of_curve(x.of, "Gt")
             result == (pair(x, y) * pair(z, w)) % Q
  <2>1. s \in Structure /\ s.kind = "Gt"
    BY <1>1 DEF of_curve, Structure, Groups
  <2>2. /\ pair(x, y) \in Nat /\ in_subgroup(pair(x, y))
        /\ pair(z, w) \in Nat /\ in_subgroup(pair(z, w))
    BY <1>1, PairIsElement
  <2>3. result \in Elements(s)
    BY <2>1, <2>2, ProductInSubgroup, ElementsAreNumbers
  <2>4. native(s, {"Gt"}, {result})
    BY <1>3 DEF multi_pairing_internal
  <2> HIDE DEF s, result
  <2> QED
    BY <2>1, <2>3, <2>4, NativeKeepsTypes
<1> QED
  BY <1>2, <1>3

LEMMA AlgebraInitially == AlgebraInit => AlgebraInv
  BY DEF AlgebraInit, AlgebraInv, ElementsMatchTypes

LEMMA StepKeepsTypes == AlgebraInv /\ [AlgebraNext]_algebraVars => AlgebraInv'
<1> SUFFICES ASSUME AlgebraInv, [AlgebraNext]_algebraVars PROVE AlgebraInv'
  OBVIOUS
<1>1. ASSUME objs' = <<>>, elements' = {}
      PROVE  AlgebraInv'
  BY <1>1 DEF AlgebraInv, ElementsMatchTypes
<1>2. ASSUME NEW hash, start_algebra(hash)
      PROVE  AlgebraInv'
  BY <1>1, <1>2 DEF start_algebra
<1>3. CASE end_algebra
  BY <1>1, <1>3 DEF end_algebra
<1>4. CASE AlgebraCall
  <2>1. ASSUME NEW s \in Structure,
               \/ zero_internal(s) \/ one_internal(s) \/ hash_to_internal(s)
               \/ \E n \in Integer : from_u64_internal(s, n)
               \/ \E format \in formats(s), b \in Bytes : deserialize_internal(s, format, b)
        PROVE  AlgebraInv'
    BY <2>1, ConstantsKeepTypes
  <2>2. ASSUME NEW x \in elements,
               neg_internal(x) \/ double_internal(x) \/ sqr_internal(x) \/ inv_internal(x)
        PROVE  AlgebraInv'
    BY <2>2, UnaryKeepsTypes
  <2>3. ASSUME NEW x \in elements, downcast_internal(x) \/ upcast_internal(x)
        PROVE  AlgebraInv'
    BY <2>3, CastsKeepTypes
  <2>4. ASSUME NEW x \in elements, NEW y \in elements,
               \/ add_internal(x, y) \/ sub_internal(x, y)
               \/ mul_internal(x, y) \/ div_internal(x, y)
               \/ scalar_mul_internal(x, y) \/ pairing_internal(x, y)
        PROVE  AlgebraInv'
    BY <2>4, BinaryKeepsTypes
  <2>5. ASSUME NEW x \in elements, NEW y \in elements, NEW z \in elements, NEW w \in elements,
               multi_scalar_mul_internal(x, y, z, w) \/ multi_pairing_internal(x, y, z, w)
        PROVE  AlgebraInv'
    BY <2>5, MultiKeepsTypes
  <2>6. CASE abort_native
    BY <2>6 DEF abort_native, algebraContext, AlgebraInv, ElementsMatchTypes, value
  <2> QED
    BY <1>4, <2>1, <2>2, <2>3, <2>4, <2>5, <2>6 DEF AlgebraCall
<1>5. CASE UNCHANGED algebraVars
  BY <1>5 DEF algebraVars, algebraContext, AlgebraInv, ElementsMatchTypes, value
<1> QED
  BY <1>2, <1>3, <1>4, <1>5 DEF AlgebraNext

\* Whatever natives of crypto_algebra a session calls, in any order and number:
\* every handle that Move has stands for an element of the Rust type and, for Gt,
\* of the subgroup of its structure (ElementsMatchTypes).
THEOREM HandlesAreElements == AlgebraSpec => []ElementsMatchTypes
<1>1. AlgebraInv => ElementsMatchTypes
  BY DEF AlgebraInv
<1> QED
  BY <1>1, AlgebraInitially, StepKeepsTypes, PTL DEF AlgebraSpec
-----------------------------------------------------------------------------
(* Stages.                                                                 *)

Stages(s) == \E S : s \in Seq(S)

LEMMA OneStage ==
  ASSUME NEW work, NEW ok \in BOOLEAN
  PROVE  Stages(stage(work, ok)) /\ (accepts(stage(work, ok)) <=> ok)
<1>1. stage(work, ok) \in Seq({outcome(work, ok)})
  BY DEF stage
<1>2. DOMAIN stage(work, ok) = {1} /\ stage(work, ok)[1].ok = ok
  BY DEF stage, outcome
<1> QED
  BY <1>1, <1>2 DEF Stages, accepts

LEMMA NoStage == Stages(<<>>) /\ accepts(<<>>)
<1>1. <<>> \in Seq({})
  OBVIOUS
<1> QED
  BY <1>1 DEF Stages, accepts

\* A sequence of stages accepts when each part of it does.
LEMMA MoreStages ==
  ASSUME NEW s, NEW t, Stages(s), Stages(t)
  PROVE  Stages(s \o t) /\ (accepts(s \o t) <=> accepts(s) /\ accepts(t))
<1>1. PICK S : s \in Seq(S)
  BY DEF Stages
<1>2. PICK T : t \in Seq(T)
  BY DEF Stages
<1>3. s \in Seq(S \cup T) /\ t \in Seq(S \cup T)
  BY <1>1, <1>2
<1>4. s \o t \in Seq(S \cup T)
  BY <1>3
<1>5. /\ Len(s) \in Nat /\ Len(t) \in Nat
      /\ DOMAIN s = 1 .. Len(s) /\ DOMAIN t = 1 .. Len(t) /\ DOMAIN (s \o t) = 1 .. Len(s) + Len(t)
      /\ \A i \in 1 .. Len(s) : (s \o t)[i] = s[i]
      /\ \A i \in 1 .. Len(t) : (s \o t)[Len(s) + i] = t[i]
  BY <1>3
<1>6. \A i \in 1 .. Len(s) + Len(t) : i \in 1 .. Len(s) \/ \E j \in 1 .. Len(t) : i = Len(s) + j
  <2> SUFFICES ASSUME NEW i \in 1 .. Len(s) + Len(t), ~(i \in 1 .. Len(s))
               PROVE  \E j \in 1 .. Len(t) : i = Len(s) + j
    OBVIOUS
  <2>1. i - Len(s) \in 1 .. Len(t) /\ i = Len(s) + (i - Len(s))
    BY <1>5
  <2> QED
    BY <2>1
<1>7. ASSUME accepts(s), accepts(t)
      PROVE  accepts(s \o t)
  BY <1>5, <1>6, <1>7 DEF accepts
<1>8. ASSUME accepts(s \o t)
      PROVE  accepts(s) /\ accepts(t)
  <2>1. /\ \A i \in 1 .. Len(s) : i \in 1 .. Len(s) + Len(t)
        /\ \A j \in 1 .. Len(t) : Len(s) + j \in 1 .. Len(s) + Len(t)
    BY <1>5
  <2> QED
    BY <1>5, <1>8, <2>1 DEF accepts
<1> QED
  BY <1>4, <1>7, <1>8 DEF Stages

\* A stage for each member of a list
LEMMA StagesOfList ==
  ASSUME NEW n \in Nat, NEW work, NEW oks, oks \in [1 .. n -> BOOLEAN],
         NEW stages, stages = [i \in 1 .. n |-> outcome(work, oks[i])]
  PROVE  Stages(stages) /\ (accepts(stages) <=> \A i \in 1 .. n : oks[i])
<1> DEFINE S == {outcome(work, b) : b \in BOOLEAN}
<1>1. \A i \in 1 .. n : oks[i] \in BOOLEAN /\ outcome(work, oks[i]) \in S
  OBVIOUS
<1> HIDE DEF S
<1>2. stages \in Seq(S)
  BY <1>1
<1>3. DOMAIN stages = 1 .. n /\ \A i \in 1 .. n : stages[i].ok = oks[i]
  BY DEF outcome
<1> QED
  BY <1>2, <1>3 DEF Stages, accepts

-----------------------------------------------------------------------------
(* Sums of points.                                                         *)

Valid == {pk \in CurvePoint : pk_subgroup_check(pk)}

Sums(sum, list) ==
  sum = [i \in 0 .. Len(list) |->
           IF i = 0 THEN <<0, 0>>
           ELSE <<(sum[i - 1][1] + list[i][1]) % SubgroupOrder, (sum[i - 1][2] + list[i][2]) % Cofactor>>]

LEMMA SumsExist ==
  ASSUME NEW list, Len(list) \in Nat
  PROVE  \E sum : Sums(sum, list)
<1> DEFINE after(p, i) == <<(p[1] + list[i][1]) % SubgroupOrder, (p[2] + list[i][2]) % Cofactor>>
           start == <<0, 0>>
           S == {k \in Nat : \E sum : sum = [i \in 0 .. k |->
                                               IF i = 0 THEN start ELSE after(sum[i - 1], i)]}
<1> HIDE DEF after, start
<1>1. 0 \in S
  <2> DEFINE sum == [i \in 0 .. 0 |-> start]
  <2>1. \A i \in 0 .. 0 : i = 0
    OBVIOUS
  <2>2. sum = [i \in 0 .. 0 |-> IF i = 0 THEN start ELSE after(sum[i - 1], i)]
    BY <2>1
  <2> QED
    BY <2>2
<1>2. ASSUME NEW k \in Nat, k \in S
      PROVE  k + 1 \in S
  <2>1. PICK sum : sum = [i \in 0 .. k |-> IF i = 0 THEN start ELSE after(sum[i - 1], i)]
    BY <1>2
  <2> DEFINE longer == [i \in 0 .. k + 1 |-> IF i = k + 1 THEN after(sum[k], i) ELSE sum[i]]
  <2>2. ASSUME NEW i \in 0 .. k + 1
        PROVE  longer[i] = IF i = 0 THEN start ELSE after(longer[i - 1], i)
    <3>1. CASE i = k + 1
      <4>1. i - 1 = k /\ k \in 0 .. k + 1 /\ k # k + 1 /\ i # 0
        BY <3>1
      <4> QED
        BY <3>1, <4>1
    <3>2. CASE i # k + 1
      <4>1. i \in 0 .. k
        BY <3>2
      <4>2. sum[i] = IF i = 0 THEN start ELSE after(sum[i - 1], i)
        BY <2>1, <4>1
      <4>3. i # 0 => i - 1 \in 0 .. k + 1 /\ i - 1 # k + 1
        BY <4>1
      <4> QED
        BY <3>2, <4>1, <4>2, <4>3
    <3> QED
      BY <3>1, <3>2
  <2>3. longer = [i \in 0 .. k + 1 |-> longer[i]]
    OBVIOUS
  <2> HIDE DEF longer
  <2>4. longer = [i \in 0 .. k + 1 |-> IF i = 0 THEN start ELSE after(longer[i - 1], i)]
    BY <2>2, <2>3
  <2> QED
    BY <2>4
<1> HIDE DEF S
<1>3. \A k \in Nat : k \in S
  BY <1>1, <1>2, AllNumbers
<1>4. \E sum : sum = [i \in 0 .. Len(list) |-> IF i = 0 THEN start ELSE after(sum[i - 1], i)]
  BY <1>3 DEF S
<1> QED
  BY <1>4 DEF Sums, after, start

LEMMA SumIsLast ==
  ASSUME NEW list, Len(list) \in Nat
  PROVE  \E sum : /\ curve_sum(list) = sum[Len(list)]
                  /\ sum[0] = <<0, 0>>
                  /\ \A k \in 0 .. Len(list) - 1 :
                       sum[k + 1] = <<(sum[k][1] + list[k + 1][1]) % SubgroupOrder,
                                      (sum[k][2] + list[k + 1][2]) % Cofactor>>
<1> DEFINE sum == CHOOSE sum : Sums(sum, list)
<1>1. curve_sum(list) = sum[Len(list)]
  BY DEF curve_sum, Sums
<1>2. Sums(sum, list)
  BY SumsExist
<1> HIDE DEF sum
<1>3. sum[0] = <<0, 0>>
  BY <1>2 DEF Sums
<1>4. ASSUME NEW k \in 0 .. Len(list) - 1
      PROVE  sum[k + 1] = <<(sum[k][1] + list[k + 1][1]) % SubgroupOrder,
                            (sum[k][2] + list[k + 1][2]) % Cofactor>>
  <2>1. k + 1 \in 0 .. Len(list) /\ k + 1 # 0 /\ (k + 1) - 1 = k
    OBVIOUS
  <2> QED
    BY <1>2, <2>1 DEF Sums
<1> QED
  BY <1>1, <1>3, <1>4

\* Induction up to a bound
LEMMA NumbersUpTo ==
  ASSUME NEW n \in Nat, NEW S, 0 \in S, \A k \in 0 .. n - 1 : k \in S => k + 1 \in S
  PROVE  n \in S
<1> DEFINE T == {k \in Nat : k <= n => k \in S}
<1>1. 0 \in T
  OBVIOUS
<1>2. ASSUME NEW k \in Nat, k \in T
      PROVE  k + 1 \in T
  <2>1. ASSUME k + 1 <= n
        PROVE  k + 1 \in S
    <3>1. k \in 0 .. n - 1 /\ k <= n
      BY <2>1
    <3> QED
      BY <1>2, <3>1
  <2> QED
    BY <2>1
<1> HIDE DEF T
<1>3. \A k \in Nat : k \in T
  BY <1>1, <1>2, AllNumbers
<1> QED
  BY <1>3 DEF T

\* Points add up to a point, and those of the subgroup to one of the subgroup.
LEMMA SumIsPoint ==
  ASSUME NEW list \in Seq(CurvePoint)
  PROVE  /\ curve_sum(list) \in CurvePoint
         /\ (\A i \in DOMAIN list : list[i][2] = 0) => curve_sum(list)[2] = 0
<1>1. /\ Len(list) \in Nat /\ DOMAIN list = 1 .. Len(list)
      /\ \A i \in 1 .. Len(list) : list[i] \in CurvePoint
  OBVIOUS
<1>2. /\ SubgroupOrder \in Nat \ {0} /\ Cofactor \in Nat \ {0}
      /\ <<0, 0>> \in CurvePoint
      /\ \A p \in CurvePoint : p[1] \in Nat /\ p[2] \in Nat /\ p = <<p[1], p[2]>>
  BY SignatureConstants DEF CurvePoint
<1>3. PICK sum : /\ curve_sum(list) = sum[Len(list)]
                 /\ sum[0] = <<0, 0>>
                 /\ \A k \in 0 .. Len(list) - 1 :
                      sum[k + 1] = <<(sum[k][1] + list[k + 1][1]) % SubgroupOrder,
                                     (sum[k][2] + list[k + 1][2]) % Cofactor>>
  BY <1>1, SumIsLast
<1> DEFINE P == \A i \in DOMAIN list : list[i][2] = 0
           S == {k \in 0 .. Len(list) : sum[k] \in CurvePoint /\ (P => sum[k][2] = 0)}
<1> HIDE DEF P
<1>4. 0 \in S
  BY <1>1, <1>2, <1>3
<1>5. ASSUME NEW k \in 0 .. Len(list) - 1, k \in S
      PROVE  k + 1 \in S
  <2> DEFINE p == sum[k]
             q == list[k + 1]
             x == p[1] + q[1]
             y == p[2] + q[2]
  <2>1. p \in CurvePoint /\ q \in CurvePoint /\ (P => p[2] = 0) /\ (P => q[2] = 0)
        /\ k + 1 \in 0 .. Len(list)
    <3>1. k + 1 \in 1 .. Len(list) /\ k + 1 \in 0 .. Len(list)
      BY <1>1
    <3> QED
      BY <1>1, <1>5, <3>1 DEF P
  <2>3. sum[k + 1] = <<x % SubgroupOrder, y % Cofactor>>
    BY <1>3
  <2> HIDE DEF p, q
  <2>2. x \in Nat /\ y \in Nat /\ (P => y = 0)
    <3>1. p[1] \in Nat /\ p[2] \in Nat /\ q[1] \in Nat /\ q[2] \in Nat
      BY <1>2, <2>1
    <3> QED
      BY <2>1, <3>1
  <2> HIDE DEF x, y
  <2>4. x % SubgroupOrder \in 0 .. SubgroupOrder - 1 /\ y % Cofactor \in 0 .. Cofactor - 1
    BY <1>2, <2>2, Quotient
  <2>5. P => y % Cofactor = 0
    BY <1>2, <2>2, Z3
  <2>6. sum[k + 1] \in CurvePoint /\ sum[k + 1][2] = y % Cofactor
    BY <2>3, <2>4 DEF CurvePoint
  <2> QED
    BY <2>1, <2>5, <2>6 DEF S
<1> HIDE DEF S
<1>6. Len(list) \in S
  BY <1>1, <1>4, <1>5, NumbersUpTo
<1> QED
  BY <1>3, <1>6 DEF S, P

\* What keys sign of one message adds up to what their sum signs.
LEMMA SumSigns ==
  ASSUME NEW list \in Seq(Valid), NEW message \in Message,
         NEW signed, signed = [i \in DOMAIN list |-> sign(list[i], message)]
  PROVE  curve_sum(signed) = sign(curve_sum(list), message)
<1> DEFINE n == Len(list)
           N == SubgroupOrder
<1>1. /\ n \in Nat /\ DOMAIN list = 1 .. n /\ Len(signed) = n
      /\ \A i \in 1 .. n : list[i] \in CurvePoint /\ list[i][2] = 0
      /\ \A i \in 1 .. n : signed[i] = <<(list[i][1] * message) % N, 0>>
  BY DEF Valid, pk_subgroup_check, sign
<1>2. /\ N \in Nat \ {0} /\ Cofactor \in Nat \ {0} /\ message \in Nat
      /\ \A p \in CurvePoint : p[1] \in 0 .. N - 1 /\ p[1] \in Nat
  BY SignatureConstants DEF CurvePoint
<1>3. PICK sum : /\ curve_sum(list) = sum[n]
                 /\ sum[0] = <<0, 0>>
                 /\ \A k \in 0 .. n - 1 :
                      sum[k + 1] = <<(sum[k][1] + list[k + 1][1]) % N,
                                     (sum[k][2] + list[k + 1][2]) % Cofactor>>
  BY <1>1, SumIsLast
<1>4. PICK total : /\ curve_sum(signed) = total[n]
                   /\ total[0] = <<0, 0>>
                   /\ \A k \in 0 .. n - 1 :
                        total[k + 1] = <<(total[k][1] + signed[k + 1][1]) % N,
                                         (total[k][2] + signed[k + 1][2]) % Cofactor>>
  <2>1. Len(signed) \in Nat /\ Len(signed) = n
    BY <1>1
  <2>2. \E total : /\ curve_sum(signed) = total[Len(signed)]
                   /\ total[0] = <<0, 0>>
                   /\ \A k \in 0 .. Len(signed) - 1 :
                        total[k + 1] = <<(total[k][1] + signed[k + 1][1]) % SubgroupOrder,
                                         (total[k][2] + signed[k + 1][2]) % Cofactor>>
    BY ONLY <2>1, SumIsLast
  <2> HIDE DEF n
  <2> QED
    BY <2>1, <2>2
<1> DEFINE S == {k \in 0 .. n : sum[k][1] \in Nat /\ total[k] = <<(sum[k][1] * message) % N, 0>>}
<1> HIDE DEF n, N
<1>5. 0 \in S
  <2>1. 0 * message = 0 /\ 0 % N = 0
    BY <1>2, Z3
  <2> QED
    BY <1>1, <1>3, <1>4, <2>1
<1>6. ASSUME NEW k \in 0 .. n - 1, k \in S
      PROVE  k + 1 \in S
  <2> DEFINE a == sum[k][1]
             b == list[k + 1][1]
             m == message
  <2>1. k + 1 \in 1 .. n /\ k + 1 \in 0 .. n
    BY <1>1
  <2>2. a \in Nat /\ b \in Nat /\ m \in Nat /\ total[k] = <<(a * m) % N, 0>>
    BY <1>1, <1>2, <1>6, <2>1
  <2>3. sum[k + 1][1] = (a + b) % N
    BY <1>3
  <2>4. total[k + 1] = <<(((a * m) % N) + ((b * m) % N)) % N, (0 + 0) % Cofactor>>
    <3>1. total[k][1] = (a * m) % N /\ total[k][2] = 0
      BY <2>2
    <3>2. signed[k + 1][1] = (b * m) % N /\ signed[k + 1][2] = 0
      BY <1>1, <2>1
    <3>3. total[k + 1] = <<(total[k][1] + signed[k + 1][1]) % N, (total[k][2] + signed[k + 1][2]) % Cofactor>>
      BY <1>4
    <3> HIDE DEF a, b, m
    <3> QED
      BY <3>1, <3>2, <3>3
  <2> HIDE DEF a, b, m
  <2>5. (0 + 0) % Cofactor = 0
    BY <1>2, Z3
  <2>6. (((a * m) % N) + ((b * m) % N)) % N = (((a + b) % N) * m) % N
    <3>1. Total(N, Product(N, a, m), Product(N, b, m)) = Product(N, Total(N, a, b), m)
      BY <1>2, <2>2, SumTimes
    <3> QED
      BY <3>1 DEF Total, Product
  <2>7. (a + b) % N \in Nat
    <3>1. a + b \in Nat
      BY <2>2
    <3> QED
      BY <1>2, <3>1, Quotient
  <2> QED
    BY <2>1, <2>3, <2>4, <2>5, <2>6, <2>7 DEF m, S
<1> HIDE DEF S
<1>7. n \in S
  BY <1>1, <1>5, <1>6, NumbersUpTo
<1> QED
  BY <1>3, <1>4, <1>7 DEF S, sign, N
-----------------------------------------------------------------------------
(* What the natives accept.                                                *)

LEMMA SignedIsPoint ==
  ASSUME NEW pk \in CurvePoint, NEW message \in Message
  PROVE  sign(pk, message) \in CurvePoint /\ sign(pk, message)[2] = 0
<1>1. SubgroupOrder \in Nat \ {0} /\ Cofactor \in Nat \ {0} /\ message \in Nat /\ pk[1] \in Nat
  BY SignatureConstants DEF CurvePoint
<1>2. pk[1] * message \in Nat
  BY <1>1, Z3
<1>3. (pk[1] * message) % SubgroupOrder \in 0 .. SubgroupOrder - 1
  BY <1>1, <1>2, Quotient
<1> QED
  BY <1>1, <1>3 DEF sign, CurvePoint

LEMMA SumOfOne ==
  ASSUME NEW p \in CurvePoint
  PROVE  curve_sum(<<p>>) = p
<1>1. /\ SubgroupOrder \in Nat \ {0} /\ Cofactor \in Nat \ {0}
      /\ p[1] \in 0 .. SubgroupOrder - 1 /\ p[2] \in 0 .. Cofactor - 1 /\ p = <<p[1], p[2]>>
  BY SignatureConstants DEF CurvePoint
<1> DEFINE list == <<p>>
<1>2. Len(list) = 1 /\ list[0 + 1] = p /\ Len(list) \in Nat
  OBVIOUS
<1> HIDE DEF list
<1>3. PICK sum : /\ curve_sum(list) = sum[Len(list)]
                 /\ sum[0] = <<0, 0>>
                 /\ \A k \in 0 .. Len(list) - 1 :
                      sum[k + 1] = <<(sum[k][1] + list[k + 1][1]) % SubgroupOrder,
                                     (sum[k][2] + list[k + 1][2]) % Cofactor>>
  BY ONLY <1>2, SumIsLast
<1>4. sum[0 + 1] = <<(0 + p[1]) % SubgroupOrder, (0 + p[2]) % Cofactor>>
  <2>1. 0 \in 0 .. Len(list) - 1 /\ sum[0][1] = 0 /\ sum[0][2] = 0
    BY <1>2, <1>3
  <2>2. sum[0 + 1] = <<(sum[0][1] + list[0 + 1][1]) % SubgroupOrder,
                       (sum[0][2] + list[0 + 1][2]) % Cofactor>>
    BY <1>3, <2>1
  <2> QED
    BY <1>2, <2>1, <2>2
<1>5. (0 + p[1]) % SubgroupOrder = p[1] /\ (0 + p[2]) % Cofactor = p[2]
  <2>1. 0 + p[1] = p[1] /\ 0 + p[2] = p[2]
    BY <1>1
  <2>2. p[1] % SubgroupOrder = p[1] /\ p[2] % Cofactor = p[2]
    BY <1>1, Z3
  <2> QED
    BY <2>1, <2>2
<1>6. curve_sum(list) = sum[0 + 1]
  BY <1>2, <1>3
<1> QED
  BY <1>1, <1>4, <1>5, <1>6 DEF list

\* A pairing with one key
LEMMA OnePairing ==
  ASSUME NEW sig, NEW pk, NEW message \in Message
  PROVE  pairings_match(sig, <<pk>>, <<message>>) <=>
           pk \in CurvePoint /\ pk # <<0, 0>> /\ sig = sign(pk, message)
<1>1. CASE pk \notin CurvePoint
  BY <1>1 DEF pairings_match, is_curve_point
<1>2. CASE pk \in CurvePoint
  <2> DEFINE signed == [i \in DOMAIN <<pk>> |-> sign(<<pk>>[i], <<message>>[i])]
  <2>1. signed = <<sign(pk, message)>>
    OBVIOUS
  <2>2. sign(pk, message) \in CurvePoint /\ sign(pk, message)[2] = 0
    BY <1>2, SignedIsPoint
  <2>3. curve_sum(signed) = sign(pk, message)
    BY <2>1, <2>2, SumOfOne
  <2> HIDE DEF signed
  <2>4. pairings_match(sig, <<pk>>, <<message>>) <=>
          sig_subgroup_check(sig) /\ pk # <<0, 0>> /\ sig = curve_sum(signed)
    <3>1. <<pk>> # <<>> /\ DOMAIN <<pk>> = {1} /\ <<pk>>[1] = pk
      OBVIOUS
    <3> QED
      BY <1>2, <3>1 DEF pairings_match, is_curve_point, signed
  <2>5. sig = sign(pk, message) => sig_subgroup_check(sig)
    BY <2>2 DEF sig_subgroup_check, is_curve_point
  <2> QED
    BY <1>2, <2>3, <2>4, <2>5
<1> QED
  BY <1>1, <1>2

LEMMA VerifyAccepts ==
  ASSUME NEW sig, NEW pk, NEW message \in Message, NEW check \in BOOLEAN
  PROVE  accepts(bls12381_verify_signature_helper(sig, pk, message, check)) <=>
           /\ pk \in CurvePoint /\ pk # <<0, 0>> /\ sig = sign(pk, message)
           /\ check => pk_subgroup_check(pk)
<1> DEFINE a == stage("base", TRUE)
           b == bls12381_deserialize_pk(pk)
           c == IF check THEN bls12381_pk_subgroub_check(pk) ELSE <<>>
           d == bls12381_deserialize_sig(sig)
           e == signature_verify(sig, pk, message)
<1>1. Stages(a) /\ accepts(a)
  BY OneStage
<1>2. Stages(b) /\ (accepts(b) <=> pk \in CurvePoint)
  <2>1. is_curve_point(pk) \in BOOLEAN
    BY DEF is_curve_point
  <2> QED
    BY <2>1, OneStage DEF bls12381_deserialize_pk, is_curve_point
<1>3. Stages(c) /\ (accepts(c) <=> (check => pk_subgroup_check(pk)))
  <2> DEFINE s == bls12381_pk_subgroub_check(pk)
             ok == pk_subgroup_check(pk)
             o == [work |-> "pubkey_subgroup_check", price |-> "pubkey_deserialize", ok |-> ok]
  <2>1. s = <<o>> /\ s \in Seq({o}) /\ DOMAIN s = {1}
    BY DEF bls12381_pk_subgroub_check
  <2>2. s[1].ok = ok
    BY DEF bls12381_pk_subgroub_check
  <2> HIDE DEF s, o, ok
  <2>3. Stages(s) /\ (accepts(s) <=> ok)
    BY <2>1, <2>2 DEF Stages, accepts
  <2>4. CASE check
    BY <2>3, <2>4 DEF s, ok
  <2>5. CASE ~check
    BY <2>5, NoStage
  <2> QED
    BY <2>4, <2>5
<1>4. Stages(d) /\ (accepts(d) <=> sig \in CurvePoint)
  <2>1. is_curve_point(sig) \in BOOLEAN
    BY DEF is_curve_point
  <2> QED
    BY <2>1, OneStage DEF bls12381_deserialize_sig, is_curve_point
<1>5. Stages(e) /\ (accepts(e) <=> pairings_match(sig, <<pk>>, <<message>>))
  <2>1. pairings_match(sig, <<pk>>, <<message>>) \in BOOLEAN
    BY DEF pairings_match
  <2> QED
    BY <2>1, OneStage DEF signature_verify
<1>6. bls12381_verify_signature_helper(sig, pk, message, check) = a \o b \o c \o d \o e
  BY DEF bls12381_verify_signature_helper
<1> HIDE DEF a, b, c, d, e
<1>7. accepts(a \o b \o c \o d \o e) <=> accepts(a) /\ accepts(b) /\ accepts(c) /\ accepts(d) /\ accepts(e)
  <2>1. Stages(a \o b) /\ (accepts(a \o b) <=> accepts(a) /\ accepts(b))
    BY <1>1, <1>2, MoreStages
  <2>2. Stages(a \o b \o c) /\ (accepts(a \o b \o c) <=> accepts(a \o b) /\ accepts(c))
    BY <1>3, <2>1, MoreStages
  <2>3. /\ Stages(a \o b \o c \o d)
        /\ accepts(a \o b \o c \o d) <=> accepts(a \o b \o c) /\ accepts(d)
    BY <1>4, <2>2, MoreStages
  <2>4. accepts(a \o b \o c \o d \o e) <=> accepts(a \o b \o c \o d) /\ accepts(e)
    BY <1>5, <2>3, MoreStages
  <2> QED
    BY <2>1, <2>2, <2>3, <2>4
<1>8. pk \in CurvePoint => sign(pk, message) \in CurvePoint
  BY SignedIsPoint
<1> QED
  BY <1>1, <1>2, <1>3, <1>4, <1>5, <1>6, <1>7, <1>8, OnePairing

LEMMA ValidKeySigns ==
  ASSUME NEW pk \in Valid
  PROVE  KeySigns(pk)
<1>1. pk \in CurvePoint /\ pk # <<0, 0>> /\ pk_subgroup_check(pk)
  BY DEF Valid, pk_subgroup_check
<1> SUFFICES ASSUME NEW sig \in CurveBytes, NEW message \in Message
             PROVE  /\ accepts(native_bls12381_verify_normal_signature(sig, pk, message))
                          <=> sig = sign(pk, message)
                    /\ accepts(native_bls12381_verify_signature_share(sig, pk, message))
                          <=> sig = sign(pk, message)
  BY <1>1 DEF KeySigns
<1> QED
  BY <1>1, VerifyAccepts DEF native_bls12381_verify_normal_signature, native_bls12381_verify_signature_share

LEMMA ValidKeysSign ==
  ASSUME NEW aggregate, aggregate.of \in Seq(Valid), aggregate.of # <<>>,
         aggregate.bytes = curve_sum(aggregate.of)
  PROVE  KeysSign(aggregate)
<1> DEFINE pks == aggregate.of
           n == Len(pks)
<1>1. /\ n \in Nat /\ DOMAIN pks = 1 .. n /\ n > 0
      /\ \A i \in 1 .. n : pks[i] \in CurvePoint /\ pks[i][2] = 0 /\ pks[i] # <<0, 0>>
      /\ pks \in Seq(CurvePoint)
  BY DEF Valid, pk_subgroup_check
<1> SUFFICES ASSUME NEW sig \in CurveBytes, NEW messages \in [DOMAIN pks -> Message],
                    NEW total, total = curve_sum([i \in DOMAIN messages |-> sign(pks[i], messages[i])])
             PROVE  /\ accepts(native_bls12381_verify_aggregate_signature(sig, pks, messages))
                         <=> sig = total
                    /\ (\A i \in DOMAIN messages : messages[i] = messages[1]) =>
                         (accepts(native_bls12381_verify_multisignature(sig, aggregate.bytes, messages[1]))
                            <=> aggregate.bytes # <<0, 0>> /\ sig = total)
  BY DEF KeysSign
<1> HIDE DEF pks, n
<1>2. DOMAIN messages = 1 .. n /\ Len(messages) = n /\ 1 \in 1 .. n /\ messages[1] \in Message
  BY <1>1
<1> DEFINE signed == [i \in DOMAIN pks |-> sign(pks[i], messages[i])]
<1>3. total = curve_sum(signed)
  BY <1>1, <1>2
<1>4. total \in CurvePoint /\ total[2] = 0
  <2>1. \A i \in 1 .. n : signed[i] \in CurvePoint /\ signed[i][2] = 0
    BY <1>1, <1>2, SignedIsPoint
  <2>2. signed \in Seq(CurvePoint) /\ DOMAIN signed = 1 .. n
    BY <1>1, <2>1
  <2> HIDE DEF signed
  <2> QED
    BY <1>3, <2>1, <2>2, SumIsPoint
<1>5. accepts(native_bls12381_verify_aggregate_signature(sig, pks, messages)) <=> sig = total
  <2> DEFINE a == stage("base", Len(pks) = Len(messages))
             b == bls12381_deserialize_pks(pks)
             c == bls12381_deserialize_sig(sig)
             match == pairings_match(sig, pks, messages)
             d == stage("pairing", Len(pks) = Len(messages) /\ match)
  <2>1. Stages(a) /\ accepts(a)
    BY <1>2, OneStage DEF n
  <2>2. Stages(b) /\ accepts(b)
    <3> DEFINE oks == [i \in 1 .. n |-> is_curve_point(pks[i])]
    <3>1. oks \in [1 .. n -> BOOLEAN] /\ \A i \in 1 .. n : oks[i]
      BY <1>1 DEF is_curve_point
    <3>2. b = [i \in 1 .. n |-> outcome("pubkey_deserialize", oks[i])]
      BY <1>1 DEF bls12381_deserialize_pks
    <3>3. n \in Nat
      BY <1>1
    <3> HIDE DEF oks, b
    <3> QED
      BY ONLY <3>1, <3>2, <3>3, StagesOfList
  <2>3. Stages(c) /\ (accepts(c) <=> sig \in CurvePoint)
    <3>1. is_curve_point(sig) \in BOOLEAN
      BY DEF is_curve_point
    <3> QED
      BY <3>1, OneStage DEF bls12381_deserialize_sig, is_curve_point
  <2>4. match <=> sig = total
    <3>1. match <=> sig_subgroup_check(sig) /\ sig = total
      BY <1>1, <1>3 DEF pairings_match, is_curve_point
    <3>2. sig = total => sig_subgroup_check(sig)
      BY <1>4 DEF sig_subgroup_check, is_curve_point
    <3> QED
      BY <3>1, <3>2
  <2>5. Stages(d) /\ (accepts(d) <=> sig = total)
    <3> DEFINE ok == Len(pks) = Len(messages) /\ match
    <3>1. ok <=> sig = total
      BY <1>2, <2>4 DEF n
    <3>2. ok \in BOOLEAN
      OBVIOUS
    <3>3. d = stage("pairing", ok)
      OBVIOUS
    <3> HIDE DEF ok, d
    <3> QED
      BY <3>1, <3>2, <3>3, OneStage
  <2>6. native_bls12381_verify_aggregate_signature(sig, pks, messages) = a \o b \o c \o d
    BY DEF native_bls12381_verify_aggregate_signature
  <2> HIDE DEF a, b, c, d, match
  <2>7. Stages(a \o b) /\ accepts(a \o b)
    BY <2>1, <2>2, MoreStages
  <2>8. Stages(a \o b \o c) /\ (accepts(a \o b \o c) <=> accepts(c))
    BY <2>3, <2>7, MoreStages
  <2>9. accepts(a \o b \o c \o d) <=> accepts(c) /\ accepts(d)
    BY <2>5, <2>8, MoreStages
  <2> QED
    BY <1>4, <2>3, <2>5, <2>6, <2>9
<1>6. ASSUME \A i \in DOMAIN messages : messages[i] = messages[1]
      PROVE  accepts(native_bls12381_verify_multisignature(sig, aggregate.bytes, messages[1]))
               <=> aggregate.bytes # <<0, 0>> /\ sig = total
  <2> DEFINE message == messages[1]
  <2>1. signed = [i \in DOMAIN pks |-> sign(pks[i], message)]
    BY <1>1, <1>2, <1>6
  <2>2. message \in Message /\ pks \in Seq(Valid)
    BY <1>2 DEF pks
  <2> HIDE DEF message, signed
  <2>3. total = sign(curve_sum(pks), message)
    BY <1>3, <2>1, <2>2, SumSigns
  <2>4. curve_sum(pks) = aggregate.bytes
    BY DEF pks
  <2>5. curve_sum(pks) \in CurvePoint
    BY <1>1, SumIsPoint
  <2>6. ASSUME NEW sum, sum = curve_sum(pks)
        PROVE  accepts(native_bls12381_verify_multisignature(sig, sum, message))
                 <=> sum # <<0, 0>> /\ sig = total
    <3>1. accepts(bls12381_verify_signature_helper(sig, sum, message, FALSE)) <=>
            /\ sum \in CurvePoint /\ sum # <<0, 0>> /\ sig = sign(sum, message)
            /\ FALSE => pk_subgroup_check(sum)
      BY <2>2, VerifyAccepts
    <3>2. total = sign(sum, message) /\ sum \in CurvePoint
      BY <2>3, <2>5, <2>6
    <3> QED
      BY <3>1, <3>2 DEF native_bls12381_verify_multisignature
  <2> QED
    BY <2>4, <2>6 DEF message
<1> QED
  BY <1>5, <1>6

LEMMA ValidSubKeysSign ==
  ASSUME NEW key, key.subs \in Seq(SubKey), check_and_get_threshold(key),
         \A i \in DOMAIN key.subs : is_curve_point(key.subs[i]) /\ ~is_small_order(key.subs[i])
  PROVE  SubKeysSign(key)
<1> DEFINE subs == key.subs
           n == Len(subs)
<1>1. /\ n \in Nat /\ DOMAIN subs = 1 .. n /\ key.threshold \in 1 .. n
      /\ \A i \in 1 .. n : subs[i] \in CurvePoint /\ ~is_small_order(subs[i])
  BY DEF check_and_get_threshold, is_curve_point
<1> SUFFICES ASSUME NEW bitmap \in SUBSET (1 .. MAX_NUM_OF_KEYS), NEW message \in Message,
                    NEW sigs, sigs = [i \in bitmap |-> <<IF i \in DOMAIN key.subs
                                                         THEN key.subs[i][1] ELSE 1, message>>]
             PROVE  accepts(native_multi_signature_verify_strict(sigs, key, message))
                      <=> bitmap \subseteq DOMAIN key.subs /\ Cardinality(bitmap) >= key.threshold
  BY DEF SubKeysSign
<1> DEFINE a == stage("base", TRUE)
           b == stage("pubkey_deserialize",
                      check_and_get_threshold(key) /\ \A i \in DOMAIN key.subs : is_curve_point(key.subs[i]))
           c == stage("sig_deserialize", DOMAIN sigs # {})
           d == stage("strict_verify", multi_verifies(sigs, key, message))
           enough == bitmap \subseteq DOMAIN key.subs /\ Cardinality(bitmap) >= key.threshold
<1>2. multi_verifies(sigs, key, message) <=> enough
  <2>1. ASSUME NEW i \in bitmap, bitmap \subseteq DOMAIN key.subs
        PROVE  ed25519_verifies(sigs[i], key.subs[i], message)
    <3>1. i \in DOMAIN key.subs
      BY <2>1
    <3>2. sigs[i] = <<key.subs[i][1], message>>
      BY <3>1
    <3> QED
      BY <1>1, <3>1, <3>2 DEF ed25519_verifies, is_curve_point
  <2>2. DOMAIN sigs = bitmap
    OBVIOUS
  <2> QED
    BY <2>1, <2>2 DEF multi_verifies
<1>3. enough => DOMAIN sigs # {}
  <2>1. Cardinality({}) = 0
    BY FS_EmptySet
  <2>2. DOMAIN sigs = bitmap /\ key.threshold >= 1
    BY <1>1
  <2>3. ASSUME bitmap = {}, Cardinality(bitmap) >= key.threshold
        PROVE  FALSE
    <3>1. 0 >= key.threshold
      BY <2>1, <2>3
    <3> QED
      BY <1>1, <2>2, <3>1
  <2> QED
    BY <2>2, <2>3
<1> HIDE DEF enough
<1>4. Stages(a) /\ accepts(a)
  BY OneStage
<1>5. Stages(b) /\ accepts(b)
  <2> DEFINE ok == check_and_get_threshold(key) /\ \A i \in DOMAIN key.subs : is_curve_point(key.subs[i])
  <2>1. ok = TRUE
    BY DEF check_and_get_threshold
  <2> HIDE DEF ok
  <2> QED
    BY <2>1, OneStage DEF ok
<1>6. Stages(c) /\ (accepts(c) <=> DOMAIN sigs # {})
  <2> DEFINE ok == DOMAIN sigs # {}
  <2>1. ok \in BOOLEAN
    OBVIOUS
  <2> HIDE DEF ok
  <2>2. Stages(stage("sig_deserialize", ok)) /\ (accepts(stage("sig_deserialize", ok)) <=> ok)
    BY <2>1, OneStage
  <2> QED
    BY <2>2 DEF ok
<1>7. Stages(d) /\ (accepts(d) <=> multi_verifies(sigs, key, message))
  <2>1. multi_verifies(sigs, key, message) \in BOOLEAN
    BY DEF multi_verifies
  <2> QED
    BY <2>1, OneStage
<1>8. native_multi_signature_verify_strict(sigs, key, message) = a \o b \o c \o d
  BY DEF native_multi_signature_verify_strict
<1> HIDE DEF a, b, c, d
<1>9. Stages(a \o b) /\ accepts(a \o b)
  BY <1>4, <1>5, MoreStages
<1>10. Stages(a \o b \o c) /\ (accepts(a \o b \o c) <=> accepts(c))
  BY <1>6, <1>9, MoreStages
<1>11. accepts(a \o b \o c \o d) <=> accepts(c) /\ accepts(d)
  BY <1>7, <1>10, MoreStages
<1> QED
  BY <1>2, <1>3, <1>6, <1>7, <1>8, <1>11 DEF enough
-----------------------------------------------------------------------------
(* What a native that accepts has found.                                   *)

LEMMA ValidatesKeys ==
  ASSUME NEW pk, accepts(native_bls12381_validate_pubkey(pk))
  PROVE  pk \in Valid
<1> DEFINE a == stage("base", TRUE)
           b == bls12381_deserialize_pk(pk)
           c == bls12381_pk_subgroub_check(pk)
<1>1. Stages(a)
  BY OneStage
<1>2. Stages(b)
  <2>1. is_curve_point(pk) \in BOOLEAN
    BY DEF is_curve_point
  <2> QED
    BY <2>1, OneStage DEF bls12381_deserialize_pk
<1>3. Stages(c) /\ (accepts(c) => pk_subgroup_check(pk))
  <2>1. /\ c \in Seq({[work |-> "pubkey_subgroup_check", price |-> "pubkey_deserialize",
                       ok |-> pk_subgroup_check(pk)]})
        /\ DOMAIN c = {1} /\ c[1].ok = pk_subgroup_check(pk)
    BY DEF bls12381_pk_subgroub_check
  <2> HIDE DEF c
  <2> QED
    BY <2>1 DEF Stages, accepts
<1>4. native_bls12381_validate_pubkey(pk) = a \o b \o c
  BY DEF native_bls12381_validate_pubkey
<1> HIDE DEF a, b, c
<1>5. Stages(a \o b)
  BY <1>1, <1>2, MoreStages
<1>6. accepts(a \o b \o c) => accepts(c)
  BY <1>3, <1>5, MoreStages
<1> QED
  BY <1>3, <1>4, <1>6 DEF Valid, pk_subgroup_check, is_curve_point

LEMMA PossessionValidates ==
  ASSUME NEW pk, NEW pop, accepts(native_bls12381_verify_proof_of_possession(pk, pop))
  PROVE  pk \in Valid
<1> DEFINE a == stage("base", TRUE)
           b == bls12381_deserialize_pk(pk)
           c == stage("sig_deserialize", is_curve_point(pop))
           d == stage("pop_verify", pop_verify(pop, pk))
<1>1. Stages(a)
  BY OneStage
<1>2. Stages(b)
  <2>1. is_curve_point(pk) \in BOOLEAN
    BY DEF is_curve_point
  <2> QED
    BY <2>1, OneStage DEF bls12381_deserialize_pk
<1>3. Stages(c)
  <2>1. is_curve_point(pop) \in BOOLEAN
    BY DEF is_curve_point
  <2> QED
    BY <2>1, OneStage
<1>4. Stages(d) /\ (accepts(d) <=> pop_verify(pop, pk))
  <2>1. pop_verify(pop, pk) \in BOOLEAN
    BY DEF pop_verify
  <2> QED
    BY <2>1, OneStage
<1>5. native_bls12381_verify_proof_of_possession(pk, pop) = a \o b \o c \o d
  BY DEF native_bls12381_verify_proof_of_possession
<1> HIDE DEF a, b, c, d
<1>6. Stages(a \o b)
  BY <1>1, <1>2, MoreStages
<1>7. Stages(a \o b \o c)
  BY <1>3, <1>6, MoreStages
<1>8. accepts(a \o b \o c \o d) => accepts(d)
  BY <1>4, <1>7, MoreStages
<1> QED
  BY <1>4, <1>5, <1>8 DEF Valid, pop_verify, pk_subgroup_check, is_curve_point

LEMMA AggregatesSomeKeys ==
  ASSUME NEW pks \in Seq(CurvePoint), accepts(native_bls12381_aggregate_pubkeys(pks))
  PROVE  pks # <<>>
<1> DEFINE n == Len(pks)
           a == stage("base", pks # <<>>)
           b == bls12381_deserialize_pks(pks)
           c == stage("pubkey_aggregate", TRUE)
<1>1. Stages(a) /\ (accepts(a) <=> pks # <<>>)
  <2> DEFINE ok == pks # <<>>
  <2>1. ok \in BOOLEAN
    OBVIOUS
  <2> HIDE DEF ok
  <2>2. Stages(stage("base", ok)) /\ (accepts(stage("base", ok)) <=> ok)
    BY <2>1, OneStage
  <2> QED
    BY <2>2 DEF ok
<1>2. Stages(b)
  <2> DEFINE oks == [i \in 1 .. n |-> is_curve_point(pks[i])]
  <2>1. n \in Nat /\ oks \in [1 .. n -> BOOLEAN]
    BY DEF is_curve_point
  <2>2. b = [i \in 1 .. n |-> outcome("pubkey_deserialize", oks[i])]
    BY DEF bls12381_deserialize_pks
  <2> HIDE DEF oks, b, n
  <2> QED
    BY <2>1, <2>2, StagesOfList
<1>3. Stages(c)
  BY OneStage
<1>4. native_bls12381_aggregate_pubkeys(pks) = a \o b \o c
  BY DEF native_bls12381_aggregate_pubkeys
<1> HIDE DEF a, b, c
<1>5. Stages(a \o b) /\ (accepts(a \o b) => accepts(a))
  BY <1>1, <1>2, MoreStages
<1>6. accepts(a \o b \o c) => accepts(a \o b)
  BY <1>3, <1>5, MoreStages
<1> QED
  BY <1>1, <1>4, <1>5, <1>6

LEMMA AggregatesPoints ==
  ASSUME NEW S, NEW sigs \in Seq(S), accepts(native_bls12381_aggregate_signatures(sigs))
  PROVE  \A i \in DOMAIN sigs : is_curve_point(sigs[i])
<1> DEFINE n == Len(sigs)
           oks == [i \in 1 .. n |-> is_curve_point(sigs[i])]
           a == stage("base", sigs # <<>>)
           b == bls12381_deserialize_sigs(sigs)
           c == stage("sig_aggregate", TRUE)
<1>1. Stages(a)
  <2> DEFINE ok == sigs # <<>>
  <2>1. ok \in BOOLEAN
    OBVIOUS
  <2> HIDE DEF ok
  <2> QED
    BY <2>1, OneStage DEF ok
<1>2. n \in Nat /\ DOMAIN sigs = 1 .. n /\ oks \in [1 .. n -> BOOLEAN]
  BY DEF is_curve_point
<1>3. Stages(b) /\ (accepts(b) <=> \A i \in 1 .. n : oks[i])
  <2>1. b = [i \in 1 .. n |-> outcome("sig_deserialize", oks[i])]
    BY DEF bls12381_deserialize_sigs
  <2> HIDE DEF oks, b, n
  <2> QED
    BY <1>2, <2>1, StagesOfList
<1>4. Stages(c)
  BY OneStage
<1>5. native_bls12381_aggregate_signatures(sigs) = a \o b \o c
  BY DEF native_bls12381_aggregate_signatures
<1> HIDE DEF a, b, c
<1>6. Stages(a \o b) /\ (accepts(a \o b) => accepts(b))
  BY <1>1, <1>3, MoreStages
<1>7. accepts(a \o b \o c) => accepts(a \o b)
  BY <1>4, <1>6, MoreStages
<1> QED
  BY <1>2, <1>3, <1>5, <1>6, <1>7

LEMMA FindsNone ==
  ASSUME NEW sigs, \A i \in DOMAIN sigs : is_curve_point(sigs[i]), NEW S, sigs \in Seq(S)
  PROVE  SelectInSeq(sigs, LAMBDA s : ~is_curve_point(s)) = 0
<1>1. {i \in 1 .. Len(sigs) : ~is_curve_point(sigs[i])} = {}
  OBVIOUS
<1> QED
  BY <1>1 DEF SelectInSeq

LEMMA ValidatesEd25519 ==
  ASSUME NEW pk, accepts(native_public_key_validate(pk))
  PROVE  is_curve_point(pk) /\ ~is_small_order(pk)
<1> DEFINE ok == is_curve_point(pk) /\ ~is_small_order(pk)
           a == stage("base_and_deserialize", is_curve_point(pk))
           b == stage("small_order_check", ok)
<1>1. Stages(a)
  <2>1. is_curve_point(pk) \in BOOLEAN
    BY DEF is_curve_point
  <2> QED
    BY <2>1, OneStage
<1>2. Stages(b) /\ (accepts(b) <=> ok)
  <2>1. ok \in BOOLEAN
    BY DEF is_curve_point
  <2> HIDE DEF ok
  <2> QED
    BY <2>1, OneStage
<1>3. native_public_key_validate(pk) = a \o b
  BY DEF native_public_key_validate
<1> HIDE DEF a, b
<1> QED
  BY <1>1, <1>2, <1>3, MoreStages

LEMMA ValidatesSubKeys ==
  ASSUME NEW key, key.subs \in Seq(SubKey), accepts(native_public_key_validate_v2(key))
  PROVE  /\ check_and_get_threshold(key)
         /\ \A i \in DOMAIN key.subs : is_curve_point(key.subs[i]) /\ ~is_small_order(key.subs[i])
<1> DEFINE n == Len(key.subs)
           oks == [i \in 1 .. n |-> is_curve_point(key.subs[i]) /\ ~is_small_order(key.subs[i])]
           a == stage("base", check_and_get_threshold(key))
           b == num_valid_subpks(key)
<1>1. Stages(a) /\ (accepts(a) <=> check_and_get_threshold(key))
  <2>1. check_and_get_threshold(key) \in BOOLEAN
    BY DEF check_and_get_threshold
  <2> QED
    BY <2>1, OneStage
<1>2. n \in Nat /\ DOMAIN key.subs = 1 .. n /\ oks \in [1 .. n -> BOOLEAN]
  BY DEF is_curve_point
<1>3. Stages(b) /\ (accepts(b) <=> \A i \in 1 .. n : oks[i])
  <2>1. b = [i \in 1 .. n |-> outcome("subpk_check", oks[i])]
    BY DEF num_valid_subpks
  <2> HIDE DEF oks, b, n
  <2> QED
    BY <1>2, <2>1, StagesOfList
<1>4. native_public_key_validate_v2(key) = a \o b
  BY DEF native_public_key_validate_v2
<1> HIDE DEF a, b
<1>5. accepts(a) /\ accepts(b)
  BY <1>1, <1>3, <1>4, MoreStages
<1> QED
  BY <1>1, <1>2, <1>3, <1>5
-----------------------------------------------------------------------------
(* What a type says.                                                       *)

\* The bytes of a struct are what its type was made for: keys with a proof of
\* possession, and those that were validated alone, are of the subgroup and not its
\* identity; an aggregate is of such keys, or of points, and is their sum; an
\* Ed25519 key, and each part of one with sub-keys, has a component in the subgroup.
TypesSayChecked ==
  /\ keys_with_pop \subseteq Valid
  /\ made.type = "PublicKey" => made.bytes \in Valid
  /\ made.type = "AggrPublicKeysWithPoP" =>
       made.of \in Seq(Valid) /\ made.of # <<>> /\ made.bytes = curve_sum(made.of)
  /\ made.type = "AggrOrMultiSignature" =>
       (\A i \in DOMAIN made.of : is_curve_point(made.of[i])) /\ made.bytes = curve_sum(made.of)
  /\ made.type = "Ed25519" => is_curve_point(made.bytes) /\ ~is_small_order(made.bytes)
  /\ made.type = "MultiEd25519V2" =>
       /\ made.key.subs \in Seq(SubKey) /\ check_and_get_threshold(made.key)
       /\ \A i \in DOMAIN made.key.subs :
            is_curve_point(made.key.subs[i]) /\ ~is_small_order(made.key.subs[i])

LEMMA ListsAreSequences ==
  ASSUME NEW S, NEW n \in Nat, NEW list \in SeqOf(S, n)
  PROVE  list \in Seq(S)
<1>1. PICK m \in 0 .. n : list \in [1 .. m -> S]
  BY DEF SeqOf
<1> QED
  BY <1>1

\* A call that answers yes or no keeps the struct that Move has.
LEMMA AnswersKeepTypes ==
  ASSUME TypesSayChecked, NEW stages, answer(stages, made)
  PROVE  TypesSayChecked'
<1>1. made' = made /\ keys_with_pop' = keys_with_pop
  BY DEF answer
<1> QED
  BY <1>1 DEF TypesSayChecked

LEMMA TypesAreKept == TypesSayChecked /\ [SignatureNext]_signatureVars => TypesSayChecked'
<1> SUFFICES ASSUME TypesSayChecked, [SignatureNext]_signatureVars
             PROVE  TypesSayChecked'
  OBVIOUS
<1>1. ASSUME NEW pk \in CurveBytes, public_key_from_bytes(pk)
      PROVE  TypesSayChecked'
  <2>1. CASE accepts(native_bls12381_validate_pubkey(pk))
    <3>1. made' = [type |-> "PublicKey", bytes |-> pk] /\ keys_with_pop' = keys_with_pop
      BY <1>1, <2>1 DEF public_key_from_bytes, answer
    <3>2. pk \in Valid
      BY <2>1, ValidatesKeys
    <3> QED
      BY <3>1, <3>2 DEF TypesSayChecked
  <2>2. CASE ~accepts(native_bls12381_validate_pubkey(pk))
    <3>1. made' = made /\ keys_with_pop' = keys_with_pop
      BY <1>1, <2>2 DEF public_key_from_bytes, answer
    <3> QED
      BY <3>1 DEF TypesSayChecked
  <2> QED
    BY <2>1, <2>2
<1>2. ASSUME NEW pk \in CurveBytes, ed25519_public_key_validate(pk)
      PROVE  TypesSayChecked'
  <2>1. CASE accepts(native_public_key_validate(pk))
    <3>1. made' = [type |-> "Ed25519", bytes |-> pk] /\ keys_with_pop' = keys_with_pop
      BY <1>2, <2>1 DEF ed25519_public_key_validate, answer
    <3>2. is_curve_point(pk) /\ ~is_small_order(pk)
      BY <2>1, ValidatesEd25519
    <3> QED
      BY <3>1, <3>2 DEF TypesSayChecked
  <2>2. CASE ~accepts(native_public_key_validate(pk))
    <3>1. made' = made /\ keys_with_pop' = keys_with_pop
      BY <1>2, <2>2 DEF ed25519_public_key_validate, answer
    <3> QED
      BY <3>1 DEF TypesSayChecked
  <2> QED
    BY <2>1, <2>2
<1>3. ASSUME NEW pk \in CurveBytes, NEW pop \in CurveBytes, public_key_from_bytes_with_pop(pk, pop)
      PROVE  TypesSayChecked'
  <2>1. accepts(native_bls12381_verify_proof_of_possession(pk, pop)) => pk \in Valid
    BY PossessionValidates
  <2>2. made' = made /\ keys_with_pop' \subseteq Valid
    BY <1>3, <2>1 DEF public_key_from_bytes_with_pop, TypesSayChecked
  <2> QED
    BY <2>2 DEF TypesSayChecked
<1>4. ASSUME NEW pks \in SeqOf(keys_with_pop, MaxList), aggregate_pubkeys(pks)
      PROVE  TypesSayChecked'
  <2>1. pks \in Seq(Valid) /\ pks \in Seq(CurvePoint)
    <3>1. pks \in Seq(keys_with_pop)
      BY ListsAreSequences, SignatureConstants
    <3>2. keys_with_pop \subseteq Valid /\ Valid \subseteq CurvePoint
      BY DEF TypesSayChecked, Valid
    <3> HIDE DEF Valid
    <3> QED
      BY <3>1, <3>2
  <2>2. CASE accepts(native_bls12381_aggregate_pubkeys(pks))
    <3>1. /\ made' = [type |-> "AggrPublicKeysWithPoP", bytes |-> curve_sum(pks), of |-> pks]
          /\ keys_with_pop' = keys_with_pop
      BY <1>4, <2>2 DEF aggregate_pubkeys, answer
    <3>2. pks # <<>>
      BY <2>1, <2>2, AggregatesSomeKeys
    <3> QED
      BY <2>1, <3>1, <3>2 DEF TypesSayChecked
  <2>3. CASE ~accepts(native_bls12381_aggregate_pubkeys(pks))
    <3>1. made' = made /\ keys_with_pop' = keys_with_pop
      BY <1>4, <2>3 DEF aggregate_pubkeys, answer
    <3> QED
      BY <3>1 DEF TypesSayChecked
  <2> QED
    BY <2>2, <2>3
<1>5. ASSUME NEW sigs \in SeqOf(CurveBytes, MaxList), aggregate_signatures(sigs)
      PROVE  TypesSayChecked'
  <2>1. sigs \in Seq(CurveBytes)
    BY ListsAreSequences, SignatureConstants
  <2>2. CASE accepts(native_bls12381_aggregate_signatures(sigs))
    <3>1. \A i \in DOMAIN sigs : is_curve_point(sigs[i])
      BY <2>1, <2>2, AggregatesPoints
    <3>2. SelectInSeq(sigs, LAMBDA s : ~is_curve_point(s)) = 0
      BY <2>1, <3>1, FindsNone
    <3>3. /\ made' = [type |-> "AggrOrMultiSignature", bytes |-> curve_sum(sigs), of |-> sigs]
          /\ keys_with_pop' = keys_with_pop
      BY <1>5, <2>2, <3>2 DEF aggregate_signatures, answer
    <3> QED
      BY <3>1, <3>3 DEF TypesSayChecked, is_curve_point
  <2>3. CASE ~accepts(native_bls12381_aggregate_signatures(sigs))
    <3>1. made' = made /\ keys_with_pop' = keys_with_pop
      BY <1>5, <2>3 DEF aggregate_signatures, answer
    <3> QED
      BY <3>1 DEF TypesSayChecked
  <2> QED
    BY <2>2, <2>3
<1>6. ASSUME NEW message \in Message, NEW sig \in CurveBytes, verify_signature(sig, message)
      PROVE  TypesSayChecked'
  BY <1>6, AnswersKeepTypes DEF verify_signature
<1>7. ASSUME NEW message \in Message, ed25519_verify(message)
      PROVE  TypesSayChecked'
  <2>1. \E stages : answer(stages, made)
    BY <1>7 DEF ed25519_verify
  <2> QED
    BY <2>1, AnswersKeepTypes
<1>8. ASSUME NEW subs \in SeqOf(SubKey, MAX_NUM_OF_KEYS + 1), NEW threshold,
             NEW key, key = [subs |-> subs, threshold |-> threshold],
             multi_ed25519_public_key_validate(key)
      PROVE  TypesSayChecked'
  <2>1. key.subs \in Seq(SubKey)
    BY <1>8, ListsAreSequences, SignatureConstants
  <2>2. CASE answer(native_public_key_validate_with_gas_fix(key), [type |-> "MultiEd25519", key |-> key])
    <3>1. keys_with_pop' = keys_with_pop /\ (made' = made \/ made' = [type |-> "MultiEd25519", key |-> key])
      BY <2>2 DEF answer
    <3> QED
      BY <3>1 DEF TypesSayChecked
  <2>3. CASE answer(native_public_key_validate_v2(key), [type |-> "MultiEd25519V2", key |-> key])
    <3>1. CASE accepts(native_public_key_validate_v2(key))
      <4>1. keys_with_pop' = keys_with_pop /\ made' = [type |-> "MultiEd25519V2", key |-> key]
        BY <2>3, <3>1 DEF answer
      <4>2. /\ check_and_get_threshold(key)
            /\ \A i \in DOMAIN key.subs : is_curve_point(key.subs[i]) /\ ~is_small_order(key.subs[i])
        BY <2>1, <3>1, ValidatesSubKeys
      <4> QED
        BY <2>1, <4>1, <4>2 DEF TypesSayChecked, check_and_get_threshold, is_curve_point, is_small_order
    <3>2. CASE ~accepts(native_public_key_validate_v2(key))
      <4>1. keys_with_pop' = keys_with_pop /\ made' = made
        BY <2>3, <3>2 DEF answer
      <4> QED
        BY <4>1 DEF TypesSayChecked
    <3> QED
      BY <3>1, <3>2
  <2> QED
    BY <1>8, <2>2, <2>3 DEF multi_ed25519_public_key_validate
<1>9. ASSUME UNCHANGED signatureVars
      PROVE  TypesSayChecked'
  BY <1>9 DEF TypesSayChecked, signatureVars
<1> QED
  BY <1>1, <1>2, <1>3, <1>4, <1>5, <1>6, <1>7, <1>8, <1>9 DEF SignatureNext

\* Ed25519 keys have a component, so that a message has a signature.
LEMMA Ed25519Signs ==
  ASSUME NEW pk \in CurvePoint, ~is_small_order(pk), NEW message \in Message
  PROVE  \E sig \in (0 .. SubgroupOrder - 1) \X Message :
           accepts(native_ed25519_signature_verify_strict(sig, pk, message))
<1> DEFINE sig == <<pk[1], message>>
           a == stage("base", TRUE)
           b == stage("pubkey_deserialize", is_curve_point(pk))
           c == stage("sig_deserialize", sig # <<>>)
           d == stage("strict_verify", ed25519_verifies(sig, pk, message))
<1>1. sig \in (0 .. SubgroupOrder - 1) \X Message
  BY DEF CurvePoint
<1>2. is_curve_point(pk) = TRUE /\ ed25519_verifies(sig, pk, message) = TRUE /\ (sig # <<>>) = TRUE
  BY DEF is_curve_point, ed25519_verifies
<1>3. native_ed25519_signature_verify_strict(sig, pk, message) = a \o b \o c \o d
  BY DEF native_ed25519_signature_verify_strict
<1>4. Stages(a) /\ accepts(a) /\ Stages(b) /\ accepts(b) /\ Stages(c) /\ accepts(c) /\ Stages(d) /\ accepts(d)
  <2> HIDE DEF sig
  <2> QED
    BY <1>2, OneStage
<1> HIDE DEF a, b, c, d, sig
<1>5. Stages(a \o b) /\ accepts(a \o b)
  BY <1>4, MoreStages
<1>6. Stages(a \o b \o c) /\ accepts(a \o b \o c)
  BY <1>4, <1>5, MoreStages
<1>7. accepts(a \o b \o c \o d)
  BY <1>4, <1>6, MoreStages
<1> QED
  BY <1>1, <1>3, <1>7

LEMMA TypesMeanSigned == TypesSayChecked => AcceptedMeansSigned
<1> SUFFICES ASSUME TypesSayChecked
             PROVE  AcceptedMeansSigned
  OBVIOUS
<1>1. /\ \A pk \in keys_with_pop : KeySigns(pk)
      /\ made.type = "PublicKey" => KeySigns(made.bytes)
  BY ValidKeySigns DEF TypesSayChecked
<1>2. made.type = "AggrPublicKeysWithPoP" => KeysSign(made)
  BY ValidKeysSign DEF TypesSayChecked
<1>3. made.type = "AggrOrMultiSignature" =>
        (\A i \in DOMAIN made.of : is_curve_point(made.of[i])) /\ made.bytes = curve_sum(made.of)
  BY DEF TypesSayChecked
<1>4. made.type = "Ed25519" => \A message \in Message : \E sig \in (0 .. SubgroupOrder - 1) \X Message :
        accepts(native_ed25519_signature_verify_strict(sig, made.bytes, message))
  BY Ed25519Signs DEF TypesSayChecked, is_curve_point
<1>5. made.type = "MultiEd25519V2" => SubKeysSign(made.key)
  BY ValidSubKeysSign DEF TypesSayChecked
<1> QED
  BY <1>1, <1>2, <1>3, <1>4, <1>5 DEF AcceptedMeansSigned

\* What a type says was checked is enough for a verification to accept exactly what
\* the signers have signed, for a subgroup of any order and any cofactor, any messages
\* and lists of any length: bls12381.move, ed25519.move and multi_ed25519.move over
\* their natives.
THEOREM SignedIsAccepted == SignatureSpec => []AcceptedMeansSigned
<1>1. SignatureInit => TypesSayChecked
  BY DEF SignatureInit, TypesSayChecked, NoStruct
<1> QED
  BY <1>1, TypesAreKept, TypesMeanSigned, PTL DEF SignatureSpec
=============================================================================
