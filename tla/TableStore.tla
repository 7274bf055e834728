------------------------------ MODULE TableStore ------------------------------
(***************************************************************************)
(* What Move code relies on from tables: a store of finite maps with        *)
(* transactions.  One transaction at a time works on its own copy of the    *)
(* tables, sees its own writes, and takes effect as a whole or not at all.  *)
(***************************************************************************)
EXTENDS MoveTable

CONSTANTS Handle, Key, Value

VARIABLES
  committed,   \* the tables all transactions so far have left, by handle
  current,     \* the tables as the open transaction sees them
  spent        \* the handles ever given out

storeVars == <<committed, current, spent>>

InitStore ==
  /\ committed = new /\ current = new
  /\ spent = {}

\* A new table is empty and has a handle that no table ever had.
NewTable(handle) ==
  /\ handle \notin spent
  /\ current' = add(current, handle, new)
  /\ spent' = spent \cup {handle}
  /\ UNCHANGED committed

AddEntry(handle, key, value) ==
  /\ handle \in DOMAIN current /\ ~ contains(current[handle], key)
  /\ current' = write(current, handle, add(current[handle], key, value))
  /\ UNCHANGED <<committed, spent>>

WriteEntry(handle, key, value) ==
  /\ handle \in DOMAIN current /\ contains(current[handle], key)
  /\ current' = write(current, handle, write(current[handle], key, value))
  /\ UNCHANGED <<committed, spent>>

RemoveEntry(handle, key) ==
  /\ handle \in DOMAIN current /\ contains(current[handle], key)
  /\ current' = write(current, handle, remove(current[handle], key))
  /\ UNCHANGED <<committed, spent>>

\* Only an empty table can be destroyed.
DestroyTable(handle) ==
  /\ handle \in DOMAIN current /\ current[handle] = new
  /\ current' = remove(current, handle)
  /\ UNCHANGED <<committed, spent>>

CommitTransaction ==
  /\ committed' = current
  /\ UNCHANGED <<current, spent>>

AbortTransaction ==
  /\ current' = committed
  /\ UNCHANGED <<committed, spent>>

StoreNext ==
  \/ \E handle \in Handle :
       \/ NewTable(handle)
       \/ DestroyTable(handle)
       \/ \E key \in Key :
            \/ RemoveEntry(handle, key)
            \/ \E value \in Value : AddEntry(handle, key, value)
                                 \/ WriteEntry(handle, key, value)
  \/ CommitTransaction
  \/ AbortTransaction

StoreSpec == InitStore /\ [][StoreNext]_storeVars
=============================================================================
