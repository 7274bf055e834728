--------------------------- MODULE TransactionContext ---------------------------
(***************************************************************************)
(* The identifiers that natives derive for the transaction that runs:       *)
(* unique addresses (transaction_context.rs), addresses derived from an     *)
(* object with their cache (object.rs), and the counter behind randomness   *)
(* (randomness.rs); with what the natives tell of the transaction itself.   *)
(* Hashes are taken to be free of collisions.  The seed of the block, which *)
(* goes into randomness too, is left out: one seed for all is the worst case.*)
(***************************************************************************)
EXTENDS NativeSession

CONSTANTS
  Script,          \* the script hashes; transactions may run the same script
  Address,
  Payload,         \* the user transactions
  NoContext,       \* the session is not that of a user transaction
  Byte,            \* the values of a byte: 0 .. Byte - 1
  CounterBytes,    \* the bytes of the counter behind randomness
  MaxAuids         \* bound: the unique addresses of a session

ASSUME ContextConstants ==
  /\ Byte \in Nat \ {0} /\ CounterBytes \in Nat \ {0} /\ MaxAuids \in Nat
  /\ NoContext \notin Payload

VARIABLES
  script_hash, user_transaction_context, auid_counter,   \* NativeTransactionContext
  derived_from_object_addresses,                         \* NativeObjectContext
  txn_local_state, unbiasable,                           \* RandomnessContext
  auids, blobs,    \* history: the unique addresses and the random blobs so far
  requested, drawn,   \* history: how many were asked for
  answers          \* history: the derived addresses, with what they were asked for

randomnessContext == <<txn_local_state, unbiasable>>
objectContext == derived_from_object_addresses
contextVars == <<sessionVars, script_hash, user_transaction_context, auid_counter,
                 objectContext, randomnessContext, auids, blobs, requested, drawn, answers>>

\* RandomnessContext: the states of txn_local_state
CounterState == [1 .. CounterBytes -> 0 .. Byte - 1]

\* RandomnessContext::new
zero == [i \in 1 .. CounterBytes |-> 0]

ContextInit ==
  /\ SessionInit
  /\ script_hash \in Script /\ user_transaction_context = NoContext /\ auid_counter = 0
  /\ derived_from_object_addresses = <<>>
  /\ txn_local_state = zero /\ unbiasable = FALSE
  /\ auids = {} /\ blobs = {} /\ requested = 0 /\ drawn = 0 /\ answers = {}

\* The contexts of a session; only a user transaction with a private entry
\* function that is annotated is marked unbiasable.
start_context(hash, script, user, marked) ==
  /\ open_session(hash)
  /\ marked => user # NoContext
  /\ script_hash' = script /\ user_transaction_context' = user /\ auid_counter' = 0
  /\ derived_from_object_addresses' = <<>>
  /\ txn_local_state' = zero /\ unbiasable' = marked
  /\ UNCHANGED <<auids, blobs, requested, drawn, answers>>

\* AuthenticationKey::auid
auid(n) == [scheme |-> "auid", of |-> txn, n |-> n]

native_generate_unique_address ==
  /\ status = "running" /\ auid_counter < MaxAuids
  /\ \/ /\ auid_counter' = auid_counter + 1
        /\ auids' = auids \cup {auid(auid_counter')}
        /\ requested' = requested + 1
        /\ UNCHANGED sessionVars
     \/ fail /\ UNCHANGED <<auid_counter, auids, requested>>
  /\ UNCHANGED <<script_hash, user_transaction_context, objectContext, randomnessContext,
                 blobs, drawn, answers>>

\* AuthenticationKey::object_address_from_object, and its counterpart in Move
object_address_from_object(source, derive_from) ==
  [scheme |-> "derived", of |-> source, from |-> derive_from]

\* Fault: the cache looks at the object alone.
cached_by_object(derive_from, source) == derive_from

cache_key(derive_from, source) == <<derive_from, source>>

\* create_user_derived_object_address of object.move.  With the feature enabled
\* it is native_create_user_derived_object_address_impl, which keeps every
\* address that it has derived in the session.
create_user_derived_object_address(source, derive_from, native) ==
  LET key == cache_key(derive_from, source)
      fresh == object_address_from_object(source, derive_from)
      answer == IF native /\ key \in DOMAIN derived_from_object_addresses
                THEN derived_from_object_addresses[key] ELSE fresh
  IN /\ status = "running"
     /\ answers' = answers \cup {<<source, derive_from, answer>>}
     /\ derived_from_object_addresses' =
          [k \in DOMAIN derived_from_object_addresses \cup (IF native THEN {key} ELSE {}) |->
            IF k \in DOMAIN derived_from_object_addresses
            THEN derived_from_object_addresses[k] ELSE fresh]
     /\ UNCHANGED <<sessionVars, script_hash, user_transaction_context, auid_counter,
                    randomnessContext, auids, blobs, requested, drawn>>

\* Fault: the loop over the bytes goes on after the one that does not overflow.
increment_all(state) == [i \in DOMAIN state |-> (state[i] + 1) % Byte]

\* RandomnessContext::increment: a byte changes when all before it overflow.
increment(state) ==
  [i \in DOMAIN state |->
    IF \A j \in 1 .. i - 1 : state[j] = Byte - 1 THEN (state[i] + 1) % Byte ELSE state[i]]

\* next_32_bytes of randomness.move with fetch_and_increment_txn_counter, which
\* gives out the counter as it was; both refuse a transaction that is biasable.
next_32_bytes ==
  /\ status = "running"
  /\ \/ /\ unbiasable
        /\ \E state \in CounterState : <<txn, state>> \notin blobs   \* bound
        /\ blobs' = blobs \cup {<<txn, txn_local_state>>}
        /\ txn_local_state' = increment(txn_local_state)
        /\ drawn' = drawn + 1
        /\ UNCHANGED sessionVars
     \/ fail /\ UNCHANGED <<blobs, txn_local_state, drawn>>
  /\ UNCHANGED <<script_hash, user_transaction_context, auid_counter, objectContext,
                 unbiasable, auids, requested, answers>>

\* native_sender_internal, native_gas_payer_internal and the others that read
\* the context of the user transaction: there is an answer in a user transaction.
native_user_context ==
  /\ status = "running" /\ user_transaction_context = NoContext
  /\ fail
  /\ UNCHANGED <<script_hash, user_transaction_context, auid_counter, objectContext,
                 randomnessContext, auids, blobs, requested, drawn, answers>>

\* The session commits or is discarded; nothing in these contexts is saved.
end_context ==
  /\ status \in {"running", "failed"} /\ close_session
  /\ UNCHANGED <<script_hash, user_transaction_context, auid_counter, objectContext,
                 randomnessContext, auids, blobs, requested, drawn, answers>>

ContextNext ==
  \/ \E hash \in TxnHash, script \in Script, user \in Payload \cup {NoContext},
        marked \in BOOLEAN : start_context(hash, script, user, marked)
  \/ native_generate_unique_address
  \/ \E source, derive_from \in Address, native \in BOOLEAN :
       create_user_derived_object_address(source, derive_from, native)
  \/ next_32_bytes
  \/ native_user_context
  \/ end_context

ContextSpec == ContextInit /\ [][ContextNext]_contextVars
-----------------------------------------------------------------------------
\* A derived address is a function of source and object, one-to-one, whichever
\* of the two ways computes it and whatever the cache has seen before.
DerivedAddressesAgree ==
  \A a, b \in answers : (a[1] = b[1] /\ a[2] = b[2]) <=> a[3] = b[3]

\* No unique address and no random blob is given out twice, by whatever
\* transactions, those that fail included, and derived addresses agree:
\* object.move lets an object be deleted only because its address never comes
\* back (create_object, auid), and randomness.move promises that repeated calls
\* differ.  The carry of the counter has to reach every state before it returns
\* to one.
IdentifiersAreFresh ==
  /\ requested = Cardinality(auids) /\ drawn = Cardinality(blobs)
  /\ DerivedAddressesAgree
=============================================================================
