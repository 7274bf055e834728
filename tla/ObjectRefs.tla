------------------------------ MODULE ObjectRefs ------------------------------
(***************************************************************************)
(* aptos_framework::object: the life of objects under the capabilities that *)
(* their creators get.  A ConstructorRef and a LinearTransferRef cannot be  *)
(* stored, so they end with the transaction that made them; DeleteRef,      *)
(* ExtendRef and TransferRef can be kept for any time, or dropped.          *)
(*                                                                         *)
(* The actions are the calls of one transaction after the other, and        *)
(* EndTransaction separates transactions: the calls of a transaction are    *)
(* made by Move modules that can be written by anyone.                      *)
(***************************************************************************)
EXTENDS ObjectCore, FiniteSets, Sequences

CONSTANTS
  UniqueAddresses,   \* addresses from create_object: never generated twice
  MaxStoredRefs,     \* bound on the refs held at the same time
  MaxLinearRefs      \* bound on the LinearTransferRefs held at the same time

ASSUME UniqueAddressesAssumption == UniqueAddresses \subseteq ObjectAddresses

VARIABLES
  generated,         \* the unique addresses generated so far
  constructor_refs,  \* ConstructorRefs: [self, can_delete]
  linear_refs,       \* LinearTransferRefs: [self, owner]
  refs               \* DeleteRefs, ExtendRefs and TransferRefs: [kind, self]

refVars == <<generated, constructor_refs, linear_refs, refs>>
vars == <<objectVars, refVars>>

ConstructorRef == [self : ObjectAddresses, can_delete : BOOLEAN]
LinearTransferRef == [self : ObjectAddresses, owner : Addresses]
Ref == [kind : {"delete", "extend", "transfer"}, self : ObjectAddresses]

Held(kind, object) == [kind |-> kind, self |-> object] \in refs

(* Who can sign for an address: an account for itself, and whoever has an   *)
(* object's ConstructorRef or ExtendRef for the object (generate_signer,    *)
(* generate_signer_for_extending).                                          *)
CanSign(address) ==
  \/ address \in Accounts
  \/ \E ref \in constructor_refs : ref.self = address
  \/ Held("extend", address)

Init ==
  /\ InitObjects
  /\ generated = {}
  /\ constructor_refs = {}
  /\ linear_refs = {}
  /\ refs = {}

-----------------------------------------------------------------------------
(* create_object and create_sticky_object, at a unique address              *)
create_object(owner_address, object, can_delete) ==
  /\ object \in UniqueAddresses \ generated
  /\ ~contains(objects, object)
  /\ objects' = with_object(object, owner_address)
  /\ generated' = generated \cup {object}
  /\ constructor_refs' = constructor_refs \cup {[self |-> object, can_delete |-> can_delete]}
  /\ UNCHANGED <<untransferable, tombstones, linear_refs, refs>>

(* create_named_object, at the address that the creator and a seed give     *)
create_named_object(creator, object) ==
  /\ CanSign(creator)
  /\ object \in ObjectAddresses \ UniqueAddresses
  /\ ~contains(objects, object)
  /\ objects' = with_object(object, creator)
  /\ constructor_refs' = constructor_refs \cup {[self |-> object, can_delete |-> FALSE]}
  /\ UNCHANGED <<untransferable, tombstones, generated, linear_refs, refs>>

keep(kind, ref) ==
  /\ Cardinality(refs) < MaxStoredRefs
  /\ refs' = refs \cup {[kind |-> kind, self |-> ref.self]}
  /\ UNCHANGED <<objectVars, generated, constructor_refs, linear_refs>>

generate_delete_ref(ref) == ref.can_delete /\ keep("delete", ref)

generate_extend_ref(ref) == keep("extend", ref)

generate_transfer_ref(ref) == ref.self \notin untransferable /\ keep("transfer", ref)

\* Fault: the Untransferable resource is forgotten.
delete_core_only(object) ==
  /\ Held("delete", object)
  /\ contains(objects, object)
  /\ objects' = remove(objects, object)
  /\ refs' = refs \ {[kind |-> "delete", self |-> object]}
  /\ UNCHANGED <<untransferable, tombstones, generated, constructor_refs, linear_refs>>

(* delete: a tombstone of the object stays                                  *)
delete(object) ==
  /\ Held("delete", object)
  /\ contains(objects, object)
  /\ objects' = remove(objects, object)
  /\ untransferable' = untransferable \ {object}
  /\ refs' = refs \ {[kind |-> "delete", self |-> object]}
  /\ UNCHANGED <<tombstones, generated, constructor_refs, linear_refs>>

disable_ungated_transfer(object) ==
  /\ Held("transfer", object)
  /\ contains(objects, object)
  /\ objects' = [objects EXCEPT ![object].allow_ungated_transfer = FALSE]
  /\ UNCHANGED <<untransferable, tombstones, refVars>>

enable_ungated_transfer(object) ==
  /\ Held("transfer", object)
  /\ object \notin untransferable
  /\ contains(objects, object)
  /\ objects' = [objects EXCEPT ![object].allow_ungated_transfer = TRUE]
  /\ UNCHANGED <<untransferable, tombstones, refVars>>

(* set_untransferable, with the ConstructorRef: move_to aborts the second   *)
(* time                                                                     *)
set_untransferable(ref) ==
  /\ contains(objects, ref.self)
  /\ ref.self \notin untransferable
  /\ objects' = [objects EXCEPT ![ref.self].allow_ungated_transfer = FALSE]
  /\ untransferable' = untransferable \cup {ref.self}
  /\ UNCHANGED <<tombstones, refVars>>

generate_linear_transfer_ref(object) ==
  /\ Cardinality(linear_refs) < MaxLinearRefs
  /\ Held("transfer", object)
  /\ object \notin untransferable
  /\ contains(objects, object)
  /\ linear_refs' = linear_refs \cup {[self |-> object, owner |-> objects[object].owner]}
  /\ UNCHANGED <<objectVars, generated, constructor_refs, refs>>

\* Fault: the Untransferable resource is not looked at.
transfer_with_ref_unchecked(ref, to) ==
  /\ contains(objects, ref.self)
  /\ objects[ref.self].owner = ref.owner
  /\ objects' = [objects EXCEPT ![ref.self].owner = to]
  /\ tombstones' = remove(tombstones, ref.self)
  /\ linear_refs' = linear_refs \ {ref}
  /\ UNCHANGED <<untransferable, generated, constructor_refs, refs>>

(* transfer_with_ref.  Two linear refs of the same object and owner are one *)
(* element here: the second would work only after the object has come back  *)
(* to that owner, and then it can be generated anew.                        *)
transfer_with_ref(ref, to) ==
  /\ ref.self \notin untransferable
  /\ contains(objects, ref.self)
  /\ objects[ref.self].owner = ref.owner
  /\ objects' = [objects EXCEPT ![ref.self].owner = to]
  /\ tombstones' = remove(tombstones, ref.self)
  /\ linear_refs' = linear_refs \ {ref}
  /\ UNCHANGED <<untransferable, generated, constructor_refs, refs>>

(* The end of a transaction.  What can be stored is stored or dropped.      *)
EndTransaction ==
  /\ constructor_refs' = {}
  /\ linear_refs' = {}
  /\ refs' \in SUBSET refs
  /\ UNCHANGED <<objectVars, generated>>

-----------------------------------------------------------------------------
Create ==
  \/ \E owner_address \in Addresses, object \in UniqueAddresses, can_delete \in BOOLEAN :
       create_object(owner_address, object, can_delete)
  \/ \E creator \in Addresses, object \in ObjectAddresses :
       create_named_object(creator, object)

UseConstructorRef ==
  \E ref \in constructor_refs :
    \/ generate_delete_ref(ref)
    \/ generate_extend_ref(ref)
    \/ generate_transfer_ref(ref)
    \/ set_untransferable(ref)

UseStoredRef ==
  \E object \in ObjectAddresses :
    \/ delete(object)
    \/ disable_ungated_transfer(object)
    \/ enable_ungated_transfer(object)
    \/ generate_linear_transfer_ref(object)

UseLinearRef ==
  \E ref \in linear_refs, to \in Addresses : transfer_with_ref(ref, to)

UseSigner ==
  \E signer \in Accounts \cup ObjectAddresses, object \in ObjectAddresses :
    /\ CanSign(signer)
    /\ \/ \E to \in Addresses : transfer_raw(signer, object, to)
       \/ burn(signer, object)
       \/ unburn(signer, object)
    /\ UNCHANGED refVars

Next == Create \/ UseConstructorRef \/ UseStoredRef \/ UseLinearRef \/ UseSigner \/ EndTransaction

Spec == Init /\ [][Next]_vars

-----------------------------------------------------------------------------
(* The values of the state.  Refs exist only for addresses at which an      *)
(* object was created, and the Untransferable resource only with an object. *)
TypeOK ==
  /\ ObjectsTypeOK
  /\ generated \subseteq UniqueAddresses
  /\ constructor_refs \subseteq ConstructorRef
  /\ linear_refs \subseteq LinearTransferRef
  /\ refs \subseteq Ref

\* A chain of owners from object up to owner, of at most the depth of the walk.
OwnerChain(owner, object) ==
  /\ ungated(object)
  /\ \E depth \in 1 .. MAXIMUM_OBJECT_NESTING :
       \E between \in [1 .. depth - 1 -> {o \in ObjectAddresses : ungated(o)}] :
         LET chain == <<object>> \o between \o <<owner>>
         IN  \A i \in 1 .. depth : objects[chain[i]].owner = chain[i + 1]

(* The loop that checks a transfer accepts exactly the signers that own the *)
(* object directly or through at most MAXIMUM_OBJECT_NESTING owners, with   *)
(* ungated transfers allowed on the object and on each owner below the      *)
(* signer - in every graph of owners, cyclic ones included.                 *)
TransferAuthority ==
  \A owner \in Accounts \cup ObjectAddresses, object \in ObjectAddresses :
    verify_ungated_and_descendant(owner, object) <=> OwnerChain(owner, object)

Referenced(object) ==
  \/ Held("transfer", object)
  \/ \E ref \in constructor_refs \cup linear_refs : ref.self = object

(* An object whose ungated transfer is disabled and of which no ref is left *)
(* that could move it or allow it to move.                                  *)
Pinned(object) ==
  /\ contains(objects, object)
  /\ ~objects[object].allow_ungated_transfer
  /\ ~Referenced(object)

(* A pinned object keeps its owner until it is deleted, and stays pinned.   *)
(* Disabling ungated transfer and dropping the refs is how a module pins an *)
(* object (agent::create_agent_internal does).  The exception is an object  *)
(* that was sent to the burn address: unburn gives it back.                 *)
PinnedObjectsStay ==
  [][\A object \in DOMAIN objects :
       Pinned(object) /\ contains(objects', object) =>
         /\ Pinned(object)'
         /\ objects[object].owner # BURN_ADDRESS =>
              objects'[object].owner = objects[object].owner]_vars

(* An untransferable object keeps its owner until it is deleted, whatever   *)
(* TransferRefs and LinearTransferRefs were made of it before - unless it   *)
(* was owned by the burn address.                                           *)
UntransferableStays ==
  [][\A object \in untransferable :
       contains(objects', object) =>
         /\ object \in untransferable'
         /\ ~objects'[object].allow_ungated_transfer
         /\ objects[object].owner # BURN_ADDRESS =>
              objects'[object].owner = objects[object].owner]_vars
=============================================================================
