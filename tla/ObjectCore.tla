------------------------------ MODULE ObjectCore ------------------------------
(***************************************************************************)
(* aptos_framework::object: what any account can do to any object.  An      *)
(* object is an address with an ObjectCore resource; it has an owner, which *)
(* can be an account or another object.  The capabilities that a creator    *)
(* gets are in ObjectRefs.                                                  *)
(*                                                                         *)
(* Signers are master signers: a permissioned signer can do a part of what  *)
(* its master can.  Transfer events and GUIDs decide nothing and are left   *)
(* out.                                                                     *)
(***************************************************************************)
EXTENDS MoveTable

CONSTANTS
  Accounts,                \* addresses that have a signer of their own
  ObjectAddresses,         \* addresses at which objects can be created
  BURN_ADDRESS,            \* an address that nobody signs for
  MAXIMUM_OBJECT_NESTING   \* how many owners up the ownership checks look

ASSUME DisjointAddresses ==
  /\ Accounts \cap ObjectAddresses = {}
  /\ BURN_ADDRESS \notin Accounts \cup ObjectAddresses
ASSUME NestingAssumption == MAXIMUM_OBJECT_NESTING \in Nat \ {0}

VARIABLES
  objects,         \* ObjectCore: object -> [owner, allow_ungated_transfer]
  untransferable,  \* the objects with an Untransferable resource
  tombstones       \* TombStone: object -> original_owner

objectVars == <<objects, untransferable, tombstones>>

Addresses == Accounts \cup ObjectAddresses \cup {BURN_ADDRESS}

Core == [owner : Addresses, allow_ungated_transfer : BOOLEAN]

InitObjects ==
  /\ objects = new
  /\ untransferable = {}
  /\ tombstones = new

ungated(object) == contains(objects, object) /\ objects[object].allow_ungated_transfer

-----------------------------------------------------------------------------
(* create_object_internal: the objects with a new one, owned by creator     *)
with_object(object, creator) ==
  add(objects, object, [owner |-> creator, allow_ungated_transfer |-> TRUE])

(* The loop of verify_ungated_and_descendant up the chain of owners, until  *)
(* it meets owner: whether it ends without an abort from the values count   *)
(* and current on, when it runs while count < depth.                        *)
walk(owner, depth) ==
  LET found[count \in 0 .. depth - 1] ==
        [current \in Addresses |->
           \/ owner = current
           \/ /\ count + 1 < depth
              /\ ungated(current)
              /\ found[count + 1][objects[current].owner]]
  IN  found

\* Fault: the walk stops one owner too late.
verify_one_too_deep(owner, destination) ==
  /\ ungated(destination)
  /\ walk(owner, MAXIMUM_OBJECT_NESTING + 1)[0][objects[destination].owner]

(* verify_ungated_and_descendant, which every transfer by a signer calls    *)
verify_ungated_and_descendant(owner, destination) ==
  /\ ungated(destination)
  /\ walk(owner, MAXIMUM_OBJECT_NESTING)[0][objects[destination].owner]

transfer_raw_inner(object, to) == [objects EXCEPT ![object].owner = to]

(* transfer_raw, and transfer, transfer_call and transfer_to_object, which  *)
(* do nothing else                                                          *)
transfer_raw(signer, object, to) ==
  /\ verify_ungated_and_descendant(signer, object)
  /\ objects' = transfer_raw_inner(object, to)
  /\ UNCHANGED <<untransferable, tombstones>>

burn(signer, object) ==
  /\ contains(objects, object)
  /\ objects[object].owner = signer
  /\ ~contains(tombstones, object)
  /\ tombstones' = add(tombstones, object, signer)
  /\ UNCHANGED <<objects, untransferable>>

\* Fault: the original owner reclaims the object whoever owns it now.
unburn_from_anyone(signer, object) ==
  /\ contains(objects, object)
  /\ contains(tombstones, object)
  /\ tombstones[object] = signer
  /\ objects' = transfer_raw_inner(object, signer)
  /\ tombstones' = remove(tombstones, object)
  /\ UNCHANGED untransferable

(* unburn: the owner of the object takes its tombstone away.  Of an object  *)
(* that is owned by the burn address, the account that burnt it becomes the *)
(* owner again, even if the object is untransferable.                       *)
unburn(signer, object) ==
  /\ contains(objects, object)
  /\ contains(tombstones, object)
  /\ \/ /\ objects[object].owner = signer
        /\ UNCHANGED objects
     \/ /\ objects[object].owner = BURN_ADDRESS
        /\ tombstones[object] = signer
        /\ objects' = transfer_raw_inner(object, signer)
  /\ tombstones' = remove(tombstones, object)
  /\ UNCHANGED untransferable

-----------------------------------------------------------------------------
ObjectsTypeOK ==
  /\ IsTable(objects, ObjectAddresses, Core)
  /\ untransferable \subseteq DOMAIN objects
  /\ IsTable(tombstones, ObjectAddresses, Accounts \cup ObjectAddresses)
=============================================================================
