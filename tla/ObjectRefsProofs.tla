--------------------------- MODULE ObjectRefsProofs ---------------------------
(***************************************************************************)
(* Theorems about ObjectRefs, for every value of its constants.             *)
(***************************************************************************)
EXTENDS ObjectRefs, ObjectCoreTheorems

-----------------------------------------------------------------------------
(* Type correctness.                                                       *)

\* No object, and no capability anywhere.
LEMMA TypeOKInitially == Init => TypeOK
  BY NewTable DEF Init, InitObjects, TypeOK, ObjectsTypeOK

\* The three ways to create an object keep the types.
LEMMA CreateKeepsTypeOK == TypeOK /\ Create => TypeOK'
<1> SUFFICES ASSUME TypeOK, Create PROVE TypeOK'
  OBVIOUS
<1>1. ASSUME NEW owner \in Addresses, NEW object \in UniqueAddresses,
             NEW can_delete \in BOOLEAN, create_object(owner, object, can_delete)
      PROVE  TypeOK'
  <2>1. object \in ObjectAddresses
    BY UniqueAddressesAssumption
  <2>2. ObjectsTypeOK'
    BY <1>1, <2>1, NewObjectIsTyped DEF create_object, TypeOK
  <2> QED
    BY <1>1, <2>1, <2>2 DEF create_object, TypeOK, ConstructorRef
<1>2. ASSUME NEW creator \in Addresses, NEW object \in ObjectAddresses,
             create_named_object(creator, object)
      PROVE  TypeOK'
  <2>1. ObjectsTypeOK'
    BY <1>2, NewObjectIsTyped DEF create_named_object, TypeOK
  <2>2. [self |-> object, can_delete |-> FALSE] \in ConstructorRef
    BY DEF ConstructorRef
  <2> QED
    BY <1>2, <2>1, <2>2 DEF create_named_object, TypeOK
<1> QED
  BY <1>1, <1>2 DEF Create

\* So does everything a held ConstructorRef can generate.
LEMMA ConstructorRefKeepsTypeOK == TypeOK /\ UseConstructorRef => TypeOK'
<1> SUFFICES ASSUME TypeOK, NEW ref \in constructor_refs,
                    \/ \E kind \in {"delete", "extend", "transfer"} : keep(kind, ref)
                    \/ set_untransferable(ref)
             PROVE  TypeOK'
  BY DEF UseConstructorRef, generate_delete_ref, generate_extend_ref, generate_transfer_ref
<1>1. ref.self \in ObjectAddresses
  BY DEF TypeOK, ConstructorRef
<1>2. ASSUME NEW kind \in {"delete", "extend", "transfer"}, keep(kind, ref)
      PROVE  TypeOK'
  <2>1. [kind |-> kind, self |-> ref.self] \in Ref
    BY <1>1 DEF Ref
  <2> QED
    BY <1>2, <2>1 DEF keep, TypeOK, ObjectsTypeOK, objectVars
<1>3. CASE set_untransferable(ref)
  <2>1. IsTable(objects', ObjectAddresses, Core) /\ DOMAIN objects' = DOMAIN objects
    BY <1>3, ChangedCoreIsTyped DEF set_untransferable, contains, TypeOK
  <2> QED
    BY <1>3, <2>1 DEF set_untransferable, contains, TypeOK, ObjectsTypeOK, refVars
<1> QED
  BY <1>2, <1>3

\* So does every use of a DeleteRef, ExtendRef, TransferRef or of the
\* LinearTransferRef made from one.
LEMMA StoredRefKeepsTypeOK == TypeOK /\ UseStoredRef => TypeOK'
<1> SUFFICES ASSUME TypeOK, NEW object \in ObjectAddresses,
                    \/ delete(object)
                    \/ disable_ungated_transfer(object)
                    \/ enable_ungated_transfer(object)
                    \/ generate_linear_transfer_ref(object)
             PROVE  TypeOK'
  BY DEF UseStoredRef
<1>1. CASE delete(object)
  <2>1. /\ IsTable(objects', ObjectAddresses, Core)
        /\ DOMAIN objects' = DOMAIN objects \ {object}
    <3>1. IsTable(objects, ObjectAddresses, Core)
      BY DEF TypeOK, ObjectsTypeOK
    <3>2. IsTable(remove(objects, object), ObjectAddresses, Core)
      BY <3>1, RemoveFromTable
    <3>3. DOMAIN remove(objects, object) = DOMAIN objects \ {object}
      BY DEF remove
    <3> QED
      BY <1>1, <3>2, <3>3 DEF delete
  <2> QED
    BY <1>1, <2>1 DEF delete, TypeOK, ObjectsTypeOK
<1>2. CASE disable_ungated_transfer(object) \/ enable_ungated_transfer(object)
  <2>1. /\ IsTable(objects', ObjectAddresses, Core)
        /\ DOMAIN objects' = DOMAIN objects
    BY <1>2, ChangedCoreIsTyped
    DEF disable_ungated_transfer, enable_ungated_transfer, contains, TypeOK
  <2> QED
    BY <1>2, <2>1
    DEF disable_ungated_transfer, enable_ungated_transfer, TypeOK, ObjectsTypeOK, refVars
<1>3. CASE generate_linear_transfer_ref(object)
  <2>1. [self |-> object, owner |-> objects[object].owner] \in LinearTransferRef
    BY <1>3 DEF generate_linear_transfer_ref, contains, TypeOK, ObjectsTypeOK, IsTable,
       Core, LinearTransferRef
  <2> QED
    BY <1>3, <2>1 DEF generate_linear_transfer_ref, TypeOK, ObjectsTypeOK, objectVars
<1> QED
  BY <1>1, <1>2, <1>3

\* transfer_with_ref takes the tombstone away, if there is one.
LEMMA LinearRefKeepsTypeOK == TypeOK /\ UseLinearRef => TypeOK'
<1> SUFFICES ASSUME TypeOK, NEW ref \in linear_refs, NEW to \in Addresses,
                    transfer_with_ref(ref, to)
             PROVE  TypeOK'
  BY DEF UseLinearRef
<1>1. IsTable(objects', ObjectAddresses, Core) /\ DOMAIN objects' = DOMAIN objects
  BY ChangedCoreIsTyped DEF transfer_with_ref, contains, TypeOK
<1>2. IsTable(tombstones', ObjectAddresses, Accounts \cup ObjectAddresses)
  BY RemoveFromTable DEF transfer_with_ref, TypeOK, ObjectsTypeOK
<1> QED
  BY <1>1, <1>2 DEF transfer_with_ref, TypeOK, ObjectsTypeOK

\* TypeOK is inductive.
LEMMA StepKeepsTypeOK == TypeOK /\ [Next]_vars => TypeOK'
<1> SUFFICES ASSUME TypeOK, [Next]_vars PROVE TypeOK'
  OBVIOUS
<1>1. CASE UseSigner
  BY <1>1, SignersKeepObjectsTyped DEF UseSigner, TypeOK, refVars
<1>2. CASE EndTransaction
  BY <1>2 DEF EndTransaction, TypeOK, ObjectsTypeOK, objectVars
<1>3. CASE UNCHANGED vars
  BY <1>3 DEF vars, objectVars, refVars, TypeOK, ObjectsTypeOK
<1> QED
  BY <1>1, <1>2, <1>3, CreateKeepsTypeOK, ConstructorRefKeepsTypeOK, StoredRefKeepsTypeOK,
     LinearRefKeepsTypeOK DEF Next

(* Every reachable state of the object framework is well typed; among other *)
(* things no Untransferable resource is left behind by object::delete.      *)
THEOREM TypeCorrect == Spec => []TypeOK
<1> QED
  BY TypeOKInitially, StepKeepsTypeOK, PTL DEF Spec

-----------------------------------------------------------------------------
(* Where objects stay.                                                     *)

\* An untransferable object is gated, whatever its refs do.
UntransferableIsGated ==
  \A object \in untransferable : ~objects[object].allow_ungated_transfer

UntransferableInv == TypeOK /\ UntransferableIsGated

\* What UntransferableStays says of one object and one step.
StaysGated(object) ==
  object \in DOMAIN objects' =>
    /\ object \in untransferable'
    /\ ~objects'[object].allow_ungated_transfer
    /\ objects[object].owner # BURN_ADDRESS => objects'[object].owner = objects[object].owner

\* Each step, taken alone, keeps an untransferable object where it is.
LEMMA UntransferableStep ==
  ASSUME UntransferableInv, [Next]_vars, NEW object \in untransferable
  PROVE  StaysGated(object)
<1>1. object \in DOMAIN objects /\ ~objects[object].allow_ungated_transfer
  BY DEF UntransferableInv, UntransferableIsGated, TypeOK, ObjectsTypeOK
<1>2. CASE Create
  BY <1>1, <1>2 DEF Create, create_object, create_named_object, with_object, add, contains, StaysGated
<1>3. CASE UseConstructorRef
  BY <1>1, <1>3 DEF UseConstructorRef, generate_delete_ref, generate_extend_ref,
     generate_transfer_ref, keep, objectVars, set_untransferable, StaysGated
<1>4. CASE UseStoredRef
  <2> SUFFICES ASSUME NEW other \in ObjectAddresses,
                      \/ delete(other)
                      \/ disable_ungated_transfer(other)
                      \/ enable_ungated_transfer(other)
                      \/ generate_linear_transfer_ref(other)
               PROVE  StaysGated(object)
    BY <1>4 DEF UseStoredRef
  <2>1. CASE delete(other)
    BY <1>1, <2>1 DEF delete, remove, StaysGated
  <2>2. CASE disable_ungated_transfer(other)
    BY <1>1, <2>2 DEF disable_ungated_transfer, StaysGated
  <2>3. CASE enable_ungated_transfer(other)
    BY <1>1, <2>3 DEF enable_ungated_transfer, StaysGated
  <2>4. CASE generate_linear_transfer_ref(other)
    BY <1>1, <2>4 DEF generate_linear_transfer_ref, objectVars, StaysGated
  <2> QED
    BY <2>1, <2>2, <2>3, <2>4
<1>5. CASE UseLinearRef
  BY <1>1, <1>5 DEF UseLinearRef, transfer_with_ref, StaysGated
<1>6. CASE UseSigner
  <2>1. PICK signer, other : \/ \E to : transfer_raw(signer, other, to)
                             \/ burn(signer, other)
                             \/ unburn(signer, other)
    BY <1>6 DEF UseSigner
  <2> QED
    BY <1>1, <2>1, GatedFromSigners DEF StaysGated, UntransferableInv, TypeOK
<1>7. CASE EndTransaction \/ UNCHANGED vars
  BY <1>1, <1>7 DEF EndTransaction, vars, objectVars, StaysGated
<1> QED
  BY <1>2, <1>3, <1>4, <1>5, <1>6, <1>7 DEF Next

\* The only step that makes objects untransferable also gates them.
LEMMA StepKeepsGated == UntransferableInv /\ [Next]_vars => UntransferableInv'
<1> SUFFICES ASSUME UntransferableInv, [Next]_vars PROVE UntransferableInv'
  OBVIOUS
<1>1. TypeOK'
  BY StepKeepsTypeOK DEF UntransferableInv
<1>2. ASSUME NEW object \in untransferable' PROVE ~objects'[object].allow_ungated_transfer
  <2>1. object \in DOMAIN objects'
    BY <1>1, <1>2 DEF TypeOK, ObjectsTypeOK
  <2>2. CASE object \in untransferable
    BY <2>1, <2>2, UntransferableStep DEF StaysGated
  <2>3. CASE object \notin untransferable
    <3>1. PICK ref \in constructor_refs : set_untransferable(ref) /\ ref.self = object
      BY <1>2, <2>3
      DEF Next, vars, objectVars, EndTransaction, Create, create_object, create_named_object,
          UseConstructorRef, generate_delete_ref, generate_extend_ref, generate_transfer_ref, keep,
          UseStoredRef, delete, disable_ungated_transfer, enable_ungated_transfer,
          generate_linear_transfer_ref, UseLinearRef, transfer_with_ref,
          UseSigner, transfer_raw, burn, unburn, set_untransferable
    <3>2. objects[object] \in Core /\ object \in DOMAIN objects
      BY <3>1 DEF set_untransferable, contains, UntransferableInv, TypeOK, ObjectsTypeOK, IsTable
    <3> QED
      BY <3>1, <3>2 DEF set_untransferable, Core
  <2> QED
    BY <2>2, <2>3
<1> QED
  BY <1>1, <1>2 DEF UntransferableInv, UntransferableIsGated

(* Once object::set_untransferable was called for an object, no TransferRef,*)
(* LinearTransferRef or signer changes its owner, until it is deleted;      *)
(* the exception is object::unburn from the burn address.                   *)
THEOREM UntransferableObjectsStay == Spec => UntransferableStays
<1>1. Init => UntransferableInv
  BY TypeOKInitially DEF UntransferableInv, UntransferableIsGated, Init, InitObjects
<1>2. UntransferableInv /\ [Next]_vars =>
        [\A object \in untransferable :
           contains(objects', object) =>
             /\ object \in untransferable'
             /\ ~objects'[object].allow_ungated_transfer
             /\ objects[object].owner # BURN_ADDRESS =>
                  objects'[object].owner = objects[object].owner]_vars
  BY UntransferableStep DEF StaysGated, contains
<1> QED
  BY <1>1, <1>2, StepKeepsGated, PTL DEF Spec, UntransferableStays

\* What PinnedObjectsStay says of one object and one step.
StaysPinned(object) ==
  object \in DOMAIN objects' =>
    /\ ~objects'[object].allow_ungated_transfer
    /\ ~\/ [kind |-> "transfer", self |-> object] \in refs'
        \/ \E ref \in constructor_refs' \cup linear_refs' : ref.self = object
    /\ objects[object].owner # BURN_ADDRESS => objects'[object].owner = objects[object].owner

\* Refs of an object come only from refs of the object, or with the object.
LEMMA PinnedStep ==
  ASSUME TypeOK, [Next]_vars, NEW object \in DOMAIN objects, Pinned(object)
  PROVE  StaysPinned(object)
<1>1. /\ object \in DOMAIN objects /\ ~objects[object].allow_ungated_transfer
      /\ [kind |-> "transfer", self |-> object] \notin refs
      /\ \A ref \in constructor_refs : ref.self # object
      /\ \A ref \in linear_refs : ref.self # object
  BY DEF Pinned, Referenced, Held
<1>2. CASE Create
  <2>1. PICK other, can_delete, owner :
          /\ other \notin DOMAIN objects
          /\ objects' = with_object(other, owner)
          /\ constructor_refs' = constructor_refs \cup {[self |-> other, can_delete |-> can_delete]}
          /\ UNCHANGED <<linear_refs, refs>>
    BY <1>2 DEF Create, create_object, create_named_object, contains
  <2>2. \A ref \in constructor_refs' : ref.self # object
    BY <1>1, <2>1
  <2>3. objects'[object] = objects[object]
    BY <1>1, <2>1 DEF with_object, add
  <2> QED
    BY <1>1, <2>1, <2>2, <2>3 DEF StaysPinned
<1>3. CASE UseConstructorRef
  <2>1. PICK ref \in constructor_refs :
          \/ \E kind : keep(kind, ref)
          \/ set_untransferable(ref)
    BY <1>3 DEF UseConstructorRef, generate_delete_ref, generate_extend_ref, generate_transfer_ref
  <2>2. ref.self # object
    BY <1>1
  <2>3. ASSUME NEW kind, keep(kind, ref) PROVE StaysPinned(object)
    BY <1>1, <2>2, <2>3 DEF keep, objectVars, StaysPinned
  <2>4. CASE set_untransferable(ref)
    BY <1>1, <2>2, <2>4 DEF set_untransferable, refVars, StaysPinned
  <2> QED
    BY <2>1, <2>3, <2>4
<1>4. CASE UseStoredRef
  <2> SUFFICES ASSUME NEW other \in ObjectAddresses,
                      \/ delete(other)
                      \/ disable_ungated_transfer(other)
                      \/ enable_ungated_transfer(other)
                      \/ generate_linear_transfer_ref(other)
               PROVE  StaysPinned(object)
    BY <1>4 DEF UseStoredRef
  <2>1. CASE delete(other)
    BY <1>1, <2>1 DEF delete, remove, StaysPinned
  <2>2. CASE disable_ungated_transfer(other)
    BY <1>1, <2>2 DEF disable_ungated_transfer, refVars, Held, StaysPinned
  <2>3. CASE enable_ungated_transfer(other)
    BY <1>1, <2>3 DEF enable_ungated_transfer, refVars, Held, StaysPinned
  <2>4. CASE generate_linear_transfer_ref(other)
    BY <1>1, <2>4 DEF generate_linear_transfer_ref, objectVars, Held, StaysPinned
  <2> QED
    BY <2>1, <2>2, <2>3, <2>4
<1>5. CASE UseLinearRef
  BY <1>1, <1>5 DEF UseLinearRef, transfer_with_ref, StaysPinned
<1>6. CASE UseSigner
  <2>1. PICK signer, other : /\ \/ \E to : transfer_raw(signer, other, to)
                                \/ burn(signer, other)
                                \/ unburn(signer, other)
                             /\ UNCHANGED refVars
    BY <1>6 DEF UseSigner
  <2>2. /\ ~objects'[object].allow_ungated_transfer
        /\ objects[object].owner # BURN_ADDRESS => objects'[object].owner = objects[object].owner
    BY <1>1, <2>1, GatedFromSigners DEF TypeOK
  <2> QED
    BY <1>1, <2>1, <2>2 DEF refVars, StaysPinned
<1>7. CASE EndTransaction \/ UNCHANGED vars
  BY <1>1, <1>7 DEF EndTransaction, vars, objectVars, refVars, StaysPinned
<1> QED
  BY <1>2, <1>3, <1>4, <1>5, <1>6, <1>7 DEF Next

(* Disabling ungated transfer and letting the refs go pins an object for    *)
(* good: what create_agent_internal and issue_reputation_internal rely on.  *)
THEOREM PinnedObjectsAreFixed == Spec => PinnedObjectsStay
<1>1. TypeOK /\ [Next]_vars =>
        [\A object \in DOMAIN objects :
           Pinned(object) /\ contains(objects', object) =>
             /\ Pinned(object)'
             /\ objects[object].owner # BURN_ADDRESS =>
                  objects'[object].owner = objects[object].owner]_vars
  <2> SUFFICES ASSUME TypeOK, [Next]_vars, NEW object \in DOMAIN objects,
                      Pinned(object), object \in DOMAIN objects'
               PROVE  /\ Pinned(object)'
                      /\ objects[object].owner # BURN_ADDRESS =>
                           objects'[object].owner = objects[object].owner
    BY DEF contains
  <2>1. StaysPinned(object)
    BY PinnedStep
  <2>2. Pinned(object)'
    BY <2>1 DEF StaysPinned, Pinned, Referenced, Held, contains
  <2> QED
    BY <2>1, <2>2 DEF StaysPinned
<1> QED
  BY <1>1, TypeOKInitially, StepKeepsTypeOK, PTL DEF Spec, PinnedObjectsStay

-----------------------------------------------------------------------------
(* The walk up the owners.                                                 *)

\* Whatever the loop finds is a path of at most the steps that are left.
LEMMA LoopFollowsPaths ==
  ASSUME ObjectsTypeOK, NEW owner, NEW depth \in Nat \ {0},
         NEW found, found = Loop(owner, depth, found)
  PROVE  \A count \in 0 .. depth - 1, current \in Addresses :
           found[count][current] = Reaches(depth - 1 - count, current, owner)
<1> DEFINE wrong == {k \in 0 .. depth - 1 :
                       \E current \in Addresses :
                         found[depth - 1 - k][current] # Reaches(k, current, owner)}
<1>1. SUFFICES wrong = {}
  <2>1. ASSUME NEW count \in 0 .. depth - 1, NEW current \in Addresses, wrong = {}
        PROVE  found[count][current] = Reaches(depth - 1 - count, current, owner)
    <3>1. depth - 1 - count \in 0 .. depth - 1 /\ depth - 1 - (depth - 1 - count) = count
      OBVIOUS
    <3> QED
      BY <2>1, <3>1
  <2> QED
    BY <2>1
<1>2. SUFFICES ASSUME wrong # {} PROVE FALSE
  OBVIOUS
<1>3. PICK k \in wrong : \A j \in wrong : k <= j
  <2>1. wrong \subseteq Nat
    OBVIOUS
  <2> HIDE DEF wrong
  <2> QED
    BY <1>2, <2>1, LeastOf
<1>4. PICK current \in Addresses : found[depth - 1 - k][current] # Reaches(k, current, owner)
  OBVIOUS
<1>5. k \in 0 .. depth - 1 /\ k \in Nat /\ depth - 1 - k \in 0 .. depth - 1
  OBVIOUS
<1>6. \A j \in 0 .. depth - 1 : j < k =>
        \A c \in Addresses : found[depth - 1 - j][c] = Reaches(j, c, owner)
  BY <1>3
<1> HIDE DEF wrong
<1>7. found[depth - 1 - k][current] =
        (\/ owner = current
         \/ /\ (depth - 1 - k) + 1 < depth
            /\ ungated(current)
            /\ found[(depth - 1 - k) + 1][objects[current].owner])
  <2>1. ASSUME NEW count \in 0 .. depth - 1, NEW c \in Addresses
        PROVE  Loop(owner, depth, found)[count][c] =
                 (\/ owner = c
                  \/ /\ count + 1 < depth
                     /\ ungated(c)
                     /\ found[count + 1][objects[c].owner])
    BY DEF Loop
  <2> DEFINE looped == Loop(owner, depth, found)
  <2>2. found[depth - 1 - k][current] = looped[depth - 1 - k][current]
    OBVIOUS
  <2>3. looped[depth - 1 - k][current] =
          (\/ owner = current
           \/ /\ (depth - 1 - k) + 1 < depth
              /\ ungated(current)
              /\ found[(depth - 1 - k) + 1][objects[current].owner])
    BY <1>5, <2>1
  <2> HIDE DEF looped
  <2> QED
    BY <2>2, <2>3, Zenon
<1>8. (depth - 1 - k) + 1 < depth <=> k > 0
  BY <1>5
<1>9. ASSUME k > 0, ungated(current)
      PROVE  found[(depth - 1 - k) + 1][objects[current].owner]
               = Reaches(k - 1, objects[current].owner, owner)
  <2>1. k - 1 \in 0 .. depth - 1 /\ k - 1 < k /\ (depth - 1 - k) + 1 = depth - 1 - (k - 1)
    BY <1>5, <1>9
  <2>2. objects[current].owner \in Addresses
    BY <1>9, OwnerIsAddress
  <2> QED
    BY <1>6, <2>1, <2>2
<1>10. Reaches(k, current, owner) <=>
         \/ owner = current
         \/ /\ k > 0 /\ ungated(current)
            /\ Reaches(k - 1, objects[current].owner, owner)
  BY <1>5, FirstStep
<1>11. Reaches(k, current, owner) \in BOOLEAN
  BY DEF Reaches
<1> QED
  BY <1>4, <1>7, <1>8, <1>9, <1>10, <1>11

\* A path up from the owner of the object is a chain of owners.
LEMMA PathIsChain ==
  ASSUME ObjectsTypeOK, NEW object, ungated(object), NEW owner
  PROVE  Reaches(MAXIMUM_OBJECT_NESTING - 1, objects[object].owner, owner)
           <=> OwnerChain(owner, object)
<1> DEFINE Middle == {o \in ObjectAddresses : ungated(o)}
<1> DEFINE Chain(between) == <<object>> \o between \o <<owner>>
<1>0. MAXIMUM_OBJECT_NESTING \in Nat /\ MAXIMUM_OBJECT_NESTING > 0
  BY NestingAssumption
<1>1. ASSUME NEW k \in Nat, NEW between \in [1 .. k -> Middle], NEW i \in 1 .. k + 2
      PROVE  Chain(between)[i] = IF i = 1 THEN object
                                 ELSE IF i = k + 2 THEN owner ELSE between[i - 1]
  <2>1. between \in Seq(Middle) /\ Len(between) = k
    OBVIOUS
  <2>2. between \in Seq(Middle \cup {object, owner})
    BY <2>1
  <2> QED
    BY <2>1, <2>2
<1>2. ASSUME NEW n \in 0 .. MAXIMUM_OBJECT_NESTING - 1, NEW path \in [0 .. n -> Addresses],
             IsPath(path, n, objects[object].owner, owner)
      PROVE  OwnerChain(owner, object)
  <2> DEFINE between == [i \in 1 .. n |-> path[i - 1]]
  <2>1. n \in Nat /\ n + 1 \in 1 .. MAXIMUM_OBJECT_NESTING /\ n + 1 - 1 = n
    BY <1>0
  <2>2. between \in [1 .. n -> Middle]
    <3>1. ASSUME NEW i \in 1 .. n
          PROVE  path[i - 1] \in Middle
      <4>1. i - 1 \in 0 .. n - 1
        BY <2>1
      <4>2. ungated(path[i - 1])
        BY <1>2, <4>1 DEF IsPath
      <4> QED
        BY <4>2, OwnerIsAddress
    <3> QED
      BY <3>1
  <2>3. ASSUME NEW i \in 1 .. n + 1
        PROVE  objects[Chain(between)[i]].owner = Chain(between)[i + 1]
    <3>1. i \in 1 .. n + 2 /\ i + 1 \in 1 .. n + 2 /\ i + 1 # 1 /\ i + 1 - 1 = i
      BY <2>1
    <3>2. /\ Chain(between)[i] = IF i = 1 THEN object ELSE between[i - 1]
          /\ Chain(between)[i + 1] = IF i = n + 1 THEN owner ELSE between[i]
      BY <1>1, <2>1, <2>2, <3>1
    <3>3. between[i] = path[i - 1] \/ i = n + 1
      BY <2>1
    <3>4. Chain(between)[i + 1] = path[i - 1]
      BY <1>2, <2>1, <3>2, <3>3 DEF IsPath
    <3>5. CASE i = 1
      BY <1>2, <3>2, <3>4, <3>5 DEF IsPath
    <3>6. CASE i # 1
      <4>1. i - 1 \in 1 .. n /\ i - 2 \in 0 .. n - 1 /\ (i - 1) - 1 = i - 2 /\ (i - 2) + 1 = i - 1
        BY <2>1, <3>6
      <4>2. Chain(between)[i] = path[i - 2]
        BY <3>2, <3>6, <4>1
      <4> QED
        BY <1>2, <3>4, <4>1, <4>2 DEF IsPath
    <3> QED
      BY <3>5, <3>6
  <2>4. \E b \in [1 .. (n + 1) - 1 -> Middle] :
          \A i \in 1 .. n + 1 : objects[Chain(b)[i]].owner = Chain(b)[i + 1]
    <3> HIDE DEF between
    <3>1. [1 .. (n + 1) - 1 -> Middle] = [1 .. n -> Middle]
      BY <2>1
    <3> QED
      BY <2>2, <2>3, <3>1
  <2> HIDE DEF between
  <2> QED
    BY <2>1, <2>4 DEF OwnerChain
<1>3. ASSUME OwnerChain(owner, object)
      PROVE  Reaches(MAXIMUM_OBJECT_NESTING - 1, objects[object].owner, owner)
  <2>1. PICK depth \in 1 .. MAXIMUM_OBJECT_NESTING :
          \E between \in [1 .. depth - 1 -> Middle] :
            \A i \in 1 .. depth : objects[Chain(between)[i]].owner = Chain(between)[i + 1]
    BY <1>3 DEF OwnerChain
  <2>2. PICK between \in [1 .. depth - 1 -> Middle] :
          \A i \in 1 .. depth : objects[Chain(between)[i]].owner = Chain(between)[i + 1]
    BY <2>1
  <2> DEFINE n == depth - 1
  <2>3. n \in Nat /\ n \in 0 .. MAXIMUM_OBJECT_NESTING - 1 /\ depth = n + 1
    BY <1>0
  <2>4. between \in [1 .. n -> Middle]
    OBVIOUS
  <2> HIDE DEF n
  <2>5. \A i \in 1 .. n + 2 :
          Chain(between)[i] = IF i = 1 THEN object
                              ELSE IF i = n + 2 THEN owner ELSE between[i - 1]
    BY <1>1, <2>3, <2>4
  <2>6. \A i \in 1 .. n + 1 : objects[Chain(between)[i]].owner = Chain(between)[i + 1]
    BY <2>2, <2>3
  <2> DEFINE path == [i \in 0 .. n |-> IF i = n THEN owner ELSE between[i + 1]]
  <2>7. ASSUME NEW i \in 0 .. n
        PROVE  path[i] = Chain(between)[i + 2]
    BY <2>3, <2>5
  <2>8. path[0] = objects[object].owner
    <3>1. Chain(between)[1] = object /\ 1 \in 1 .. n + 1
      BY <2>3, <2>5
    <3> QED
      BY <2>3, <2>6, <2>7, <3>1
  <2>9. ASSUME NEW i \in 0 .. n - 1
        PROVE  ungated(path[i]) /\ path[i + 1] = objects[path[i]].owner
    <3>1. i \in 0 .. n /\ i + 1 \in 0 .. n /\ i + 1 \in 1 .. n /\ i + 2 \in 1 .. n + 1
          /\ i # n /\ (i + 1) + 2 = (i + 2) + 1
      BY <2>3
    <3>2. path[i] = between[i + 1]
      BY <3>1
    <3>3. between[i + 1] \in Middle
      BY <2>4, <3>1
    <3>4. objects[Chain(between)[i + 2]].owner = Chain(between)[(i + 2) + 1]
      BY <2>6, <3>1
    <3>5. path[i] = Chain(between)[i + 2] /\ path[i + 1] = Chain(between)[(i + 1) + 2]
      BY <2>7, <3>1
    <3> QED
      BY <3>1, <3>2, <3>3, <3>4, <3>5
  <2>10. path \in [0 .. n -> Addresses]
    <3>1. ASSUME NEW i \in 0 .. n
          PROVE  path[i] \in Addresses
      <4>1. CASE i = 0
        BY <2>8, <4>1, OwnerIsAddress
      <4>2. CASE i # 0
        <5>1. i - 1 \in 0 .. n - 1 /\ (i - 1) + 1 = i
          BY <2>3, <4>2
        <5>2. ungated(path[i - 1]) /\ path[i] = objects[path[i - 1]].owner
          BY <2>9, <5>1
        <5> QED
          BY <5>2, OwnerIsAddress
      <4> QED
        BY <4>1, <4>2
    <3> HIDE DEF path
    <3>2. path = [i \in 0 .. n |-> path[i]]
      BY DEF path
    <3> QED
      BY <3>1, <3>2
  <2>11. path[n] = owner
    BY <2>3
  <2> HIDE DEF path
  <2>12. IsPath(path, n, objects[object].owner, owner)
    BY <2>8, <2>9, <2>10, <2>11 DEF IsPath
  <2> QED
    BY <2>3, <2>10, <2>12 DEF Reaches
<1> QED
  BY <1>2, <1>3 DEF Reaches

\* The loop of verify_ungated_and_descendant decides as TransferAuthority says.
LEMMA WalkDecides == ObjectsTypeOK => TransferAuthority
<1> SUFFICES ASSUME ObjectsTypeOK, NEW owner \in Accounts \cup ObjectAddresses,
                    NEW object \in ObjectAddresses
             PROVE  verify_ungated_and_descendant(owner, object) <=> OwnerChain(owner, object)
  BY DEF TransferAuthority
<1>1. CASE ~ungated(object)
  BY <1>1 DEF verify_ungated_and_descendant, OwnerChain
<1>2. CASE ungated(object)
  <2>1. MAXIMUM_OBJECT_NESTING \in Nat \ {0}
    BY NestingAssumption
  <2>2. 0 \in 0 .. MAXIMUM_OBJECT_NESTING - 1
        /\ MAXIMUM_OBJECT_NESTING - 1 - 0 = MAXIMUM_OBJECT_NESTING - 1
    BY <2>1
  <2>3. objects[object].owner \in Addresses
    BY <1>2, OwnerIsAddress
  <2> DEFINE found == walk(owner, MAXIMUM_OBJECT_NESTING)
  <2>4. found = Loop(owner, MAXIMUM_OBJECT_NESTING, found)
    BY <2>1, WalkIsLoop
  <2> HIDE DEF found
  <2>5. found[0][objects[object].owner]
          = Reaches(MAXIMUM_OBJECT_NESTING - 1 - 0, objects[object].owner, owner)
    BY <2>1, <2>2, <2>3, <2>4, LoopFollowsPaths
  <2>6. found[0][objects[object].owner]
          = Reaches(MAXIMUM_OBJECT_NESTING - 1, objects[object].owner, owner)
    BY <2>2, <2>5
  <2>7. found[0][objects[object].owner] <=> OwnerChain(owner, object)
    BY <1>2, <2>6, PathIsChain
  <2> QED
    BY <1>2, <2>7 DEF verify_ungated_and_descendant, found
<1> QED
  BY <1>1, <1>2

\* In every graph of owners, cyclic ones included, a signer can transfer exactly
\* the objects that a chain of owners with ungated transfer leads up from to it,
\* within MAXIMUM_OBJECT_NESTING (verify_ungated_and_descendant).
THEOREM TransfersFollowOwners == Spec => []TransferAuthority
<1>1. TypeOK => TransferAuthority
  BY WalkDecides DEF TypeOK
<1> QED
  BY <1>1, TypeCorrect, PTL
=============================================================================
