-------------------------- MODULE ObjectCoreTheorems --------------------------
(***************************************************************************)
(* What the calls that any signer can make do to objects, for every value   *)
(* of the constants.  What keeps an object in place is the flag that is     *)
(* read before the walk up the owners, and those that the walk reads on its *)
(* way.                                                                    *)
(***************************************************************************)
EXTENDS ObjectCore, MoveTableTheorems, WellFoundedInduction

\* The walk starts with the flag of the object itself.
LEMMA VerifiedIsUngated ==
  ASSUME NEW owner, NEW object, verify_ungated_and_descendant(owner, object)
  PROVE  ungated(object)
  BY DEF verify_ungated_and_descendant

\* A new object keeps the resources well typed.
LEMMA NewObjectIsTyped ==
  ASSUME ObjectsTypeOK, NEW object \in ObjectAddresses, NEW owner \in Addresses,
         objects' = with_object(object, owner), UNCHANGED <<untransferable, tombstones>>
  PROVE  ObjectsTypeOK'
<1>1. [owner |-> owner, allow_ungated_transfer |-> TRUE] \in Core
  BY DEF Core
<1> DEFINE core == [owner |-> owner, allow_ungated_transfer |-> TRUE]
<1>2. objects' = add(objects, object, core)
  BY DEF with_object
<1>3. core \in Core /\ IsTable(objects, ObjectAddresses, Core)
  BY <1>1 DEF ObjectsTypeOK
<1> HIDE DEF core
<1>4. IsTable(objects', ObjectAddresses, Core) /\ DOMAIN objects' = DOMAIN objects \cup {object}
  BY <1>2, <1>3, AddToTable
<1> QED
  BY <1>4 DEF ObjectsTypeOK

\* A new value of one field of one ObjectCore.
LEMMA ChangedCoreIsTyped ==
  ASSUME ObjectsTypeOK, NEW object \in DOMAIN objects,
         \/ \E to \in Addresses : objects' = [objects EXCEPT ![object].owner = to]
         \/ \E flag \in BOOLEAN :
              objects' = [objects EXCEPT ![object].allow_ungated_transfer = flag]
  PROVE  IsTable(objects', ObjectAddresses, Core) /\ DOMAIN objects' = DOMAIN objects
<1>1. objects[object] \in Core
  BY DEF ObjectsTypeOK, IsTable
<1> QED
  BY <1>1 DEF ObjectsTypeOK, IsTable, Core

\* transfer_raw, burn and unburn, by any signer, keep the resources well typed.
LEMMA SignersKeepObjectsTyped ==
  ASSUME ObjectsTypeOK, NEW signer \in Accounts \cup ObjectAddresses,
         NEW object \in ObjectAddresses,
         \/ \E to \in Addresses : transfer_raw(signer, object, to)
         \/ burn(signer, object)
         \/ unburn(signer, object)
  PROVE  ObjectsTypeOK' /\ DOMAIN objects' = DOMAIN objects
<1>1. ASSUME NEW to \in Addresses, transfer_raw(signer, object, to)
      PROVE  ObjectsTypeOK' /\ DOMAIN objects' = DOMAIN objects
  <2>1. object \in DOMAIN objects
    BY <1>1, VerifiedIsUngated DEF transfer_raw, ungated, contains
  <2>2. IsTable(objects', ObjectAddresses, Core) /\ DOMAIN objects' = DOMAIN objects
    BY <1>1, <2>1, ChangedCoreIsTyped DEF transfer_raw, transfer_raw_inner
  <2> QED
    BY <1>1, <2>2 DEF transfer_raw, ObjectsTypeOK
<1>2. CASE burn(signer, object)
  <2>1. IsTable(tombstones', ObjectAddresses, Accounts \cup ObjectAddresses)
    BY <1>2, AddToTable DEF burn, ObjectsTypeOK
  <2> QED
    BY <1>2, <2>1 DEF burn, ObjectsTypeOK
<1>3. CASE unburn(signer, object)
  <2>1. /\ object \in DOMAIN objects /\ signer \in Addresses
        /\ tombstones' = remove(tombstones, object)
        /\ UNCHANGED untransferable
        /\ UNCHANGED objects \/ objects' = [objects EXCEPT ![object].owner = signer]
    BY <1>3 DEF unburn, transfer_raw_inner, contains, Addresses
  <2>2. IsTable(tombstones', ObjectAddresses, Accounts \cup ObjectAddresses)
    BY <2>1, RemoveFromTable DEF ObjectsTypeOK
  <2>3. IsTable(objects', ObjectAddresses, Core) /\ DOMAIN objects' = DOMAIN objects
    BY <2>1, ChangedCoreIsTyped DEF ObjectsTypeOK
  <2> QED
    BY <2>1, <2>2, <2>3 DEF ObjectsTypeOK
<1> QED
  BY <1>1, <1>2, <1>3

\* No signer moves an object whose ungated transfer is disabled, except back
\* from the burn address.
LEMMA GatedFromSigners ==
  ASSUME ObjectsTypeOK, NEW signer, NEW object, NEW other,
         object \in DOMAIN objects, ~objects[object].allow_ungated_transfer,
         \/ \E to : transfer_raw(signer, other, to)
         \/ burn(signer, other)
         \/ unburn(signer, other)
  PROVE  /\ object \in DOMAIN objects'
         /\ ~objects'[object].allow_ungated_transfer
         /\ objects[object].owner # BURN_ADDRESS => objects'[object].owner = objects[object].owner
         /\ UNCHANGED untransferable
<1>1. ASSUME NEW to, transfer_raw(signer, other, to)
      PROVE  object # other /\ objects' = [objects EXCEPT ![other].owner = to]
  <2>1. ungated(other)
    BY <1>1, VerifiedIsUngated DEF transfer_raw
  <2> QED
    BY <1>1, <2>1 DEF transfer_raw, transfer_raw_inner, ungated
<1>2. CASE burn(signer, other)
  BY <1>2 DEF burn
<1>3. CASE unburn(signer, other)
  BY <1>3 DEF unburn, transfer_raw_inner, contains, ObjectsTypeOK, IsTable, Core
<1> QED
  BY <1>1, <1>2, <1>3 DEF transfer_raw
-----------------------------------------------------------------------------
(* The walk up the owners.                                                 *)

\* A set of numbers that is not empty has a least one.
LEMMA LeastOf ==
  ASSUME NEW S, S \subseteq Nat, S # {}
  PROVE  \E n \in S : \A m \in S : n <= m
<1> DEFINE Less == {mn \in Nat \X Nat : mn[1] < mn[2]}
<1>1. IsWellFoundedOn(Less, Nat)
  BY NatLessThanWellFounded DEF OpToRel
<1>2. \A m, n \in Nat : m < n => <<m, n>> \in Less
  OBVIOUS
<1> HIDE DEF Less
<1>3. PICK n \in S : \A m \in S : ~(<<m, n>> \in Less)
  BY <1>1, WFMin
<1>4. ASSUME NEW m \in S
      PROVE  n <= m
  <2>1. m \in Nat /\ n \in Nat
    OBVIOUS
  <2>2. m < n => <<m, n>> \in Less
    BY <1>2, <2>1
  <2>3. ~(m < n)
    BY <1>3, <2>2
  <2> QED
    BY <2>1, <2>3
<1> QED
  BY <1>4

\* The owners that n steps of the loop meet, from start up to owner.
IsPath(path, n, start, owner) ==
  /\ path \in [0 .. n -> Addresses]
  /\ path[0] = start /\ path[n] = owner
  /\ \A i \in 0 .. n - 1 : ungated(path[i]) /\ path[i + 1] = objects[path[i]].owner

\* Within k steps
Reaches(k, start, owner) ==
  \E n \in 0 .. k : \E path \in [0 .. n -> Addresses] : IsPath(path, n, start, owner)

\* One step of the loop, on a first owner.
LEMMA FirstStep ==
  ASSUME ObjectsTypeOK, NEW k \in Nat, NEW start \in Addresses, NEW owner
  PROVE  Reaches(k, start, owner) <=>
           \/ owner = start
           \/ /\ k > 0 /\ ungated(start)
              /\ Reaches(k - 1, objects[start].owner, owner)
<1>1. ASSUME owner = start
      PROVE  Reaches(k, start, owner)
  <2> DEFINE path == [i \in 0 .. 0 |-> start]
  <2>1. IsPath(path, 0, start, owner) /\ path \in [0 .. 0 -> Addresses]
    BY <1>1 DEF IsPath
  <2>2. 0 \in 0 .. k
    OBVIOUS
  <2> HIDE DEF path
  <2> QED
    BY <2>1, <2>2 DEF Reaches
<1>2. ASSUME k > 0, ungated(start), Reaches(k - 1, objects[start].owner, owner)
      PROVE  Reaches(k, start, owner)
  <2>0. PICK n \in 0 .. k - 1 : \E path \in [0 .. n -> Addresses] :
          IsPath(path, n, objects[start].owner, owner)
    BY <1>2 DEF Reaches
  <2>1. PICK path \in [0 .. n -> Addresses] : IsPath(path, n, objects[start].owner, owner)
    BY <2>0
  <2> DEFINE longer == [i \in 0 .. n + 1 |-> IF i = 0 THEN start ELSE path[i - 1]]
  <2>2. n \in Nat /\ n + 1 \in 0 .. k /\ n + 1 - 1 = n
    BY <1>2
  <2>3. longer \in [0 .. n + 1 -> Addresses]
    BY <2>1, <2>2
  <2>4. longer[0] = start /\ longer[n + 1] = owner
    BY <2>1, <2>2 DEF IsPath
  <2>5. ASSUME NEW i \in 0 .. n
        PROVE  ungated(longer[i]) /\ longer[i + 1] = objects[longer[i]].owner
    <3>1. CASE i = 0
      BY <1>2, <2>1, <2>2, <3>1 DEF IsPath
    <3>2. CASE i # 0
      <4>1. i - 1 \in 0 .. n - 1 /\ i \in 0 .. n + 1 /\ i + 1 \in 0 .. n + 1 /\ i + 1 # 0
            /\ i + 1 - 1 = (i - 1) + 1
        BY <2>2, <3>2
      <4>2. longer[i] = path[i - 1] /\ longer[i + 1] = path[(i - 1) + 1]
        BY <3>2, <4>1
      <4> QED
        BY <2>1, <4>1, <4>2 DEF IsPath
    <3> QED
      BY <3>1, <3>2
  <2> HIDE DEF longer
  <2>6. IsPath(longer, n + 1, start, owner)
    BY <2>2, <2>3, <2>4, <2>5 DEF IsPath
  <2> QED
    BY <2>2, <2>3, <2>6 DEF Reaches
<1>3. ASSUME Reaches(k, start, owner), owner # start
      PROVE  k > 0 /\ ungated(start) /\ Reaches(k - 1, objects[start].owner, owner)
  <2>0. PICK n \in 0 .. k : \E path \in [0 .. n -> Addresses] : IsPath(path, n, start, owner)
    BY <1>3 DEF Reaches
  <2>1. PICK path \in [0 .. n -> Addresses] : IsPath(path, n, start, owner)
    BY <2>0
  <2>2. n \in Nat /\ n # 0 /\ n - 1 \in 0 .. k - 1 /\ k > 0 /\ 0 \in 0 .. n - 1 /\ 0 + 1 = 1
    BY <1>3, <2>1 DEF IsPath
  <2>3. ungated(start) /\ path[1] = objects[start].owner
    BY <2>1, <2>2 DEF IsPath
  <2> DEFINE rest == [i \in 0 .. n - 1 |-> path[i + 1]]
  <2>4. rest \in [0 .. n - 1 -> Addresses]
    BY <2>1, <2>2
  <2>5. rest[0] = objects[start].owner /\ rest[n - 1] = owner
    BY <2>1, <2>2, <2>3 DEF IsPath
  <2>6. ASSUME NEW i \in 0 .. (n - 1) - 1
        PROVE  ungated(rest[i]) /\ rest[i + 1] = objects[rest[i]].owner
    <3>1. i \in 0 .. n - 1 /\ i + 1 \in 0 .. n - 1
      BY <2>2
    <3>2. rest[i] = path[i + 1] /\ rest[i + 1] = path[(i + 1) + 1]
      BY <3>1
    <3> QED
      BY <2>1, <3>1, <3>2 DEF IsPath
  <2> HIDE DEF rest
  <2>7. IsPath(rest, n - 1, objects[start].owner, owner)
    BY <2>4, <2>5, <2>6 DEF IsPath
  <2> QED
    BY <2>2, <2>3, <2>4, <2>7 DEF Reaches
<1> QED
  BY <1>1, <1>2, <1>3

\* The owner of an object is an address.
LEMMA OwnerIsAddress ==
  ASSUME ObjectsTypeOK, NEW object, ungated(object)
  PROVE  objects[object].owner \in Addresses /\ object \in ObjectAddresses
  BY DEF ObjectsTypeOK, IsTable, Core, ungated, contains

\* The loop as a function of the values of count and current.
Loop(owner, depth, found) ==
  [count \in 0 .. depth - 1 |->
     [current \in Addresses |->
        \/ owner = current
        \/ /\ count + 1 < depth
           /\ ungated(current)
           /\ found[count + 1][objects[current].owner]]]

\* There is such a function: what the loop finds is a path.
LEMMA LoopExists ==
  ASSUME ObjectsTypeOK, NEW owner, NEW depth \in Nat \ {0}
  PROVE  \E found : found = Loop(owner, depth, found)
<1> DEFINE found == [count \in 0 .. depth - 1 |->
                       [current \in Addresses |-> Reaches(depth - 1 - count, current, owner)]]
<1>1. ASSUME NEW count \in 0 .. depth - 1, NEW current \in Addresses
      PROVE  Reaches(depth - 1 - count, current, owner) =
               (\/ owner = current
                \/ /\ count + 1 < depth
                   /\ ungated(current)
                   /\ found[count + 1][objects[current].owner])
  <2>1. depth - 1 - count \in Nat
    OBVIOUS
  <2>2. depth - 1 - count > 0 <=> count + 1 < depth
    OBVIOUS
  <2>3. ASSUME count + 1 < depth, ungated(current)
        PROVE  found[count + 1][objects[current].owner] =
                 Reaches((depth - 1 - count) - 1, objects[current].owner, owner)
    <3>1. count + 1 \in 0 .. depth - 1 /\ objects[current].owner \in Addresses
      BY <2>3, OwnerIsAddress
    <3>2. depth - 1 - (count + 1) = (depth - 1 - count) - 1
      OBVIOUS
    <3> QED
      BY <3>1, <3>2
  <2>4. Reaches(depth - 1 - count, current, owner) <=>
           \/ owner = current
           \/ /\ depth - 1 - count > 0 /\ ungated(current)
              /\ Reaches((depth - 1 - count) - 1, objects[current].owner, owner)
    BY <2>1, FirstStep
  <2>5. Reaches(depth - 1 - count, current, owner) \in BOOLEAN
    BY DEF Reaches
  <2> HIDE DEF found
  <2> QED
    BY <2>2, <2>3, <2>4, <2>5
<1>2. found = Loop(owner, depth, found)
  BY <1>1 DEF Loop
<1> QED
  BY <1>2

LEMMA WalkIsLoop ==
  ASSUME ObjectsTypeOK, NEW owner, NEW depth \in Nat \ {0}
  PROVE  walk(owner, depth) = Loop(owner, depth, walk(owner, depth))
<1>1. walk(owner, depth) = CHOOSE found : found = Loop(owner, depth, found)
  BY DEF walk, Loop
<1> QED
  BY <1>1, LoopExists
=============================================================================
