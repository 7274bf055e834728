----------------------------- MODULE MCObjectRefs -----------------------------
(***************************************************************************)
(* Two small instances of ObjectRefs in one run of TLC.  The instance is    *)
(* chosen at the start and limits the steps: "refs" has one deletable or    *)
(* sticky object and one named object with all their refs and two accounts; *)
(* "nesting" has three objects and one account but no refs that last and no *)
(* tombstones, and so every graph of owners, one deeper than the walk goes. *)
(***************************************************************************)
EXTENDS ObjectRefs, TLC

CONSTANTS alice, bob, o1, o2, o3

MCAccounts == {alice, bob}
MCObjects == {o1, o2, o3}
AccountSymmetry == Permutations(MCAccounts)

VARIABLES instance, loner

Nesting ==
  /\ refs = {} /\ linear_refs = {} /\ Cardinality(constructor_refs) <= 1
  /\ tombstones = new
  /\ \A o \in DOMAIN objects : objects[o].owner \in MCObjects \cup {loner, BURN_ADDRESS}

MCInit ==
  /\ Init
  /\ \/ instance = "refs" /\ loner = BURN_ADDRESS
     \/ instance = "nesting" /\ loner \in MCAccounts

MCNext ==
  /\ Next
  /\ UNCHANGED <<instance, loner>>
  /\ instance = "refs" => o3 \notin DOMAIN objects'
  /\ instance = "nesting" => Nesting'

MCSpec == MCInit /\ [][MCNext]_<<vars, instance, loner>>
=============================================================================
