----------------------- MODULE AccountDelegationProofs -----------------------
(***************************************************************************)
(* Theorems about AccountDelegation, for every value of its constants: the  *)
(* types, that revocation is final, that what is spent was granted, and that*)
(* a rate limiter grants what the windows allow.                            *)
(***************************************************************************)
EXTENDS AccountDelegation, MoveTableTheorems

Handles(given) == [account : Accounts, storage : 1 .. given]

LimiterType ==
  [capacity : Nat, current_amount : Nat, refill_interval : Nat,
   last_refill_timestamp : Seconds, fractional_accumulated : Nat]

-----------------------------------------------------------------------------
(* What holds of the resources, in the course of a transaction as well as   *)
(* in the state that a failed transaction comes back to.                    *)

\* The amounts of all storages are well typed.
AmountsTyped(all) ==
  \A x \in DOMAIN all : IsTable(all[x], Permissions, StoredPermission)

\* Registered keys are well typed, and no limiter was refilled in the future.
Registered(registered) ==
  /\ IsTable(registered, Accounts \X DelegationKeys, AccountDelegationType)
  /\ \A d \in DOMAIN registered :
       registered[d].rate_limiter # NoLimiter =>
         registered[d].rate_limiter.last_refill_timestamp <= now_seconds

\* Storages, the lists of active handles, the handles of keys and the handles
\* of the running transaction (mine) belong together; no address of a storage
\* is in two of the handles.
Linked(all, active, given, registered, mine) ==
  /\ given \in 0 .. MaxStorages
  /\ IsTable(active, Accounts, SUBSET (1 .. given))
  /\ mine \subseteq Handles(given)
  /\ \A a \in DOMAIN active : \A x \in active[a] :
       /\ x \in DOMAIN all
       /\ \E d \in DOMAIN registered :
            registered[d].handle.account = a /\ registered[d].handle.storage = x
  /\ \A x \in DOMAIN all :
       (\E a \in DOMAIN active : x \in active[a]) \/ (\E p \in mine : p.storage = x)
  /\ \A p \in mine : p.storage \in DOMAIN all
  /\ \A d \in DOMAIN registered :
       registered[d].handle \in Handles(given) /\ registered[d].handle.account \in DOMAIN active
  /\ \A d, e \in DOMAIN registered :
       registered[d].handle.storage = registered[e].handle.storage => d = e
  /\ \A p \in mine : \A d \in DOMAIN registered : p.storage # registered[d].handle.storage
  /\ \A p, q \in mine : p.storage = q.storage => p = q

\* Signers are for what was there when the transaction began, or came later.
TxInv ==
  /\ DOMAIN tx = {"status", "gas_payer", "max_fee", "calls", "signers", "handles", "saved"}
  /\ tx.status = "running"
  /\ tx.max_fee \in Nat
  /\ tx.gas_payer \in tx.signers
  /\ tx.signers \subseteq Signer
  /\ \A s \in tx.signers :
       s.storage # 0 =>
         enabled /\ (s.storage \in DOMAIN tx.saved.storages \/ s.storage > tx.saved.generated)
  /\ is_permissioned_signer(tx.gas_payer) => tx.gas_payer.storage \in DOMAIN tx.saved.storages
  /\ \A x \in DOMAIN storages : x \in DOMAIN tx.saved.storages \/ x > tx.saved.generated
  /\ tx.saved.generated <= generated
  /\ \A d \in DOMAIN delegations :
       delegations[d].handle \in tx.signers => now_seconds < delegations[d].expiration_time
  /\ AmountsTyped(tx.saved.storages)
  /\ Registered(tx.saved.delegations)
  /\ Linked(tx.saved.storages, tx.saved.active_handles, tx.saved.generated, tx.saved.delegations, {})

Mine == IF running THEN tx.handles ELSE {}

Inv ==
  /\ microseconds \in Timestamps \cup {0}
  /\ enabled \in BOOLEAN
  /\ AmountsTyped(storages)
  /\ Registered(delegations)
  /\ Linked(storages, active_handles, generated, delegations, Mine)
  /\ running => TxInv

-----------------------------------------------------------------------------
(* The clock and the limiters.                                              *)

\* Seconds are natural numbers, now is one of them, and time only goes on.
LEMMA SecondsAreNaturals ==
  /\ Timestamps \cup {0} \subseteq Nat
  /\ Seconds \subseteq Nat
  /\ \A t \in Timestamps \cup {0} : t \div MICRO_CONVERSION_FACTOR \in Seconds
<1>1. ASSUME NEW t \in Nat
      PROVE  t \div MICRO_CONVERSION_FACTOR \in Nat
  BY ConversionFactorAssumption
<1> QED
  BY <1>1, TimestampsAssumption DEF Seconds

LEMMA RoundingIsMonotonic ==
  ASSUME NEW s \in Nat, NEW t \in Nat, s <= t
  PROVE  s \div MICRO_CONVERSION_FACTOR <= t \div MICRO_CONVERSION_FACTOR
  BY ConversionFactorAssumption

\* A limiter that grants a token is well typed afterwards.
LEMMA RequestIsTyped ==
  ASSUME NEW l \in LimiterType, now_seconds \in Seconds,
         l.last_refill_timestamp <= now_seconds, request_granted(l, 1)
  PROVE  request(l, 1) \in LimiterType /\ request(l, 1).last_refill_timestamp = now_seconds
<1>1. accumulated_amount(l) \in Nat
  <2>1. /\ l.capacity \in Nat /\ l.fractional_accumulated \in Nat
        /\ now_seconds - l.last_refill_timestamp \in Nat
    <3>1. l.last_refill_timestamp \in Nat /\ now_seconds \in Nat
      BY SecondsAreNaturals DEF LimiterType
    <3>2. l.capacity \in Nat /\ l.fractional_accumulated \in Nat
      BY DEF LimiterType
    <3> QED
      BY <3>1, <3>2
  <2>2. (now_seconds - l.last_refill_timestamp) * l.capacity \in Nat
    BY <2>1
  <2> QED
    BY <2>1, <2>2 DEF accumulated_amount
<1>2. l.refill_interval \in Nat \ {0} /\ refill(l).current_amount >= 1
  BY DEF LimiterType, request_granted, refill_returns
<1>3. new_tokens(l) \in Nat /\ accumulated_amount(l) % l.refill_interval \in Nat
  BY <1>1, <1>2 DEF new_tokens
<1>4. /\ refill(l) \in LimiterType
      /\ refill(l).last_refill_timestamp = now_seconds
  <2> DEFINE amount == IF l.current_amount + new_tokens(l) >= l.capacity
                       THEN l.capacity ELSE l.current_amount + new_tokens(l)
             rest == IF l.current_amount + new_tokens(l) >= l.capacity
                     THEN 0 ELSE accumulated_amount(l) % l.refill_interval
  <2>1. amount \in Nat /\ rest \in Nat
    BY <1>3 DEF LimiterType
  <2>2. refill(l) = [l EXCEPT !.current_amount = amount, !.fractional_accumulated = rest,
                              !.last_refill_timestamp = now_seconds]
    BY DEF refill
  <2> QED
    BY <2>1, <2>2 DEF LimiterType
<1> QED
  BY <1>2, <1>4 DEF request, LimiterType

-----------------------------------------------------------------------------
(* What is kept when nothing but amounts changes.                           *)

\* insert_or changes one amount of one storage.
LEMMA InsertOr ==
  ASSUME NEW all, AmountsTyped(all), NEW s, contains(all, s.storage),
         NEW key \in Permissions, NEW amount \in StoredPermission
  PROVE  /\ DOMAIN insert_or(all, s, key, amount) = DOMAIN all
         /\ AmountsTyped(insert_or(all, s, key, amount))
         /\ \A t, k : stored(insert_or(all, s, key, amount), t, k) =
              IF t.storage = s.storage /\ k = key THEN amount ELSE stored(all, t, k)
<1> DEFINE perms == all[s.storage]
           changed == IF contains(perms, key) THEN write(perms, key, amount)
                                              ELSE add(perms, key, amount)
<1>1. IsTable(perms, Permissions, StoredPermission)
  BY DEF AmountsTyped, contains
<1>2. /\ IsTable(changed, Permissions, StoredPermission)
      /\ DOMAIN changed = DOMAIN perms \cup {key}
      /\ changed[key] = amount
      /\ \A k \in DOMAIN perms : k # key => changed[k] = perms[k]
  <2>1. CASE contains(perms, key)
    <3>1. key \in DOMAIN perms /\ changed = write(perms, key, amount)
      BY <2>1 DEF contains
    <3> QED
      BY <1>1, <3>1, WriteToTable
  <2>2. CASE ~contains(perms, key)
    BY <1>1, <2>2, AddToTable
  <2> QED
    BY <2>1, <2>2
<1>3. /\ DOMAIN insert_or(all, s, key, amount) = DOMAIN all
      /\ insert_or(all, s, key, amount)[s.storage] = changed
      /\ \A x \in DOMAIN all : x # s.storage => insert_or(all, s, key, amount)[x] = all[x]
  BY DEF insert_or, write, contains
<1> HIDE DEF changed
<1>4. AmountsTyped(insert_or(all, s, key, amount))
  BY <1>2, <1>3 DEF AmountsTyped
<1>5. ASSUME NEW t, NEW k
      PROVE  stored(insert_or(all, s, key, amount), t, k) =
               IF t.storage = s.storage /\ k = key THEN amount ELSE stored(all, t, k)
  <2>1. CASE t.storage = s.storage
    BY <1>2, <1>3, <2>1 DEF stored, contains
  <2>2. CASE t.storage # s.storage
    BY <1>3, <2>2 DEF stored, contains
  <2> QED
    BY <2>1, <2>2
<1> QED
  BY <1>3, <1>4, <1>5

-----------------------------------------------------------------------------
(* How the resources stay linked.                                           *)

\* Nothing but amounts changes.
LEMMA AmountsDoNotUnlink ==
  ASSUME NEW all, NEW active, NEW given, NEW registered, NEW mine,
         Linked(all, active, given, registered, mine),
         NEW all2, DOMAIN all2 = DOMAIN all
  PROVE  Linked(all2, active, given, registered, mine)
  BY DEF Linked

\* A handle is made for the running transaction.
LEMMA MakingLinks ==
  ASSUME NEW all, NEW active, NEW given, NEW registered, NEW mine,
         Linked(all, active, given, registered, mine), given < MaxStorages,
         NEW a \in Accounts,
         NEW all2, DOMAIN all2 = DOMAIN all \cup {given + 1}
  PROVE  Linked(all2, active, given + 1, registered,
                mine \cup {[account |-> a, storage |-> given + 1]})
<1> DEFINE fresh == [account |-> a, storage |-> given + 1]
<1>1. given \in Nat /\ given + 1 \in 0 .. MaxStorages /\ 1 .. given \subseteq 1 .. (given + 1)
  BY PermissionConstants DEF Linked
<1>2. IsTable(active, Accounts, SUBSET (1 .. (given + 1)))
  BY <1>1 DEF Linked, IsTable
<1>3. /\ Handles(given) \subseteq Handles(given + 1)
      /\ fresh \in Handles(given + 1)
      /\ \A h \in Handles(given) : h.storage # given + 1
  BY <1>1 DEF Handles
<1> QED
  BY <1>1, <1>2, <1>3 DEF Linked

\* A handle of the running transaction is destroyed.
LEMMA DestroyingLinks ==
  ASSUME NEW all, NEW active, NEW given, NEW registered, NEW mine,
         Linked(all, active, given, registered, mine), NEW p \in mine,
         NEW all2, DOMAIN all2 = DOMAIN all \ {p.storage}
  PROVE  Linked(all2, active, given, registered, mine \ {p})
<1>1. \A a \in DOMAIN active : p.storage \notin active[a]
  BY DEF Linked
<1> QED
  BY <1>1 DEF Linked

\* A key is registered with a handle of its own.
LEMMA RegisteringLinks ==
  ASSUME NEW all, NEW active, NEW given, NEW registered, NEW mine,
         Linked(all, active, given, registered, mine), given < MaxStorages,
         NEW a \in Accounts, NEW d, d \notin DOMAIN registered, NEW v,
         v.handle = [account |-> a, storage |-> given + 1],
         NEW all2, DOMAIN all2 = DOMAIN all \cup {given + 1},
         NEW active2,
         active2 = [account \in DOMAIN active \cup {a} |->
           (IF contains(active, account) THEN active[account] ELSE {})
             \cup (IF account = a THEN {given + 1} ELSE {})]
  PROVE  Linked(all2, active2, given + 1, add(registered, d, v), mine)
<1> DEFINE registered2 == add(registered, d, v)
<1>1. given \in Nat /\ given + 1 \in 0 .. MaxStorages /\ 1 .. given \subseteq 1 .. (given + 1)
  BY PermissionConstants DEF Linked
<1>2. /\ DOMAIN active2 = DOMAIN active \cup {a}
      /\ \A b \in DOMAIN active2 : \A x :
           x \in active2[b]
             <=> (b \in DOMAIN active /\ x \in active[b]) \/ (b = a /\ x = given + 1)
  <2>1. DOMAIN active2 = DOMAIN active \cup {a}
    OBVIOUS
  <2>2. ASSUME NEW b \in DOMAIN active2
        PROVE  active2[b] = (IF b \in DOMAIN active THEN active[b] ELSE {})
                              \cup (IF b = a THEN {given + 1} ELSE {})
    BY <2>1, <2>2 DEF contains
  <2>3. ASSUME NEW b \in DOMAIN active2, NEW x
        PROVE  x \in active2[b]
                 <=> (b \in DOMAIN active /\ x \in active[b]) \/ (b = a /\ x = given + 1)
    <3>1. x \in active2[b] <=> \/ x \in (IF b \in DOMAIN active THEN active[b] ELSE {})
                              \/ x \in (IF b = a THEN {given + 1} ELSE {})
      BY <2>2
    <3>2. CASE b = a
      BY <3>1, <3>2
    <3>3. CASE b # a
      BY <3>1, <3>3
    <3> QED
      BY <3>2, <3>3
  <2> QED
    BY <2>1, <2>3
<1>3. IsTable(active2, Accounts, SUBSET (1 .. (given + 1)))
  <2>1. DOMAIN active2 \subseteq Accounts
    BY <1>2 DEF Linked, IsTable
  <2>2. \A b \in DOMAIN active2 : active2[b] \subseteq 1 .. (given + 1)
    <3>1. \A b \in DOMAIN active : active[b] \subseteq 1 .. given
      BY DEF Linked, IsTable
    <3>2. given + 1 \in 1 .. (given + 1)
      BY <1>1
    <3> QED
      BY <1>1, <1>2, <3>1, <3>2
  <2>3. active2 = [b \in DOMAIN active2 |-> active2[b]]
    OBVIOUS
  <2> QED
    BY <2>1, <2>2, <2>3 DEF IsTable
<1>4. /\ Handles(given) \subseteq Handles(given + 1)
      /\ v.handle \in Handles(given + 1)
      /\ v.handle.account = a /\ v.handle.storage = given + 1
      /\ \A h \in Handles(given) : h.storage # given + 1
  BY <1>1 DEF Handles
<1>5. /\ DOMAIN registered2 = DOMAIN registered \cup {d}
      /\ registered2[d] = v
      /\ \A e \in DOMAIN registered : registered2[e] = registered[e]
  BY DEF add
<1> HIDE DEF registered2
<1>6. \A b \in DOMAIN active2 : \A x \in active2[b] :
        /\ x \in DOMAIN all2
        /\ \E e \in DOMAIN registered2 :
             registered2[e].handle.account = b /\ registered2[e].handle.storage = x
  <2> SUFFICES ASSUME NEW b \in DOMAIN active2, NEW x \in active2[b]
               PROVE  /\ x \in DOMAIN all2
                      /\ \E e \in DOMAIN registered2 :
                           /\ registered2[e].handle.account = b
                           /\ registered2[e].handle.storage = x
    OBVIOUS
  <2>1. CASE b \in DOMAIN active /\ x \in active[b]
    BY <1>5, <2>1 DEF Linked
  <2>2. CASE b = a /\ x = given + 1
    BY <1>4, <1>5, <2>2
  <2> QED
    BY <1>2, <2>1, <2>2
<1>7. \A x \in DOMAIN all2 :
        (\E b \in DOMAIN active2 : x \in active2[b]) \/ (\E p \in mine : p.storage = x)
  BY <1>2 DEF Linked
<1>8. /\ \A e \in DOMAIN registered2 :
           /\ registered2[e].handle \in Handles(given + 1)
           /\ registered2[e].handle.account \in DOMAIN active2
      /\ \A e, f \in DOMAIN registered2 :
           registered2[e].handle.storage = registered2[f].handle.storage => e = f
      /\ \A p \in mine : \A e \in DOMAIN registered2 : p.storage # registered2[e].handle.storage
  BY <1>2, <1>4, <1>5 DEF Linked
<1> QED
  <2>1. Linked(all2, active2, given + 1, registered2, mine)
    BY <1>1, <1>3, <1>4, <1>6, <1>7, <1>8 DEF Linked
  <2> QED
    BY <2>1 DEF registered2

\* Handles of keys of an account are taken off its list and lose their storages.
LEMMA RevokingLinks ==
  ASSUME NEW all, NEW active, NEW given, NEW registered, NEW mine,
         Linked(all, active, given, registered, mine),
         NEW a \in DOMAIN active, NEW X,
         \A x \in X : \E d \in DOMAIN registered :
           registered[d].handle.account = a /\ registered[d].handle.storage = x,
         NEW all2, DOMAIN all2 = DOMAIN all \ X
  PROVE  Linked(all2, write(active, a, active[a] \ X), given, registered, mine)
<1> DEFINE active2 == write(active, a, active[a] \ X)
<1>1. /\ IsTable(active2, Accounts, SUBSET (1 .. given))
      /\ DOMAIN active2 = DOMAIN active
      /\ active2[a] = active[a] \ X
      /\ \A b \in DOMAIN active : b # a => active2[b] = active[b]
  <2>1. active[a] \ X \in SUBSET (1 .. given)
    BY DEF Linked, IsTable
  <2> QED
    BY <2>1, WriteToTable DEF Linked
<1> HIDE DEF active2
<1>2. \A b \in DOMAIN active : b # a => active[b] \cap X = {}
  BY DEF Linked
<1>3. \A p \in mine : p.storage \notin X
  BY DEF Linked
<1>4. \A b \in DOMAIN active2 : \A x \in active2[b] :
        /\ x \in DOMAIN all2
        /\ \E e \in DOMAIN registered :
             registered[e].handle.account = b /\ registered[e].handle.storage = x
  BY <1>1, <1>2 DEF Linked
<1>5. \A x \in DOMAIN all2 :
        (\E b \in DOMAIN active2 : x \in active2[b]) \/ (\E p \in mine : p.storage = x)
  BY <1>1 DEF Linked
<1>6. Linked(all2, active2, given, registered, mine)
  BY <1>1, <1>3, <1>4, <1>5 DEF Linked
<1> QED
  BY <1>6 DEF active2

\* A key is removed whose handle is not on a list.
LEMMA RemovingLinks ==
  ASSUME NEW all, NEW active, NEW given, NEW registered, NEW mine,
         Linked(all, active, given, registered, mine),
         NEW d \in DOMAIN registered,
         \A a \in DOMAIN active : registered[d].handle.storage \notin active[a]
  PROVE  Linked(all, active, given, remove(registered, d), mine)
<1>1. /\ DOMAIN remove(registered, d) = DOMAIN registered \ {d}
      /\ \A e \in DOMAIN remove(registered, d) : remove(registered, d)[e] = registered[e]
  BY DEF remove
<1>2. \A a \in DOMAIN active : \A x \in active[a] :
        \E e \in DOMAIN remove(registered, d) :
          /\ remove(registered, d)[e].handle.account = a
          /\ remove(registered, d)[e].handle.storage = x
  BY <1>1 DEF Linked
<1> QED
  BY <1>1, <1>2 DEF Linked

-----------------------------------------------------------------------------
(* Amounts that go up and down.                                             *)

LEMMA StoredIsTyped ==
  ASSUME NEW all, AmountsTyped(all), NEW s, NEW key
  PROVE  stored(all, s, key) \in StoredPermission
<1>1. 0 \in StoredPermission
  BY PermissionConstants DEF StoredPermission
<1> QED
  BY <1>1 DEF stored, AmountsTyped, IsTable, contains

LEMMA IncreasedIsTyped ==
  ASSUME NEW all, AmountsTyped(all), NEW s, contains(all, s.storage),
         NEW key \in Permissions, NEW capacity \in Nat,
         fits_capacity(stored(all, s, key), capacity)
  PROVE  /\ DOMAIN increased(all, s, capacity, key) = DOMAIN all
         /\ AmountsTyped(increased(all, s, capacity, key))
         /\ \A t, k : stored(increased(all, s, capacity, key), t, k) =
              IF t.storage = s.storage /\ k = key
              THEN increase_capacity(stored(all, s, key), capacity) ELSE stored(all, t, k)
<1>1. stored(all, s, key) \in StoredPermission
  BY StoredIsTyped
<1>2. increase_capacity(stored(all, s, key), capacity) \in StoredPermission
  BY <1>1, PermissionConstants DEF StoredPermission, increase_capacity, fits_capacity
<1> QED
  BY <1>2, InsertOr DEF increased

LEMMA ConsumedIsTyped ==
  ASSUME NEW all, AmountsTyped(all), NEW s, contains(all, s.storage),
         NEW key \in Permissions, NEW threshold \in Nat,
         is_above(stored(all, s, key), threshold)
  PROVE  /\ DOMAIN consumed(all, s, threshold, key) = DOMAIN all
         /\ AmountsTyped(consumed(all, s, threshold, key))
         /\ \A t, k : stored(consumed(all, s, threshold, key), t, k) =
              IF t.storage = s.storage /\ k = key
              THEN consume_capacity(stored(all, s, key), threshold) ELSE stored(all, t, k)
<1>1. stored(all, s, key) \in StoredPermission
  BY StoredIsTyped
<1>2. consume_capacity(stored(all, s, key), threshold) \in StoredPermission
  BY <1>1, PermissionConstants DEF StoredPermission, consume_capacity, is_above
<1> QED
  BY <1>2, InsertOr DEF consumed

-----------------------------------------------------------------------------
(* Calls keep the invariant.                                                *)

\* Whatever a call does to the resources, when it leaves them linked.
LEMMA CallKeepsInv ==
  ASSUME Inv, running,
         tx' = [tx EXCEPT !.calls = tx.calls + 1, !.signers = tx'.signers,
                          !.handles = tx'.handles],
         tx.signers \subseteq tx'.signers, tx'.signers \subseteq Signer,
         \A s \in tx'.signers :
           s \in tx.signers \/ (enabled /\ (s.storage \in DOMAIN storages \/ s.storage > generated)),
         microseconds' = microseconds, enabled' = enabled, generated <= generated',
         \A x \in DOMAIN storages' : x \in DOMAIN storages \/ x > generated,
         \A d \in DOMAIN delegations' :
           delegations'[d].handle \in tx'.signers
             => now_seconds < delegations'[d].expiration_time,
         AmountsTyped(storages'), Registered(delegations'),
         Linked(storages', active_handles', generated', delegations', tx'.handles)
  PROVE  Inv'
<1>1. TxInv
  BY DEF Inv
<1>2. /\ DOMAIN tx' = DOMAIN tx
      /\ tx'.status = "running" /\ tx'.max_fee = tx.max_fee /\ tx'.gas_payer = tx.gas_payer
      /\ tx'.saved = tx.saved
  BY <1>1 DEF TxInv
<1>3. running' /\ Mine' = tx'.handles
  BY <1>2 DEF running, NoTx, Mine
<1>4. now_seconds' = now_seconds
  BY DEF now_seconds
<1>5. Registered(delegations)' /\ Registered(tx.saved.delegations)'
  BY <1>1, <1>2, <1>4 DEF Registered, TxInv
<1>6. generated \in Nat /\ generated' \in Nat /\ tx.saved.generated \in Nat
  BY <1>1, PermissionConstants DEF Inv, TxInv, Linked
<1>7. /\ \A x \in DOMAIN storages' : x \in Nat
      /\ \A s \in Signer : s.storage \in Nat
  BY <1>6, PermissionConstants DEF Linked, IsTable, Handles, Signer
<1>8. \A x \in DOMAIN storages' : x \in DOMAIN tx.saved.storages \/ x > tx.saved.generated
  BY <1>1, <1>6, <1>7 DEF TxInv
<1>9. ASSUME NEW s \in tx'.signers, s.storage # 0
      PROVE  enabled /\ (s.storage \in DOMAIN tx.saved.storages \/ s.storage > tx.saved.generated)
  <2>1. CASE s \in tx.signers
    BY <1>1, <1>9, <2>1 DEF TxInv
  <2>2. CASE s \notin tx.signers
    BY <1>1, <1>6, <1>7, <1>9, <2>2 DEF TxInv
  <2> QED
    BY <2>1, <2>2
<1>10. is_permissioned_signer(tx.gas_payer)' => tx.gas_payer.storage \in DOMAIN tx.saved.storages
  BY <1>1, <1>2 DEF TxInv, is_permissioned_signer, is_permissioned_signer_impl
<1>11. TxInv'
  BY <1>1, <1>2, <1>4, <1>5, <1>6, <1>8, <1>9, <1>10 DEF TxInv
<1> QED
  BY <1>3, <1>5, <1>11 DEF Inv

\* A call that changes nothing but amounts.
LEMMA AmountCallKeepsInv ==
  ASSUME Inv, running, Kept({}, tx.handles),
         UNCHANGED <<microseconds, enabled, active_handles, generated, delegations>>,
         DOMAIN storages' = DOMAIN storages, AmountsTyped(storages')
  PROVE  Inv'
<1>1. TxInv
  BY DEF Inv
<1>2. tx'.signers = tx.signers /\ tx'.handles = tx.handles
  BY <1>1 DEF TxInv, Kept
<1>3. tx' = [tx EXCEPT !.calls = tx.calls + 1, !.signers = tx'.signers, !.handles = tx'.handles]
  BY <1>1 DEF TxInv, Kept
<1>4. Linked(storages', active_handles', generated', delegations', tx'.handles)
  BY <1>2, AmountsDoNotUnlink DEF Inv, Mine
<1>5. generated \in Nat
  BY PermissionConstants DEF Inv, Linked
<1> QED
  BY <1>1, <1>2, <1>3, <1>4, <1>5, CallKeepsInv DEF Inv, TxInv

\* A limit goes up: grants, and refills by deposits.
LEMMA IncreaseKeepsInv ==
  ASSUME Inv, running, Kept({}, tx.handles), NEW s, NEW key \in Permissions, NEW capacity \in Nat,
         increases(storages, s, capacity, key),
         storages' = increased(storages, s, capacity, key),
         UNCHANGED <<microseconds, enabled, active_handles, generated, delegations>>
  PROVE  Inv'
<1>1. contains(storages, s.storage) /\ fits_capacity(stored(storages, s, key), capacity)
  BY DEF increases, has_storage, permission_address
<1>2. AmountsTyped(storages)
  BY DEF Inv
<1> QED
  BY <1>1, <1>2, IncreasedIsTyped, AmountCallKeepsInv

\* A permission becomes unlimited.
LEMMA UnlimitedKeepsInv ==
  ASSUME Inv, running, Kept({}, tx.handles), NEW s, NEW key \in Permissions,
         has_storage(storages, s),
         storages' = insert_or(storages, s, key, Unlimited),
         UNCHANGED <<microseconds, enabled, active_handles, generated, delegations>>
  PROVE  Inv'
<1>1. contains(storages, s.storage) /\ Unlimited \in StoredPermission
  BY DEF has_storage, permission_address, StoredPermission
<1>2. AmountsTyped(storages)
  BY DEF Inv
<1> QED
  BY <1>1, <1>2, InsertOr, AmountCallKeepsInv

LEMMA WithdrawKeepsInv ==
  ASSUME Inv, running, NEW s, NEW amount \in Nat, Withdraw(s, amount)
  PROVE  Inv'
<1>1. check_permission_consume(s, amount, "Withdraw") /\ Kept({}, tx.handles)
  BY DEF Withdraw
<1>2. /\ contains(storages, s.storage)
      /\ is_above(stored(storages, s, "Withdraw"), amount)
      /\ storages' = consumed(storages, s, amount, "Withdraw")
  BY <1>1 DEF check_permission_consume, check_permission_capacity_above, has_storage,
              permission_address, stored
<1>3. AmountsTyped(storages) /\ "Withdraw" \in Permissions
  BY DEF Inv, Permissions
<1>4. UNCHANGED <<microseconds, enabled, active_handles, generated, delegations>>
  BY DEF Withdraw, check_permission_consume
<1> QED
  BY <1>1, <1>2, <1>3, <1>4, ConsumedIsTyped, AmountCallKeepsInv

LEMMA RevokeGasKeepsInv ==
  ASSUME Inv, running, NEW s, revoke_gas_permission(s)
  PROVE  Inv'
<1>1. /\ s.storage \in DOMAIN storages
      /\ storages' = write(storages, s.storage, remove(storages[s.storage], "Gas"))
      /\ Kept({}, tx.handles)
      /\ UNCHANGED <<microseconds, enabled, active_handles, generated, delegations>>
  BY DEF revoke_gas_permission, revoke_permission, has_storage, permission_address, contains
<1>2. IsTable(remove(storages[s.storage], "Gas"), Permissions, StoredPermission)
  BY <1>1, RemoveFromTable DEF Inv, AmountsTyped
<1>3. /\ DOMAIN storages' = DOMAIN storages
      /\ storages'[s.storage] = remove(storages[s.storage], "Gas")
      /\ \A x \in DOMAIN storages : x # s.storage => storages'[x] = storages[x]
  BY <1>1 DEF write
<1>4. AmountsTyped(storages')
  BY <1>2, <1>3 DEF Inv, AmountsTyped
<1> QED
  BY <1>1, <1>3, <1>4, AmountCallKeepsInv

LEMMA GasCallKeepsInv ==
  ASSUME Inv, running, GasCall
  PROVE  Inv'
<1>1. ASSUME NEW master \in tx.signers, NEW s \in tx.signers, NEW capacity \in Amounts,
             Grant(master, s, "Gas", capacity)
      PROVE  Inv'
  <2>1. capacity \in Nat /\ "Gas" \in Permissions
    BY DelegationConstants DEF Permissions
  <2>2. /\ Kept({}, tx.handles)
        /\ increases(storages, s, capacity, "Gas")
        /\ storages' = increased(storages, s, capacity, "Gas")
        /\ UNCHANGED <<microseconds, enabled, active_handles, generated, delegations>>
    BY <1>1 DEF Grant, authorize_increase
  <2> QED
    BY <2>1, <2>2, IncreaseKeepsInv
<1>2. ASSUME NEW s \in tx.signers, revoke_gas_permission(s)
      PROVE  Inv'
  BY <1>2, RevokeGasKeepsInv
<1> QED
  BY <1>1, <1>2 DEF GasCall

LEMMA AssetCallKeepsInv ==
  ASSUME Inv, running, AssetCall
  PROVE  Inv'
<1>0. "Withdraw" \in Permissions /\ "Transfer" \in Permissions /\ Amounts \subseteq Nat
  BY DelegationConstants DEF Permissions
<1>1. ASSUME NEW master \in tx.signers, NEW s \in tx.signers, NEW capacity \in Amounts,
             Grant(master, s, "Withdraw", capacity)
      PROVE  Inv'
  <2>1. /\ Kept({}, tx.handles)
        /\ increases(storages, s, capacity, "Withdraw")
        /\ storages' = increased(storages, s, capacity, "Withdraw")
        /\ UNCHANGED <<microseconds, enabled, active_handles, generated, delegations>>
    BY <1>1 DEF Grant, authorize_increase
  <2> QED
    BY <1>0, <2>1, IncreaseKeepsInv
<1>2. ASSUME NEW s \in tx.signers, NEW amount \in Amounts, Refill(s, amount)
      PROVE  Inv'
  <2>1. /\ Kept({}, tx.handles)
        /\ increases(storages, s, amount, "Withdraw")
        /\ storages' = increased(storages, s, amount, "Withdraw")
        /\ UNCHANGED <<microseconds, enabled, active_handles, generated, delegations>>
    BY <1>2 DEF Refill, increase_limit
  <2> QED
    BY <1>0, <2>1, IncreaseKeepsInv
<1>3. ASSUME NEW s \in tx.signers, NEW amount \in Amounts, Withdraw(s, amount)
      PROVE  Inv'
  BY <1>0, <1>3, WithdrawKeepsInv
<1>4. ASSUME NEW master \in tx.signers, NEW s \in tx.signers,
             GrantUnlimited(master, s, "Transfer")
      PROVE  Inv'
  <2>1. /\ Kept({}, tx.handles)
        /\ has_storage(storages, s)
        /\ storages' = insert_or(storages, s, "Transfer", Unlimited)
        /\ UNCHANGED <<microseconds, enabled, active_handles, generated, delegations>>
    BY <1>4 DEF GrantUnlimited, authorize_unlimited
  <2> QED
    BY <1>0, <2>1, UnlimitedKeepsInv
<1>5. ASSUME NEW s \in tx.signers, grant_permission_with_transfer_ref(s)
      PROVE  Inv'
  <2>1. /\ Kept({}, tx.handles)
        /\ has_storage(storages, s)
        /\ storages' = insert_or(storages, s, "Transfer", Unlimited)
        /\ UNCHANGED <<microseconds, enabled, active_handles, generated, delegations>>
    BY <1>5 DEF grant_permission_with_transfer_ref, grant_unlimited_with_permissioned_signer
  <2> QED
    BY <1>0, <2>1, UnlimitedKeepsInv
<1> QED
  BY <1>1, <1>2, <1>3, <1>4, <1>5 DEF AssetCall

-----------------------------------------------------------------------------
(* Revocations.                                                             *)

\* Handles of keys of an account lose their place and their storages.
LEMMA RevokingKeepsInv ==
  ASSUME Inv, running, Kept({}, tx.handles), NEW a \in DOMAIN active_handles, NEW X,
         \A x \in X : \E d \in DOMAIN delegations :
           delegations[d].handle.account = a /\ delegations[d].handle.storage = x,
         storages' = [x \in DOMAIN storages \ X |-> storages[x]],
         active_handles' = write(active_handles, a, active_handles[a] \ X),
         UNCHANGED <<microseconds, enabled, generated, delegations>>
  PROVE  Inv'
<1>1. TxInv
  BY DEF Inv
<1>2. tx'.signers = tx.signers /\ tx'.handles = tx.handles
  BY <1>1 DEF TxInv, Kept
<1>3. tx' = [tx EXCEPT !.calls = tx.calls + 1, !.signers = tx'.signers, !.handles = tx'.handles]
  BY <1>1 DEF TxInv, Kept
<1>4. DOMAIN storages' = DOMAIN storages \ X /\ AmountsTyped(storages')
  BY DEF Inv, AmountsTyped
<1>5. Linked(storages', active_handles', generated', delegations', tx'.handles)
  BY <1>2, <1>4, RevokingLinks DEF Inv, Mine
<1>6. generated \in Nat
  BY PermissionConstants DEF Inv, Linked
<1> QED
  BY <1>1, <1>2, <1>3, <1>4, <1>5, <1>6, CallKeepsInv DEF Inv, TxInv

LEMMA RevokeCallKeepsInv ==
  ASSUME Inv, running, RevokeCall
  PROVE  Inv'
<1>1. ASSUME NEW master \in tx.signers, NEW s \in tx.signers, GrantUnlimited(master, s, "Revoke")
      PROVE  Inv'
  <2>1. /\ Kept({}, tx.handles)
        /\ has_storage(storages, s)
        /\ storages' = insert_or(storages, s, "Revoke", Unlimited)
        /\ UNCHANGED <<microseconds, enabled, active_handles, generated, delegations>>
    BY <1>1 DEF GrantUnlimited, authorize_unlimited
  <2>2. "Revoke" \in Permissions
    BY DEF Permissions
  <2> QED
    BY <2>1, <2>2, UnlimitedKeepsInv
<1>2. ASSUME NEW s \in tx.signers, NEW x \in Storages, RevokeHandle(s, x)
      PROVE  Inv'
  <2>1. /\ Kept({}, tx.handles)
        /\ s.account \in DOMAIN active_handles /\ x \in active_handles[s.account]
        /\ active_handles' = write(active_handles, s.account, active_handles[s.account] \ {x})
        /\ storages' = destroy_permissions_storage_address(x)
        /\ UNCHANGED <<microseconds, enabled, generated, delegations>>
    BY <1>2 DEF RevokeHandle, revoke_permission_storage_address, contains
  <2>2. /\ x \in DOMAIN storages
        /\ \E d \in DOMAIN delegations :
             delegations[d].handle.account = s.account /\ delegations[d].handle.storage = x
    BY <2>1 DEF Inv, Linked
  <2>3. storages' = [y \in DOMAIN storages \ {x} |-> storages[y]]
    BY <2>1, <2>2 DEF destroy_permissions_storage_address, contains, remove
  <2> QED
    BY <2>1, <2>2, <2>3, RevokingKeepsInv
<1>3. ASSUME NEW s \in tx.signers, RevokeAll(s)
      PROVE  Inv'
  <2> DEFINE a == s.account
  <2>1. /\ Kept({}, tx.handles)
        /\ a \in DOMAIN active_handles
        /\ active_handles' = write(active_handles, a, {})
        /\ storages' = [x \in DOMAIN storages \ active_handles[a] |-> storages[x]]
        /\ UNCHANGED <<microseconds, enabled, generated, delegations>>
    BY <1>3 DEF RevokeAll, revoke_all_handles, contains
  <2>2. active_handles[a] \ active_handles[a] = {}
    OBVIOUS
  <2>3. \A x \in active_handles[a] : \E d \in DOMAIN delegations :
          delegations[d].handle.account = a /\ delegations[d].handle.storage = x
    BY <2>1 DEF Inv, Linked
  <2> QED
    BY <2>1, <2>2, <2>3, RevokingKeepsInv
<1> QED
  BY <1>1, <1>2, <1>3 DEF RevokeCall

-----------------------------------------------------------------------------
(* Handles of the running transaction.                                      *)

LEMMA MakeHandleKeepsInv ==
  ASSUME Inv, running, NEW master \in tx.signers, MakeHandle(master)
  PROVE  Inv'
<1> DEFINE p == [account |-> master.account, storage |-> generated + 1]
<1>1. TxInv /\ master.account \in Accounts
  BY DEF Inv, TxInv, Signer
<1>2. /\ Kept({}, tx.handles \cup {p})
      /\ generated < MaxStorages /\ generated' = generated + 1
      /\ storages' = add(storages, generated + 1, new)
      /\ UNCHANGED <<microseconds, enabled, active_handles, delegations>>
  BY DEF MakeHandle, create_permissioned_handle, generate_auid_address,
         signer_from_permissioned_handle_impl, initialize_permission_address
<1> HIDE DEF p
<1>3. tx'.signers = tx.signers /\ tx'.handles = tx.handles \cup {p}
  BY <1>1, <1>2 DEF TxInv, Kept
<1>4. tx' = [tx EXCEPT !.calls = tx.calls + 1, !.signers = tx'.signers, !.handles = tx'.handles]
  BY <1>1, <1>2 DEF TxInv, Kept
<1>5. DOMAIN storages' = DOMAIN storages \cup {generated + 1} /\ AmountsTyped(storages')
  BY <1>2, NewTable DEF Inv, AmountsTyped, add
<1>6. generated \in Nat
  BY PermissionConstants DEF Inv, Linked
<1>7. Linked(storages', active_handles', generated', delegations', tx'.handles)
  BY <1>1, <1>2, <1>3, <1>5, MakingLinks DEF Inv, Mine, p
<1> QED
  BY <1>1, <1>2, <1>3, <1>4, <1>5, <1>6, <1>7, CallKeepsInv DEF Inv, TxInv

LEMMA HandleSignerKeepsInv ==
  ASSUME Inv, running, NEW p \in tx.handles, signer_from_permissioned_handle(p)
  PROVE  Inv'
<1>1. TxInv
  BY DEF Inv
<1>2. tx'.signers = tx.signers \cup {p} /\ tx'.handles = tx.handles
  BY <1>1 DEF signer_from_permissioned_handle, TxInv, Kept
<1>3. tx' = [tx EXCEPT !.calls = tx.calls + 1, !.signers = tx'.signers, !.handles = tx'.handles]
  BY <1>1 DEF signer_from_permissioned_handle, TxInv, Kept
<1>4. /\ enabled
      /\ UNCHANGED <<microseconds, enabled, storages, active_handles, generated, delegations>>
  BY DEF signer_from_permissioned_handle, permissionVars
<1>5. generated \in 0 .. MaxStorages
  BY DEF Inv, Linked
<1>6. p \in Handles(generated) /\ p.storage \in DOMAIN storages
      /\ \A d \in DOMAIN delegations : delegations[d].handle # p
  BY DEF Inv, Linked, Mine
<1>7. p \in Signer
  BY <1>5, <1>6, PermissionConstants DEF Handles, Signer
<1>8. Linked(storages', active_handles', generated', delegations', tx'.handles)
  BY <1>2, <1>4 DEF Inv, Mine
<1>9. Registered(delegations') /\ AmountsTyped(storages')
  BY <1>4 DEF Inv
<1>10. /\ tx'.signers \subseteq Signer
       /\ \A d \in DOMAIN delegations' :
            delegations'[d].handle \in tx'.signers => now_seconds < delegations'[d].expiration_time
  BY <1>1, <1>2, <1>4, <1>6, <1>7 DEF TxInv
<1> QED
  BY <1>2, <1>3, <1>4, <1>5, <1>6, <1>8, <1>9, <1>10, PermissionConstants, CallKeepsInv

LEMMA DestroyHandleKeepsInv ==
  ASSUME Inv, running, NEW p \in tx.handles, DestroyHandle(p)
  PROVE  Inv'
<1>1. TxInv
  BY DEF Inv
<1>2. /\ Kept({}, tx.handles \ {p})
      /\ storages' = destroy_permissions_storage_address(p.storage)
      /\ UNCHANGED <<microseconds, enabled, active_handles, generated, delegations>>
  BY DEF DestroyHandle, destroy_permissioned_handle
<1>3. tx'.signers = tx.signers /\ tx'.handles = tx.handles \ {p}
  BY <1>1, <1>2 DEF TxInv, Kept
<1>4. tx' = [tx EXCEPT !.calls = tx.calls + 1, !.signers = tx'.signers, !.handles = tx'.handles]
  BY <1>1, <1>2 DEF TxInv, Kept
<1>5. DOMAIN storages' = DOMAIN storages \ {p.storage} /\ AmountsTyped(storages')
  BY <1>2 DEF Inv, AmountsTyped, destroy_permissions_storage_address, remove, contains
<1>6. Linked(storages', active_handles', generated', delegations', tx'.handles)
  <2>1. Linked(storages, active_handles, generated, delegations, tx.handles)
    BY DEF Inv, Mine
  <2>2. Linked(storages', active_handles, generated, delegations, tx.handles \ {p})
    BY <1>5, <2>1, DestroyingLinks
  <2> QED
    BY <1>2, <1>3, <2>2
<1>7. generated \in Nat
  BY PermissionConstants DEF Inv, Linked
<1> QED
  BY <1>1, <1>2, <1>3, <1>4, <1>5, <1>6, <1>7, CallKeepsInv DEF Inv, TxInv

LEMMA HandleCallKeepsInv ==
  ASSUME Inv, running, HandleCall
  PROVE  Inv'
  BY MakeHandleKeepsInv, HandleSignerKeepsInv, DestroyHandleKeepsInv DEF HandleCall

-----------------------------------------------------------------------------
(* Keys.                                                                    *)

LEMMA AddKeyKeepsInv ==
  ASSUME Inv, running, NEW master \in tx.signers, NEW key \in DelegationKeys,
         NEW expiration_time \in Expirations, NEW limiter \in Limiters,
         add_permissioned_handle(master, key, limiter, expiration_time)
  PROVE  Inv'
<1> DEFINE a == master.account
           d == <<master.account, key>>
           h == [account |-> master.account, storage |-> generated + 1]
           l == IF limiter = NoLimiter THEN NoLimiter
                ELSE initialize(limiter.capacity, limiter.refill_interval)
           v == [handle |-> h, expiration_time |-> expiration_time, rate_limiter |-> l]
<1>1. TxInv /\ a \in Accounts /\ d \in Accounts \X DelegationKeys
  BY DEF Inv, TxInv, Signer
<1>2. /\ Kept({h}, tx.handles)
      /\ enabled /\ d \notin DOMAIN delegations
      /\ now_seconds < expiration_time
      /\ generated < MaxStorages /\ generated' = generated + 1
      /\ storages' = add(storages, generated + 1, new)
      /\ delegations' = add(delegations, d, v)
      /\ active_handles' =
           [account \in DOMAIN active_handles \cup {a} |->
              (IF contains(active_handles, account) THEN active_handles[account] ELSE {})
                \cup (IF account = a THEN {generated + 1} ELSE {})]
      /\ UNCHANGED <<microseconds, enabled>>
  BY DEF add_permissioned_handle, create_storable_permissioned_handle, generate_auid_address,
         signer_from_permissioned_handle_impl, initialize_permission_address, contains
<1>3. generated \in 0 .. MaxStorages /\ generated + 1 \in 1 .. MaxStorages
  BY <1>2, PermissionConstants DEF Inv, Linked
<1>4. h \in Signer
  BY <1>1, <1>3 DEF Signer
<1>5. now_seconds \in Seconds
  BY SecondsAreNaturals DEF Inv, now_seconds
<1>6. l \in {NoLimiter} \cup LimiterType /\ (l # NoLimiter => l.last_refill_timestamp = now_seconds)
  BY <1>5, DelegationConstants DEF LimiterType, initialize
<1> HIDE DEF a, d, h, l
<1>7. v \in AccountDelegationType /\ v.handle = h /\ v.expiration_time = expiration_time
      /\ v.rate_limiter = l
  <2>1. expiration_time \in Nat
    BY DelegationConstants
  <2>2. l \in {NoLimiter} \cup LimiterType
    BY <1>6
  <2> QED
    BY <1>4, <2>1, <2>2 DEF AccountDelegationType, LimiterType
<1> HIDE DEF v
<1>8. /\ IsTable(delegations', Accounts \X DelegationKeys, AccountDelegationType)
      /\ DOMAIN delegations' = DOMAIN delegations \cup {d}
      /\ delegations'[d] = v
      /\ \A e \in DOMAIN delegations : delegations'[e] = delegations[e]
  <2>1. IsTable(delegations, Accounts \X DelegationKeys, AccountDelegationType)
    BY DEF Inv, Registered
  <2>2. /\ IsTable(add(delegations, d, v), Accounts \X DelegationKeys, AccountDelegationType)
        /\ DOMAIN add(delegations, d, v) = DOMAIN delegations \cup {d}
        /\ add(delegations, d, v)[d] = v
        /\ \A e \in DOMAIN delegations : e # d => add(delegations, d, v)[e] = delegations[e]
    <3>1. d \in Accounts \X DelegationKeys /\ v \in AccountDelegationType
      BY <1>1, <1>7
    <3>2. /\ IsTable(add(delegations, d, v), Accounts \X DelegationKeys, AccountDelegationType)
          /\ DOMAIN add(delegations, d, v) = DOMAIN delegations \cup {d}
      BY <2>1, <3>1, AddToTable
    <3> QED
      BY <3>2 DEF add
  <2>3. \A e \in DOMAIN delegations : e # d
    BY <1>2
  <2> QED
    BY <1>2, <2>2, <2>3
<1>9. Registered(delegations')
  <2>1. now_seconds <= now_seconds
    BY <1>5, SecondsAreNaturals
  <2> QED
    BY <1>6, <1>7, <1>8, <2>1 DEF Registered, Inv
<1>10. tx'.signers = tx.signers \cup {h} /\ tx'.handles = tx.handles
  BY <1>1, <1>2 DEF TxInv, Kept
<1>11. tx' = [tx EXCEPT !.calls = tx.calls + 1, !.signers = tx'.signers, !.handles = tx'.handles]
  BY <1>1, <1>2 DEF TxInv, Kept
<1>12. DOMAIN storages' = DOMAIN storages \cup {generated + 1} /\ AmountsTyped(storages')
  BY <1>2, NewTable DEF Inv, AmountsTyped, add
<1>13. Linked(storages', active_handles', generated', delegations', tx'.handles)
  <2>1. Linked(storages, active_handles, generated, delegations, tx.handles)
    BY DEF Inv, Mine
  <2>2. v.handle = [account |-> a, storage |-> generated + 1]
    BY <1>7 DEF h, a
  <2>3. Linked(storages', active_handles', generated + 1, add(delegations, d, v), tx.handles)
    BY <1>1, <1>2, <1>12, <2>1, <2>2, RegisteringLinks
  <2> QED
    BY <1>2, <1>10, <2>3
<1>14. \A e \in DOMAIN delegations : delegations[e].handle # h
  BY <1>3 DEF Inv, Linked, Handles, h
<1>15. \A e \in DOMAIN delegations' :
         delegations'[e].handle \in tx'.signers => now_seconds < delegations'[e].expiration_time
  BY <1>1, <1>2, <1>7, <1>8, <1>10, <1>14 DEF TxInv
<1>16. h.storage > generated /\ tx'.signers \subseteq Signer
  BY <1>1, <1>3, <1>4, <1>10 DEF h, TxInv
<1> QED
  BY <1>2, <1>3, <1>9, <1>10, <1>11, <1>12, <1>13, <1>15, <1>16, CallKeepsInv

LEMMA RemoveKeyKeepsInv ==
  ASSUME Inv, running, NEW master \in tx.signers, NEW key \in DelegationKeys,
         remove_permissioned_handle(master, key)
  PROVE  Inv'
<1> DEFINE d == <<master.account, key>>
           a == delegations[d].handle.account
           x == delegations[d].handle.storage
<1>1. TxInv
  BY DEF Inv
<1>2. /\ Kept({}, tx.handles)
      /\ d \in DOMAIN delegations /\ a \in DOMAIN active_handles
      /\ active_handles' = write(active_handles, a, active_handles[a] \ {x})
      /\ storages' = destroy_permissions_storage_address(x)
      /\ delegations' = remove(delegations, d)
      /\ UNCHANGED <<microseconds, enabled, generated>>
  BY DEF remove_permissioned_handle, destroy_storable_permissioned_handle, contains
<1> HIDE DEF d
<1>3. tx'.signers = tx.signers /\ tx'.handles = tx.handles
  BY <1>1, <1>2 DEF TxInv, Kept
<1>4. tx' = [tx EXCEPT !.calls = tx.calls + 1, !.signers = tx'.signers, !.handles = tx'.handles]
  BY <1>1, <1>2 DEF TxInv, Kept
<1>5. DOMAIN storages' = DOMAIN storages \ {x} /\ AmountsTyped(storages')
  BY <1>2 DEF Inv, AmountsTyped, destroy_permissions_storage_address, remove, contains
<1>6. Linked(storages', active_handles', generated, delegations, tx'.handles)
  <2>1. \A y \in {x} : \E e \in DOMAIN delegations :
          delegations[e].handle.account = a /\ delegations[e].handle.storage = y
    BY <1>2
  <2> QED
    BY <1>2, <1>3, <1>5, <2>1, RevokingLinks DEF Inv, Mine
<1>7. \A b \in DOMAIN active_handles' : x \notin active_handles'[b]
  BY <1>5, <1>6 DEF Linked
<1>8. Linked(storages', active_handles', generated', delegations', tx'.handles)
  BY <1>2, <1>6, <1>7, RemovingLinks
<1>9. /\ IsTable(delegations', Accounts \X DelegationKeys, AccountDelegationType)
      /\ DOMAIN delegations' \subseteq DOMAIN delegations
      /\ \A e \in DOMAIN delegations' : delegations'[e] = delegations[e]
  BY <1>2, RemoveFromTable DEF Inv, Registered, remove
<1>10. Registered(delegations')
  BY <1>9 DEF Inv, Registered
<1>11. generated \in Nat
  BY PermissionConstants DEF Inv, Linked
<1> QED
  BY <1>1, <1>2, <1>3, <1>4, <1>5, <1>8, <1>9, <1>10, <1>11, CallKeepsInv DEF Inv, TxInv

LEMMA KeySignerKeepsInv ==
  ASSUME Inv, running, NEW master \in tx.signers, NEW key \in DelegationKeys,
         permissioned_signer_by_key(master, key)
  PROVE  Inv'
<1> DEFINE d == <<master.account, key>>
           h == delegations[d].handle
<1>1. TxInv
  BY DEF Inv
<1>2. /\ Kept({h}, tx.handles)
      /\ d \in DOMAIN delegations
      /\ enabled /\ h.storage \in DOMAIN storages /\ now_seconds < delegations[d].expiration_time
      /\ UNCHANGED <<microseconds, enabled, storages, active_handles, generated, delegations>>
  BY DEF permissioned_signer_by_key, signer_from_storable_permissioned_handle, handle_is_active,
         signer_from_permissioned_handle_impl_returns, contains, permissionVars
<1> HIDE DEF d
<1>3. tx'.signers = tx.signers \cup {h} /\ tx'.handles = tx.handles
  BY <1>1, <1>2 DEF TxInv, Kept
<1>4. tx' = [tx EXCEPT !.calls = tx.calls + 1, !.signers = tx'.signers, !.handles = tx'.handles]
  BY <1>1, <1>2 DEF TxInv, Kept
<1>5. generated \in 0 .. MaxStorages
  BY DEF Inv, Linked
<1>6. h \in Handles(generated) /\ \A e \in DOMAIN delegations : delegations[e].handle = h => e = d
  BY <1>2 DEF Inv, Linked
<1>7. h \in Signer
  BY <1>5, <1>6, PermissionConstants DEF Handles, Signer
<1> HIDE DEF h
<1>8. Linked(storages', active_handles', generated', delegations', tx'.handles)
  BY <1>2, <1>3 DEF Inv, Mine
<1>9. Registered(delegations') /\ AmountsTyped(storages')
  BY <1>2 DEF Inv
<1>10. /\ tx'.signers \subseteq Signer
       /\ \A e \in DOMAIN delegations' :
            delegations'[e].handle \in tx'.signers => now_seconds < delegations'[e].expiration_time
  BY <1>1, <1>2, <1>3, <1>6, <1>7 DEF TxInv
<1> QED
  BY <1>2, <1>3, <1>4, <1>5, <1>8, <1>9, <1>10, PermissionConstants, CallKeepsInv

LEMMA DelegationCallKeepsInv ==
  ASSUME Inv, running, DelegationCall
  PROVE  Inv'
  BY AddKeyKeepsInv, RemoveKeyKeepsInv, KeySignerKeepsInv DEF DelegationCall

-----------------------------------------------------------------------------
(* Beginning a transaction.                                                 *)

LEMMA StartKeepsInv ==
  ASSUME Inv, ~running, NEW sender \in Signer, NEW others \in SUBSET Accounts, NEW max_fee \in Nat,
         start(sender, others, max_fee),
         sender.storage # 0 => enabled /\ sender.storage \in DOMAIN storages,
         UNCHANGED <<microseconds, enabled, storages, active_handles, generated>>,
         Registered(delegations'),
         Linked(storages, active_handles, generated, delegations', {}),
         \A d \in DOMAIN delegations' :
           delegations'[d].handle = sender => now_seconds < delegations'[d].expiration_time
  PROVE  Inv'
<1>1. /\ DOMAIN tx' = {"status", "gas_payer", "max_fee", "calls", "signers", "handles", "saved"}
      /\ tx'.status = "running" /\ tx'.gas_payer = sender /\ tx'.max_fee = max_fee
      /\ tx'.signers = {sender} \cup {Master(account) : account \in others}
      /\ tx'.handles = {}
      /\ tx'.saved.storages = storages' /\ tx'.saved.active_handles = active_handles'
      /\ tx'.saved.generated = generated' /\ tx'.saved.delegations = delegations'
  BY DEF start, Saved
<1>2. running' /\ Mine' = {}
  BY <1>1 DEF running, NoTx, Mine
<1>3. generated \in Nat
  BY PermissionConstants DEF Linked
<1>4. \A s \in tx'.signers : s \in Signer /\ (s # sender => s.storage = 0)
  BY <1>1, PermissionConstants DEF Master, Signer
<1>5. now_seconds' = now_seconds
  BY DEF now_seconds
<1>6. Registered(delegations)'
  BY <1>5 DEF Registered
<1>7. \A d \in DOMAIN delegations' :
        delegations'[d].handle \in tx'.signers => now_seconds < delegations'[d].expiration_time
  BY <1>3, <1>4 DEF Linked, Handles
<1>8. is_permissioned_signer(tx.gas_payer)' => tx'.gas_payer.storage \in DOMAIN storages
  BY <1>1 DEF is_permissioned_signer, is_permissioned_signer_impl
<1>9. TxInv'
  <2>1. AmountsTyped(tx.saved.storages)' /\ Registered(tx.saved.delegations)'
    BY <1>1, <1>5, <1>6 DEF Inv, AmountsTyped, Registered
  <2>2. Linked(tx.saved.storages, tx.saved.active_handles, tx.saved.generated,
               tx.saved.delegations, {})'
    BY <1>1
  <2>3. /\ tx'.gas_payer \in tx'.signers /\ tx'.signers \subseteq Signer
        /\ \A s \in tx'.signers : s.storage # 0 => enabled' /\ s.storage \in DOMAIN tx'.saved.storages
        /\ tx'.saved.generated <= generated'
        /\ \A x \in DOMAIN storages' : x \in DOMAIN tx'.saved.storages
    BY <1>1, <1>3, <1>4
  <2> QED
    BY <1>1, <1>5, <1>7, <1>8, <2>1, <2>2, <2>3 DEF TxInv
<1> QED
  BY <1>2, <1>6, <1>9 DEF Inv

LEMMA BeginAsMasterKeepsInv ==
  ASSUME Inv, NEW account \in Accounts, NEW others \in SUBSET Accounts, NEW max_fee \in Nat,
         BeginAsMaster(account, others, max_fee)
  PROVE  Inv'
<1>1. /\ ~running /\ start(Master(account), others, max_fee)
      /\ UNCHANGED <<microseconds, enabled, storages, active_handles, generated, delegations>>
  BY DEF BeginAsMaster, permissionVars
<1>2. Master(account) \in Signer /\ Master(account).storage = 0
  BY PermissionConstants DEF Master, Signer
<1>3. Linked(storages, active_handles, generated, delegations, {}) /\ generated \in Nat
  BY <1>1, PermissionConstants DEF Inv, Mine, Linked
<1>4. \A d \in DOMAIN delegations : delegations[d].handle # Master(account)
  BY <1>2, <1>3 DEF Linked, Handles
<1> QED
  BY <1>1, <1>2, <1>3, <1>4, StartKeepsInv DEF Inv

LEMMA AuthenticateKeepsInv ==
  ASSUME Inv, NEW account \in Accounts, NEW key \in DelegationKeys,
         NEW others \in SUBSET Accounts, NEW max_fee \in Nat,
         authenticate(account, key, others, max_fee)
  PROVE  Inv'
<1> DEFINE d == <<account, key>>
           v == delegations[d]
<1>1. /\ ~running /\ d \in DOMAIN delegations
      /\ check_txn_rate(v)
      /\ enabled /\ v.handle.storage \in DOMAIN storages /\ now_seconds < v.expiration_time
      /\ delegations' = write(delegations, d, counted(v))
      /\ start(v.handle, others, max_fee)
      /\ UNCHANGED <<microseconds, enabled, storages, active_handles, generated>>
  BY DEF authenticate, signer_from_storable_permissioned_handle, handle_is_active,
         signer_from_permissioned_handle_impl_returns, contains, permissionVars
<1> HIDE DEF d
<1>2. v \in AccountDelegationType
  BY <1>1 DEF Inv, Registered, IsTable
<1>3. /\ counted(v) \in AccountDelegationType
      /\ counted(v).handle = v.handle /\ counted(v).expiration_time = v.expiration_time
      /\ counted(v).rate_limiter # NoLimiter
           => counted(v).rate_limiter.last_refill_timestamp <= now_seconds
  <2>1. CASE v.rate_limiter = NoLimiter
    BY <1>2, <2>1 DEF counted
  <2>2. CASE v.rate_limiter # NoLimiter
    <3>1. v.rate_limiter \in LimiterType /\ request_granted(v.rate_limiter, 1)
      BY <1>1, <1>2, <2>2 DEF check_txn_rate, AccountDelegationType, LimiterType
    <3>2. now_seconds \in Seconds /\ v.rate_limiter.last_refill_timestamp <= now_seconds
      BY <1>1, <2>2, SecondsAreNaturals DEF Inv, now_seconds, Registered
    <3>3. /\ request(v.rate_limiter, 1) \in LimiterType
          /\ request(v.rate_limiter, 1).last_refill_timestamp = now_seconds
      BY <3>1, <3>2, RequestIsTyped
    <3>4. now_seconds <= now_seconds
      BY <3>2, SecondsAreNaturals
    <3>5. counted(v) = [v EXCEPT !.rate_limiter = request(v.rate_limiter, 1)]
      BY <2>2 DEF counted
    <3> QED
      BY <1>2, <3>3, <3>4, <3>5 DEF AccountDelegationType, LimiterType
  <2> QED
    BY <2>1, <2>2
<1>4. /\ IsTable(delegations', Accounts \X DelegationKeys, AccountDelegationType)
      /\ DOMAIN delegations' = DOMAIN delegations
      /\ delegations'[d] = counted(v)
      /\ \A e \in DOMAIN delegations : e # d => delegations'[e] = delegations[e]
  <2>1. IsTable(delegations, Accounts \X DelegationKeys, AccountDelegationType)
    BY DEF Inv, Registered
  <2> QED
    BY <1>1, <1>3, <2>1, WriteToTable
<1>5. Registered(delegations')
  BY <1>3, <1>4 DEF Inv, Registered
<1>6. \A e \in DOMAIN delegations : delegations'[e].handle = delegations[e].handle
  BY <1>3, <1>4
<1>7. Linked(storages, active_handles, generated, delegations', {})
  <2>1. Linked(storages, active_handles, generated, delegations, {})
    BY <1>1 DEF Inv, Mine
  <2> QED
    BY <1>4, <1>6, <2>1 DEF Linked
<1>8. \A e \in DOMAIN delegations' :
        delegations'[e].handle = v.handle => now_seconds < delegations'[e].expiration_time
  BY <1>1, <1>3, <1>4, <1>6, <1>7 DEF Linked
<1>9. v.handle \in Signer
  BY <1>2 DEF AccountDelegationType
<1> QED
  BY <1>1, <1>5, <1>7, <1>8, <1>9, StartKeepsInv

LEMMA BeginKeepsInv ==
  ASSUME Inv, Begin
  PROVE  Inv'
<1>1. /\ MaxFees \subseteq Nat
      /\ \A account \in Accounts : SUBSET (Accounts \ {account}) \subseteq SUBSET Accounts
  BY DelegationConstants
<1> QED
  BY <1>1, BeginAsMasterKeepsInv, AuthenticateKeepsInv DEF Begin

-----------------------------------------------------------------------------
(* The end of a transaction, the clock and the flag.                        *)

\* Settling a fee changes an amount of the storage of the payer, or nothing.
LEMMA SettledIsTyped ==
  ASSUME NEW all, AmountsTyped(all), NEW fee \in Nat, NEW refund \in Nat,
         is_permissioned_signer(tx.gas_payer) /\ fee # refund =>
           contains(all, tx.gas_payer.storage)
             /\ (fee < refund => fits_capacity(stored(all, tx.gas_payer, "Gas"), refund - fee))
  PROVE  DOMAIN settled(all, fee, refund) = DOMAIN all /\ AmountsTyped(settled(all, fee, refund))
<1> DEFINE payer == tx.gas_payer
<1>1. "Gas" \in Permissions
  BY DEF Permissions
<1>2. CASE ~is_permissioned_signer(payer) \/ fee = refund
  BY <1>2 DEF settled
<1>3. CASE is_permissioned_signer(payer) /\ fee < refund
  <2>1. settled(all, fee, refund) = increased(all, payer, refund - fee, "Gas") /\ refund - fee \in Nat
    BY <1>3 DEF settled
  <2> QED
    BY <1>1, <1>3, <2>1, IncreasedIsTyped
<1>4. CASE is_permissioned_signer(payer) /\ refund < fee
  <2>1. CASE contains(all[payer.storage], "Gas") /\ is_above(all[payer.storage]["Gas"], fee - refund)
    <3>1. settled(all, fee, refund) = consumed(all, payer, fee - refund, "Gas") /\ fee - refund \in Nat
      BY <1>4, <2>1 DEF settled
    <3>2. is_above(stored(all, payer, "Gas"), fee - refund)
      BY <1>4, <2>1 DEF stored
    <3> QED
      BY <1>1, <1>4, <3>1, <3>2, ConsumedIsTyped
  <2>2. CASE ~(contains(all[payer.storage], "Gas") /\ is_above(all[payer.storage]["Gas"], fee - refund))
    BY <1>4, <2>2 DEF settled
  <2> QED
    BY <2>1, <2>2
<1> QED
  BY <1>2, <1>3, <1>4

LEMMA CommitKeepsInv ==
  ASSUME Inv, Commit
  PROVE  Inv'
<1>1. TxInv /\ running /\ tx.handles = {}
  BY DEF Inv, Commit
<1>2. PICK fee \in 0 .. tx.max_fee, refund \in Refunds :
        settles(storages, fee, refund) /\ storages' = settled(storages, fee, refund)
  BY DEF Commit
<1>3. fee \in Nat /\ refund \in Nat
  BY <1>1, DelegationConstants DEF TxInv
<1>4. DOMAIN storages' = DOMAIN storages /\ AmountsTyped(storages')
  <2>1. is_permissioned_signer(tx.gas_payer) /\ fee # refund =>
          contains(storages, tx.gas_payer.storage)
            /\ (fee < refund => fits_capacity(stored(storages, tx.gas_payer, "Gas"), refund - fee))
    BY <1>2 DEF settles, has_storage, permission_address
  <2>2. AmountsTyped(storages)
    BY DEF Inv
  <2> QED
    BY <1>2, <1>3, <2>1, <2>2, SettledIsTyped
<1>5. /\ UNCHANGED <<microseconds, enabled, active_handles, generated, delegations>>
      /\ ~running' /\ Mine' = {}
  BY DEF Commit, running, Mine
<1>6. Registered(delegations)'
  BY <1>5 DEF Inv, Registered, now_seconds
<1>7. Linked(storages', active_handles', generated', delegations', {})
  <2>1. Linked(storages, active_handles, generated, delegations, {})
    BY <1>1 DEF Inv, Mine
  <2> QED
    BY <1>4, <1>5, <2>1, AmountsDoNotUnlink
<1> QED
  BY <1>4, <1>5, <1>6, <1>7 DEF Inv

LEMMA FailKeepsInv ==
  ASSUME Inv, Fail
  PROVE  Inv'
<1>1. TxInv /\ running
  BY DEF Inv, Fail
<1>2. PICK fee \in 0 .. tx.max_fee : storages' = settled(tx.saved.storages, fee, 0)
  BY DEF Fail
<1>3. fee \in Nat /\ 0 \in Nat /\ ~(fee < 0)
  BY <1>1 DEF TxInv
<1>4. DOMAIN storages' = DOMAIN tx.saved.storages /\ AmountsTyped(storages')
  <2>1. is_permissioned_signer(tx.gas_payer) => contains(tx.saved.storages, tx.gas_payer.storage)
    BY <1>1 DEF TxInv, contains
  <2>2. AmountsTyped(tx.saved.storages)
    BY <1>1 DEF TxInv
  <2> QED
    BY <1>2, <1>3, <2>1, <2>2, SettledIsTyped
<1>5. /\ UNCHANGED <<microseconds, enabled>>
      /\ active_handles' = tx.saved.active_handles /\ generated' = tx.saved.generated
      /\ delegations' = tx.saved.delegations
      /\ ~running' /\ Mine' = {}
  BY DEF Fail, running, Mine
<1>6. Registered(delegations)'
  BY <1>1, <1>5 DEF TxInv, Registered, now_seconds
<1>7. Linked(storages', active_handles', generated', delegations', {})
  BY <1>1, <1>4, <1>5, AmountsDoNotUnlink DEF TxInv
<1> QED
  BY <1>4, <1>5, <1>6, <1>7 DEF Inv

LEMMA BlockPrologueKeepsInv ==
  ASSUME Inv, BlockPrologue
  PROVE  Inv'
<1>1. /\ ~running /\ microseconds \in Nat /\ microseconds' \in Timestamps \cup {0}
      /\ microseconds' \in Nat /\ microseconds <= microseconds'
      /\ UNCHANGED <<enabled, storages, active_handles, generated, delegations, tx>>
  BY SecondsAreNaturals DEF Inv, BlockPrologue, update_global_time, permissionVars
<1>2. /\ now_seconds <= now_seconds' /\ now_seconds \in Nat /\ now_seconds' \in Nat
      /\ Seconds \subseteq Nat
  BY <1>1, RoundingIsMonotonic, SecondsAreNaturals DEF Inv, now_seconds
<1>3. \A d \in DOMAIN delegations : delegations[d].rate_limiter # NoLimiter =>
        delegations[d].rate_limiter.last_refill_timestamp \in Nat
  BY <1>2 DEF Inv, Registered, IsTable, AccountDelegationType
<1>4. Registered(delegations)'
  BY <1>1, <1>2, <1>3 DEF Inv, Registered
<1>5. ~running' /\ Mine' = Mine
  BY <1>1 DEF running, Mine
<1> QED
  BY <1>1, <1>4, <1>5 DEF Inv

LEMMA NextEpochKeepsInv ==
  ASSUME Inv, NextEpoch
  PROVE  Inv'
<1>1. /\ ~running /\ enabled' = ~enabled
      /\ UNCHANGED <<microseconds, storages, active_handles, generated, delegations, tx>>
  BY DEF NextEpoch, on_new_epoch
<1>2. ~running' /\ Mine' = Mine
  BY <1>1 DEF running, Mine
<1>3. Registered(delegations)'
  BY <1>1 DEF Inv, Registered, now_seconds
<1> QED
  BY <1>1, <1>2, <1>3 DEF Inv

-----------------------------------------------------------------------------
(* The invariant holds in every state that the accounts reach.              *)
LEMMA DelegationInvariant == DelegationSpec => []Inv
<1>1. DelegationInit => Inv
  <2> SUFFICES ASSUME DelegationInit
               PROVE  Inv
    OBVIOUS
  <2>1. /\ microseconds = 0 /\ enabled = TRUE /\ storages = new /\ active_handles = new
        /\ generated = 0 /\ delegations = new /\ ~running /\ Mine = {}
    BY DEF DelegationInit, InitTime, PermissionInit, running, Mine
  <2>2. AmountsTyped(storages) /\ Registered(delegations)
    BY <2>1, NewTable DEF AmountsTyped, Registered
  <2>3. Linked(storages, active_handles, generated, delegations, Mine)
    BY <2>1, NewTable, PermissionConstants DEF Linked
  <2> QED
    BY <2>1, <2>2, <2>3 DEF Inv
<1>2. Inv /\ [DelegationNext]_delegationVars => Inv'
  <2> SUFFICES ASSUME Inv, [DelegationNext]_delegationVars
               PROVE  Inv'
    OBVIOUS
  <2>1. CASE Call
    BY <2>1, DelegationCallKeepsInv, HandleCallKeepsInv, RevokeCallKeepsInv, GasCallKeepsInv,
       AssetCallKeepsInv DEF Call
  <2>2. CASE UNCHANGED delegationVars
    BY <2>2 DEF delegationVars, permissionVars, Inv, TxInv, Mine, running, Registered, now_seconds,
                is_permissioned_signer
  <2> QED
    BY <2>1, <2>2, BeginKeepsInv, CommitKeepsInv, FailKeepsInv, BlockPrologueKeepsInv,
       NextEpochKeepsInv DEF DelegationNext
<1> QED
  BY <1>1, <1>2, PTL DEF DelegationSpec

(* The resources of delegation have their types in every state: no storage  *)
(* has an address that was not generated, whatever a transaction that fails *)
(* brings back, and no limiter has a negative amount of tokens.             *)
THEOREM DelegationTypeCorrect == DelegationSpec => []DelegationTypeOK
<1>1. Inv => DelegationTypeOK
  <2> SUFFICES ASSUME Inv
               PROVE  DelegationTypeOK
    OBVIOUS
  <2>1. microseconds \in Nat /\ generated \in 0 .. MaxStorages
    BY SecondsAreNaturals DEF Inv, Linked
  <2>2. Linked(storages, active_handles, generated, delegations, Mine)
    BY DEF Inv
  <2>3. DOMAIN storages \subseteq 1 .. generated
    <3>1. \A a \in DOMAIN active_handles : active_handles[a] \subseteq 1 .. generated
      BY <2>2 DEF Linked, IsTable
    <3>2. \A p \in Mine : p.storage \in 1 .. generated
      BY <2>2 DEF Linked, Handles
    <3> QED
      BY <2>2, <3>1, <3>2 DEF Linked
  <2>4. running => tx.handles \subseteq Signer
    BY <2>1, <2>2, PermissionConstants DEF Linked, Mine, Handles, Signer
  <2> QED
    BY <2>1, <2>2, <2>3, <2>4 DEF Inv, TxInv, Linked, Registered, AmountsTyped, DelegationTypeOK
<1> QED
  BY <1>1, DelegationInvariant, PTL

(* What is revoked stays revoked, for any number of accounts, keys, storages*)
(* and calls: every storage can be revoked by its account or belongs to a   *)
(* handle of the running transaction, every active handle is the handle of a*)
(* key, and no signer is for a storage that was revoked before its          *)
(* transaction, for a key that has expired, or used with the feature off.   *)
THEOREM RevocationIsAlwaysFinal == DelegationSpec => []RevocationIsFinal
<1>1. Inv => RevocationIsFinal
  <2> SUFFICES ASSUME Inv
               PROVE  RevocationIsFinal
    OBVIOUS
  <2> DEFINE handles == {delegations[d].handle : d \in DOMAIN delegations}
             active == {s \in Signer : contains(active_handles, s.account)
                                       /\ s.storage \in active_handles[s.account]}
             mine == IF running THEN tx.handles ELSE {}
  <2>1. Linked(storages, active_handles, generated, delegations, mine)
    BY DEF Inv, Mine
  <2>2. generated \in 0 .. MaxStorages /\ Handles(generated) \subseteq Signer
    BY <2>1, PermissionConstants DEF Linked, Handles, Signer
  <2>3. \A a \in DOMAIN active_handles : \A x \in active_handles[a] :
          [account |-> a, storage |-> x] \in active
    <3>1. \A a \in DOMAIN active_handles : a \in Accounts /\ active_handles[a] \subseteq 1 .. generated
      BY <2>1 DEF Linked, IsTable
    <3> QED
      BY <2>2, <3>1 DEF contains, Handles
  <2>4. DOMAIN storages = {s.storage : s \in active \cup mine}
    <3>1. ASSUME NEW x \in DOMAIN storages
          PROVE  x \in {s.storage : s \in active \cup mine}
      <4>1. CASE \E a \in DOMAIN active_handles : x \in active_handles[a]
        <5>1. PICK a \in DOMAIN active_handles : x \in active_handles[a]
          BY <4>1
        <5> DEFINE h == [account |-> a, storage |-> x]
        <5>2. h \in active
          BY <2>3, <5>1
        <5>3. h.storage = x
          OBVIOUS
        <5> HIDE DEF h, active
        <5> QED
          BY <5>2, <5>3
      <4>2. CASE \E p \in mine : p.storage = x
        BY <4>2
      <4> QED
        BY <2>1, <4>1, <4>2 DEF Linked
    <3>2. ASSUME NEW s \in active \cup mine
          PROVE  s.storage \in DOMAIN storages
      BY <2>1 DEF Linked, contains
    <3> QED
      BY <3>1, <3>2
  <2>5. active \subseteq handles
    <3> SUFFICES ASSUME NEW s \in active
                 PROVE  s \in handles
      OBVIOUS
    <3>1. PICK d \in DOMAIN delegations :
            delegations[d].handle.account = s.account /\ delegations[d].handle.storage = s.storage
      BY <2>1 DEF Linked, contains
    <3>2. delegations[d].handle \in Signer
      BY <2>1, <2>2 DEF Linked
    <3>3. delegations[d].handle = s
      BY <3>1, <3>2 DEF Signer
    <3> QED
      BY <3>3
  <2>6. \A h \in handles : contains(active_handles, h.account)
    BY <2>1 DEF Linked, contains
  <2>7. running =>
          /\ \A s \in tx.signers :
               /\ borrow_address_returns(s)
               /\ s.storage = 0 \/ contains(tx.saved.storages, s.storage)
                                \/ s.storage > tx.saved.generated
          /\ \A d \in DOMAIN delegations :
               delegations[d].handle \in tx.signers
                 => now_seconds < delegations[d].expiration_time
    BY DEF Inv, TxInv, borrow_address_returns, contains
  <2> QED
    BY <2>4, <2>5, <2>6, <2>7 DEF RevocationIsFinal
<1> QED
  BY <1>1, DelegationInvariant, PTL

-----------------------------------------------------------------------------
(* Spending.                                                                *)

\* What is left in any storage was granted to it.
Covered(all, granted_less_spent) ==
  /\ granted_less_spent \in [Storages -> [Budgeted -> Int]]
  /\ \A x \in Storages, key \in Budgeted :
       /\ stored(all, [storage |-> x], key) \in 0 .. U256_MAX
       /\ stored(all, [storage |-> x], key) <= granted_less_spent[x][key]

\* The largest fee can still be paid, or as much was granted and is gone.
Reserved(all, granted_less_spent) ==
  LET left == stored(all, tx.gas_payer, "Gas")
  IN  left >= tx.max_fee \/ granted_less_spent[tx.gas_payer.storage]["Gas"] - left >= tx.max_fee

SpentInv ==
  /\ Covered(storages, budget)
  /\ running =>
       /\ Covered(tx.saved.storages, tx.saved.budget)
       /\ is_permissioned_signer(tx.gas_payer) =>
            /\ tx.gas_payer.storage \in Storages
            /\ stored(tx.saved.storages, tx.gas_payer, "Gas") >= tx.max_fee
            /\ Reserved(storages, budget)

\* The storage of a signer is all that matters of the signer.
LEMMA StoredByStorage ==
  ASSUME NEW all, NEW s, NEW key
  PROVE  stored(all, s, key) = stored(all, [storage |-> s.storage], key)
  BY DEF stored

\* A call under which every amount stays, or goes away with what held it.
LEMMA LosingKeepsSpent ==
  ASSUME SpentInv, running, TxInv,
         \E signers, handles : Kept(signers, handles),
         UNCHANGED <<enabled, budget>>,
         \A s, key : key \in Budgeted =>
           stored(storages', s, key) = stored(storages, s, key) \/ stored(storages', s, key) = 0
  PROVE  SpentInv'
<1>1. /\ tx'.status = "running" /\ tx'.saved = tx.saved /\ tx'.max_fee = tx.max_fee
      /\ tx'.gas_payer = tx.gas_payer
  BY DEF TxInv, Kept
<1>2. 0 \in 0 .. U256_MAX /\ tx.max_fee \in Nat /\ "Gas" \in Budgeted
  BY PermissionConstants DEF TxInv, Budgeted
<1>3. Covered(storages', budget')
  <2> SUFFICES ASSUME NEW x \in Storages, NEW key \in Budgeted
               PROVE  /\ stored(storages', [storage |-> x], key) \in 0 .. U256_MAX
                      /\ stored(storages', [storage |-> x], key) <= budget[x][key]
    BY DEF SpentInv, Covered
  <2>1. /\ stored(storages, [storage |-> x], key) \in 0 .. U256_MAX
        /\ stored(storages, [storage |-> x], key) <= budget[x][key]
        /\ budget[x][key] \in Int
    BY DEF SpentInv, Covered
  <2>2. \/ stored(storages', [storage |-> x], key) = stored(storages, [storage |-> x], key)
        \/ stored(storages', [storage |-> x], key) = 0
    OBVIOUS
  <2> QED
    BY <1>2, <2>1, <2>2
<1>4. ASSUME is_permissioned_signer(tx.gas_payer)'
      PROVE  Reserved(storages, budget)' /\ tx.gas_payer.storage \in Storages
             /\ stored(tx.saved.storages, tx.gas_payer, "Gas") >= tx.max_fee
  <2> DEFINE payer == tx.gas_payer
             left == stored(storages, payer, "Gas")
             had == budget[payer.storage]["Gas"]
  <2>1. /\ payer.storage \in Storages /\ Reserved(storages, budget)
        /\ stored(tx.saved.storages, payer, "Gas") >= tx.max_fee
    BY <1>1, <1>4 DEF SpentInv, is_permissioned_signer, is_permissioned_signer_impl
  <2>2. left \in Nat /\ had \in Int /\ left <= had
    <3>1. left = stored(storages, [storage |-> payer.storage], "Gas")
      BY StoredByStorage
    <3> QED
      BY <1>2, <2>1, <3>1 DEF SpentInv, Covered
  <2>3. stored(storages', payer, "Gas") = left \/ stored(storages', payer, "Gas") = 0
    BY <1>2
  <2>4. left >= tx.max_fee \/ had - left >= tx.max_fee
    BY <2>1 DEF Reserved
  <2> HIDE DEF left, had
  <2>5. LET now == stored(storages', payer, "Gas")
        IN  now >= tx.max_fee \/ had - now >= tx.max_fee
    BY <1>2, <2>2, <2>3, <2>4
  <2> QED
    BY <1>1, <2>1, <2>5 DEF Reserved, had
<1> QED
  BY <1>1, <1>3, <1>4 DEF SpentInv, running, NoTx

\* A call that moves one amount and its budget by as much, but a fee only up.
LEMMA MovingKeepsSpent ==
  ASSUME SpentInv, running, TxInv, Kept({}, tx.handles), UNCHANGED enabled,
         NEW payer, payer.storage \in Storages, NEW moved \in Budgeted, NEW by \in Int,
         moved = "Gas" => by >= 0,
         \A s, key : key \in Budgeted =>
           stored(storages', s, key) =
             IF s.storage = payer.storage /\ key = moved
             THEN stored(storages, s, key) + by ELSE stored(storages, s, key),
         stored(storages, payer, moved) + by \in 0 .. U256_MAX,
         budget' = [budget EXCEPT ![payer.storage][moved] = budget[payer.storage][moved] + by]
  PROVE  SpentInv'
<1>1. /\ tx'.status = "running" /\ tx'.saved = tx.saved /\ tx'.max_fee = tx.max_fee
      /\ tx'.gas_payer = tx.gas_payer
  BY DEF TxInv, Kept
<1>2. tx.max_fee \in Nat /\ "Gas" \in Budgeted /\ budget \in [Storages -> [Budgeted -> Int]]
  BY DEF TxInv, Budgeted, SpentInv, Covered
<1>3. /\ budget' \in [Storages -> [Budgeted -> Int]]
      /\ \A x \in Storages, key \in Budgeted :
           budget'[x][key] = IF x = payer.storage /\ key = moved
                             THEN budget[x][key] + by ELSE budget[x][key]
  BY <1>2
<1>4. \A x \in Storages, key \in Budgeted :
        /\ stored(storages, [storage |-> x], key) \in 0 .. U256_MAX
        /\ stored(storages, [storage |-> x], key) <= budget[x][key]
        /\ budget[x][key] \in Int
  BY <1>2 DEF SpentInv, Covered
<1>5. stored(storages, payer, moved) = stored(storages, [storage |-> payer.storage], moved)
  BY StoredByStorage
<1>6. Covered(storages', budget')
  <2> SUFFICES ASSUME NEW x \in Storages, NEW key \in Budgeted
               PROVE  /\ stored(storages', [storage |-> x], key) \in 0 .. U256_MAX
                      /\ stored(storages', [storage |-> x], key) <= budget'[x][key]
    BY <1>3 DEF Covered
  <2> DEFINE t == [storage |-> x]
  <2>1. t.storage = x
    OBVIOUS
  <2> HIDE DEF t
  <2>2. CASE x = payer.storage /\ key = moved
    <3>1. stored(storages', t, key) = stored(storages, t, key) + by
      BY <2>1, <2>2
    <3>2. stored(storages, t, key) + by \in 0 .. U256_MAX
      BY <1>5, <2>2 DEF t
    <3>3. stored(storages, t, key) \in Int /\ stored(storages, t, key) <= budget[x][key]
          /\ budget[x][key] \in Int
      BY <1>4 DEF t
    <3> QED
      BY <1>3, <2>2, <3>1, <3>2, <3>3, PermissionConstants DEF t
  <2>3. CASE ~(x = payer.storage /\ key = moved)
    <3>1. stored(storages', t, key) = stored(storages, t, key)
      BY <2>1, <2>3
    <3> QED
      BY <1>3, <1>4, <2>3, <3>1 DEF t
  <2> QED
    BY <2>2, <2>3
<1>7. ASSUME is_permissioned_signer(tx.gas_payer)'
      PROVE  Reserved(storages, budget)' /\ tx.gas_payer.storage \in Storages
             /\ stored(tx.saved.storages, tx.gas_payer, "Gas") >= tx.max_fee
  <2> DEFINE left == stored(storages, tx.gas_payer, "Gas")
             had == budget[tx.gas_payer.storage]["Gas"]
  <2>1. /\ tx.gas_payer.storage \in Storages /\ Reserved(storages, budget)
        /\ stored(tx.saved.storages, tx.gas_payer, "Gas") >= tx.max_fee
    BY <1>1, <1>7 DEF SpentInv, is_permissioned_signer, is_permissioned_signer_impl
  <2>2. left \in Int /\ had \in Int
    <3>1. left = stored(storages, [storage |-> tx.gas_payer.storage], "Gas")
      BY StoredByStorage
    <3> QED
      BY <1>2, <1>4, <2>1, <3>1
  <2>3. \/ /\ stored(storages', tx.gas_payer, "Gas") = left
           /\ budget'[tx.gas_payer.storage]["Gas"] = had
        \/ /\ stored(storages', tx.gas_payer, "Gas") = left + by
           /\ budget'[tx.gas_payer.storage]["Gas"] = had + by
           /\ by >= 0
    BY <1>2, <1>3, <2>1
  <2>4. left >= tx.max_fee \/ had - left >= tx.max_fee
    BY <2>1 DEF Reserved
  <2> HIDE DEF left, had
  <2>5. LET now == stored(storages', tx.gas_payer, "Gas")
        IN  now >= tx.max_fee \/ budget'[tx.gas_payer.storage]["Gas"] - now >= tx.max_fee
    BY <1>2, <2>2, <2>3, <2>4
  <2> QED
    BY <1>1, <2>1, <2>5 DEF Reserved
<1> QED
  BY <1>1, <1>6, <1>7 DEF SpentInv, running, NoTx

\* Storages come and go without an amount.
LEMMA AmountsOfStorages ==
  ASSUME NEW all, NEW s, NEW key
  PROVE  /\ \A x : stored(add(all, x, new), s, key) \in {stored(all, s, key), 0}
         /\ \A X : stored([x \in DOMAIN all \ X |-> all[x]], s, key) \in {stored(all, s, key), 0}
<1>1. ASSUME NEW x
      PROVE  stored(add(all, x, new), s, key) \in {stored(all, s, key), 0}
  BY DEF stored, add, contains, new
<1>2. ASSUME NEW X
      PROVE  stored([x \in DOMAIN all \ X |-> all[x]], s, key) \in {stored(all, s, key), 0}
  <2> DEFINE rest == [x \in DOMAIN all \ X |-> all[x]]
  <2>1. DOMAIN rest = DOMAIN all \ X /\ \A x \in DOMAIN rest : rest[x] = all[x]
    OBVIOUS
  <2> HIDE DEF rest
  <2>2. stored(rest, s, key) \in {stored(all, s, key), 0}
    BY <2>1 DEF stored, contains
  <2> QED
    BY <2>2 DEF rest
<1> QED
  BY <1>1, <1>2

LEMMA DestroyedAmounts ==
  ASSUME NEW x, storages' = destroy_permissions_storage_address(x)
  PROVE  \A s, key : stored(storages', s, key) \in {stored(storages, s, key), 0}
<1>1. storages' = storages \/ storages' = [y \in DOMAIN storages \ {x} |-> storages[y]]
  BY DEF destroy_permissions_storage_address, remove
<1> QED
  BY <1>1, AmountsOfStorages

LEMMA IncreaseKeepsSpent ==
  ASSUME Inv, SpentInv, running, Kept({}, tx.handles), UNCHANGED enabled,
         NEW s \in tx.signers, NEW key \in Budgeted, NEW capacity \in Nat,
         is_permissioned_signer(s),
         increases(storages, s, capacity, key),
         storages' = increased(storages, s, capacity, key),
         budget' = granted(s.storage, key, capacity)
  PROVE  SpentInv'
<1>1. TxInv /\ AmountsTyped(storages) /\ key \in Permissions
  BY DEF Inv, Budgeted, Permissions
<1>2. s.storage \in Storages
  BY <1>1, PermissionConstants DEF TxInv, Signer, Storages, is_permissioned_signer,
                                   is_permissioned_signer_impl
<1>3. contains(storages, s.storage) /\ fits_capacity(stored(storages, s, key), capacity)
  BY DEF increases, has_storage, permission_address
<1>4. stored(storages, s, key) \in 0 .. U256_MAX
  <2>1. stored(storages, s, key) = stored(storages, [storage |-> s.storage], key)
    BY StoredByStorage
  <2> QED
    BY <1>2, <2>1 DEF SpentInv, Covered
<1>5. /\ increase_capacity(stored(storages, s, key), capacity) = stored(storages, s, key) + capacity
      /\ stored(storages, s, key) + capacity \in 0 .. U256_MAX
  BY <1>3, <1>4, PermissionConstants DEF increase_capacity, fits_capacity
<1>6. \A t, k : stored(storages', t, k) =
        IF t.storage = s.storage /\ k = key
        THEN stored(storages, s, key) + capacity ELSE stored(storages, t, k)
  BY <1>1, <1>3, <1>5, IncreasedIsTyped
<1>7. \A t, k : k \in Budgeted => stored(storages', t, k) =
        IF t.storage = s.storage /\ k = key
        THEN stored(storages, t, k) + capacity ELSE stored(storages, t, k)
  BY <1>6 DEF stored
<1>8. budget' = [budget EXCEPT ![s.storage][key] = budget[s.storage][key] + capacity]
  BY DEF granted
<1>9. capacity \in Int /\ (key = "Gas" => capacity >= 0)
  OBVIOUS
<1> HIDE DEF SpentInv
<1> QED
  BY <1>1, <1>2, <1>5, <1>7, <1>8, <1>9, MovingKeepsSpent

LEMMA WithdrawKeepsSpent ==
  ASSUME Inv, SpentInv, running, NEW s \in tx.signers, NEW amount \in Nat, Withdraw(s, amount)
  PROVE  SpentInv'
<1>1. TxInv /\ AmountsTyped(storages) /\ "Withdraw" \in Permissions /\ "Withdraw" \in Budgeted
  BY DEF Inv, Budgeted, Permissions
<1>2. s.storage \in Storages
  BY <1>1, PermissionConstants DEF TxInv, Signer, Storages, Withdraw, check_permission_consume,
                                   is_permissioned_signer, is_permissioned_signer_impl
<1>3. /\ contains(storages, s.storage)
      /\ is_above(stored(storages, s, "Withdraw"), amount)
      /\ storages' = consumed(storages, s, amount, "Withdraw")
      /\ Kept({}, tx.handles) /\ UNCHANGED enabled
      /\ budget' = spent(budget, s.storage, "Withdraw", amount)
  BY DEF Withdraw, check_permission_consume, check_permission_capacity_above, has_storage,
         permission_address, stored
<1>4. stored(storages, s, "Withdraw") \in 0 .. U256_MAX
  <2>1. stored(storages, s, "Withdraw") = stored(storages, [storage |-> s.storage], "Withdraw")
    BY StoredByStorage
  <2> QED
    BY <1>1, <1>2, <2>1 DEF SpentInv, Covered
<1> DEFINE by == -amount
<1>5. /\ by \in Int
      /\ consume_capacity(stored(storages, s, "Withdraw"), amount) =
           stored(storages, s, "Withdraw") + by
      /\ stored(storages, s, "Withdraw") + by \in 0 .. U256_MAX
  BY <1>3, <1>4, PermissionConstants DEF consume_capacity, is_above
<1>6. budget' = [budget EXCEPT ![s.storage]["Withdraw"] = budget[s.storage]["Withdraw"] + by]
  <2>1. budget[s.storage]["Withdraw"] \in Int
    BY <1>1, <1>2 DEF SpentInv, Covered
  <2>2. budget[s.storage]["Withdraw"] - amount = budget[s.storage]["Withdraw"] + by
    BY <2>1
  <2> QED
    BY <1>3, <2>2 DEF spent
<1> HIDE DEF by
<1>7. \A t, k : stored(storages', t, k) =
        IF t.storage = s.storage /\ k = "Withdraw"
        THEN stored(storages, s, "Withdraw") + by ELSE stored(storages, t, k)
  BY <1>1, <1>3, <1>5, ConsumedIsTyped
<1>8. \A t, k : k \in Budgeted => stored(storages', t, k) =
        IF t.storage = s.storage /\ k = "Withdraw"
        THEN stored(storages, t, k) + by ELSE stored(storages, t, k)
  BY <1>7 DEF stored
<1> QED
  BY <1>1, <1>2, <1>3, <1>5, <1>6, <1>8, MovingKeepsSpent

LEMMA UnlimitedKeepsSpent ==
  ASSUME Inv, SpentInv, running, Kept({}, tx.handles), UNCHANGED <<enabled, budget>>,
         NEW s, NEW key \in {"Transfer", "Revoke"}, has_storage(storages, s),
         storages' = insert_or(storages, s, key, Unlimited)
  PROVE  SpentInv'
<1>1. /\ TxInv /\ AmountsTyped(storages)
      /\ key \in Permissions /\ key \notin Budgeted /\ Unlimited \in StoredPermission
      /\ contains(storages, s.storage)
  BY DEF Inv, Budgeted, Permissions, StoredPermission, has_storage, permission_address
<1>2. \A t, k : k \in Budgeted => stored(storages', t, k) = stored(storages, t, k)
  BY <1>1, InsertOr
<1> QED
  BY <1>1, <1>2, LosingKeepsSpent

LEMMA CallKeepsSpent ==
  ASSUME Inv, SpentInv, Call
  PROVE  SpentInv'
<1>1. running /\ TxInv /\ Amounts \subseteq Nat /\ "Gas" \in Budgeted /\ "Withdraw" \in Budgeted
  BY DelegationConstants DEF Inv, Call, Budgeted
<1>2. CASE DelegationCall
  <2>1. ASSUME NEW master \in tx.signers, NEW key \in DelegationKeys,
               NEW expiration_time \in Expirations, NEW limiter \in Limiters,
               add_permissioned_handle(master, key, limiter, expiration_time)
        PROVE  SpentInv'
    <3>1. /\ storages' = add(storages, generated + 1, new)
          /\ UNCHANGED <<enabled, budget>>
          /\ \E signers, handles : Kept(signers, handles)
      BY <2>1 DEF add_permissioned_handle, create_storable_permissioned_handle,
                  initialize_permission_address, generate_auid_address
    <3>2. \A s, k : stored(storages', s, k) \in {stored(storages, s, k), 0}
      BY <3>1, AmountsOfStorages
    <3> QED
      BY <1>1, <3>1, <3>2, LosingKeepsSpent
  <2>2. ASSUME NEW master \in tx.signers, NEW key \in DelegationKeys,
               remove_permissioned_handle(master, key)
        PROVE  SpentInv'
    <3>1. /\ \E x : storages' = destroy_permissions_storage_address(x)
          /\ UNCHANGED <<enabled, budget>>
          /\ \E signers, handles : Kept(signers, handles)
      BY <2>2 DEF remove_permissioned_handle, destroy_storable_permissioned_handle
    <3>2. \A s, k : stored(storages', s, k) \in {stored(storages, s, k), 0}
      BY <3>1, DestroyedAmounts
    <3> QED
      BY <1>1, <3>1, <3>2, LosingKeepsSpent
  <2>3. ASSUME NEW master \in tx.signers, NEW key \in DelegationKeys,
               permissioned_signer_by_key(master, key)
        PROVE  SpentInv'
    <3>1. UNCHANGED <<storages, enabled, budget>> /\ \E signers, handles : Kept(signers, handles)
      BY <2>3 DEF permissioned_signer_by_key, permissionVars
    <3> QED
      BY <1>1, <3>1, LosingKeepsSpent
  <2> QED
    BY <1>2, <2>1, <2>2, <2>3 DEF DelegationCall
<1>3. CASE HandleCall
  <2>1. ASSUME NEW master \in tx.signers, MakeHandle(master)
        PROVE  SpentInv'
    <3>1. /\ storages' = add(storages, generated + 1, new)
          /\ UNCHANGED <<enabled, budget>>
          /\ \E signers, handles : Kept(signers, handles)
      BY <2>1 DEF MakeHandle, create_permissioned_handle, initialize_permission_address,
                  generate_auid_address
    <3>2. \A s, k : stored(storages', s, k) \in {stored(storages, s, k), 0}
      BY <3>1, AmountsOfStorages
    <3> QED
      BY <1>1, <3>1, <3>2, LosingKeepsSpent
  <2>2. ASSUME NEW p \in tx.handles, signer_from_permissioned_handle(p)
        PROVE  SpentInv'
    <3>1. UNCHANGED <<storages, enabled, budget>> /\ \E signers, handles : Kept(signers, handles)
      BY <2>2 DEF signer_from_permissioned_handle, permissionVars
    <3> QED
      BY <1>1, <3>1, LosingKeepsSpent
  <2>3. ASSUME NEW p \in tx.handles, DestroyHandle(p)
        PROVE  SpentInv'
    <3>1. /\ storages' = destroy_permissions_storage_address(p.storage)
          /\ UNCHANGED <<enabled, budget>>
          /\ \E signers, handles : Kept(signers, handles)
      BY <2>3 DEF DestroyHandle, destroy_permissioned_handle
    <3>2. \A s, k : stored(storages', s, k) \in {stored(storages, s, k), 0}
      BY <3>1, DestroyedAmounts
    <3> QED
      BY <1>1, <3>1, <3>2, LosingKeepsSpent
  <2> QED
    BY <1>3, <2>1, <2>2, <2>3 DEF HandleCall
<1>4. CASE RevokeCall
  <2>1. ASSUME NEW master \in tx.signers, NEW s \in tx.signers, GrantUnlimited(master, s, "Revoke")
        PROVE  SpentInv'
    BY <1>1, <2>1, UnlimitedKeepsSpent DEF GrantUnlimited, authorize_unlimited
  <2>2. ASSUME NEW s \in tx.signers, NEW x \in Storages, RevokeHandle(s, x)
        PROVE  SpentInv'
    <3>1. /\ storages' = destroy_permissions_storage_address(x)
          /\ UNCHANGED <<enabled, budget>>
          /\ \E signers, handles : Kept(signers, handles)
      BY <2>2 DEF RevokeHandle, revoke_permission_storage_address
    <3>2. \A t, k : stored(storages', t, k) \in {stored(storages, t, k), 0}
      BY <3>1, DestroyedAmounts
    <3> QED
      BY <1>1, <3>1, <3>2, LosingKeepsSpent
  <2>3. ASSUME NEW s \in tx.signers, RevokeAll(s)
        PROVE  SpentInv'
    <3>1. /\ storages' = [x \in DOMAIN storages \ active_handles[s.account] |-> storages[x]]
          /\ UNCHANGED <<enabled, budget>>
          /\ \E signers, handles : Kept(signers, handles)
      BY <2>3 DEF RevokeAll, revoke_all_handles
    <3>2. \A t, k : stored(storages', t, k) \in {stored(storages, t, k), 0}
      BY <3>1, AmountsOfStorages
    <3> QED
      BY <1>1, <3>1, <3>2, LosingKeepsSpent
  <2> QED
    BY <1>4, <2>1, <2>2, <2>3 DEF RevokeCall
<1>5. ASSUME NEW master \in tx.signers, NEW s \in tx.signers, NEW key \in Budgeted,
             NEW capacity \in Amounts, Grant(master, s, key, capacity)
      PROVE  SpentInv'
  BY <1>1, <1>5, IncreaseKeepsSpent DEF Grant, authorize_increase, can_authorize
<1>6. CASE GasCall
  <2>1. ASSUME NEW s \in tx.signers, revoke_gas_permission(s)
        PROVE  SpentInv'
    <3>1. /\ s.storage \in DOMAIN storages
          /\ storages' = write(storages, s.storage, remove(storages[s.storage], "Gas"))
          /\ UNCHANGED <<enabled, budget>>
          /\ \E signers, handles : Kept(signers, handles)
      BY <2>1 DEF revoke_gas_permission, revoke_permission, has_storage, permission_address, contains
    <3>2. /\ DOMAIN storages' = DOMAIN storages
          /\ storages'[s.storage] = remove(storages[s.storage], "Gas")
          /\ \A x \in DOMAIN storages : x # s.storage => storages'[x] = storages[x]
      BY <3>1 DEF write
    <3>3. \A t, k : stored(storages', t, k) \in {stored(storages, t, k), 0}
      BY <3>1, <3>2 DEF stored, contains, remove
    <3> QED
      BY <1>1, <3>1, <3>3, LosingKeepsSpent
  <2> QED
    BY <1>1, <1>5, <1>6, <2>1 DEF GasCall
<1>7. CASE AssetCall
  <2>1. ASSUME NEW s \in tx.signers, NEW amount \in Amounts, Refill(s, amount)
        PROVE  SpentInv'
    BY <1>1, <2>1, IncreaseKeepsSpent DEF Refill, increase_limit
  <2>2. ASSUME NEW s \in tx.signers, NEW amount \in Amounts, Withdraw(s, amount)
        PROVE  SpentInv'
    BY <1>1, <2>2, WithdrawKeepsSpent
  <2>3. ASSUME NEW master \in tx.signers, NEW s \in tx.signers,
               GrantUnlimited(master, s, "Transfer")
        PROVE  SpentInv'
    BY <1>1, <2>3, UnlimitedKeepsSpent DEF GrantUnlimited, authorize_unlimited
  <2>4. ASSUME NEW s \in tx.signers, grant_permission_with_transfer_ref(s)
        PROVE  SpentInv'
    BY <1>1, <2>4, UnlimitedKeepsSpent
       DEF grant_permission_with_transfer_ref, grant_unlimited_with_permissioned_signer
  <2> QED
    BY <1>1, <1>5, <1>7, <2>1, <2>2, <2>3, <2>4 DEF AssetCall
<1> QED
  BY <1>2, <1>3, <1>4, <1>6, <1>7 DEF Call

LEMMA StartKeepsSpent ==
  ASSUME Inv, SpentInv, NEW sender \in Signer, NEW others, NEW max_fee \in Nat,
         start(sender, others, max_fee), prologue(sender, max_fee),
         UNCHANGED <<enabled, storages, budget>>
  PROVE  SpentInv'
<1>1. /\ tx'.status = "running" /\ tx'.gas_payer = sender /\ tx'.max_fee = max_fee
      /\ tx'.saved.storages = storages /\ tx'.saved.budget = budget
  BY DEF start, Saved
<1>2. ASSUME is_permissioned_signer(sender)
      PROVE  sender.storage \in Storages /\ stored(storages, sender, "Gas") >= max_fee
  <2>1. sender.storage \in Storages
    BY <1>2, PermissionConstants DEF Signer, Storages, is_permissioned_signer,
                                     is_permissioned_signer_impl
  <2>2. is_above(stored(storages, sender, "Gas"), max_fee)
    BY <1>2 DEF prologue, check_permission_capacity_above, has_storage, permission_address, stored
  <2>3. stored(storages, sender, "Gas") \in 0 .. U256_MAX
    <3>1. stored(storages, sender, "Gas") = stored(storages, [storage |-> sender.storage], "Gas")
      BY StoredByStorage
    <3> QED
      BY <2>1, <3>1 DEF SpentInv, Covered, Budgeted
  <2> QED
    BY <2>1, <2>2, <2>3, PermissionConstants DEF is_above
<1>3. is_permissioned_signer(tx.gas_payer)' => is_permissioned_signer(sender)
  BY <1>1 DEF is_permissioned_signer, is_permissioned_signer_impl
<1>4. Covered(storages, budget)' /\ Covered(tx.saved.storages, tx.saved.budget)'
  BY <1>1 DEF SpentInv, Covered
<1>5. stored(storages, sender, "Gas") >= max_fee => Reserved(storages, budget)'
  BY <1>1 DEF Reserved
<1> QED
  BY <1>1, <1>2, <1>3, <1>4, <1>5 DEF SpentInv

LEMMA BeginKeepsSpent ==
  ASSUME Inv, SpentInv, Begin
  PROVE  SpentInv'
<1>1. ASSUME NEW account \in Accounts, NEW others, NEW max_fee \in MaxFees,
             BeginAsMaster(account, others, max_fee)
      PROVE  SpentInv'
  <2>1. Master(account) \in Signer /\ max_fee \in Nat
    BY PermissionConstants, DelegationConstants DEF Master, Signer
  <2>2. /\ start(Master(account), others, max_fee) /\ prologue(Master(account), max_fee)
        /\ UNCHANGED <<enabled, storages, budget>>
    BY <1>1 DEF BeginAsMaster, permissionVars
  <2> QED
    BY <2>1, <2>2, StartKeepsSpent
<1>2. ASSUME NEW account \in Accounts, NEW key \in DelegationKeys, NEW others,
             NEW max_fee \in MaxFees, authenticate(account, key, others, max_fee)
      PROVE  SpentInv'
  <2> DEFINE h == delegations[<<account, key>>].handle
  <2>1. /\ start(h, others, max_fee) /\ prologue(h, max_fee)
        /\ UNCHANGED <<enabled, storages, budget>>
        /\ <<account, key>> \in DOMAIN delegations
    BY <1>2 DEF authenticate, permissionVars, contains
  <2>2. h \in Signer /\ max_fee \in Nat
    BY <2>1, DelegationConstants DEF Inv, Registered, IsTable, AccountDelegationType
  <2> QED
    BY <2>1, <2>2, StartKeepsSpent
<1> QED
  BY <1>1, <1>2 DEF Begin

\* Whether the epilogue can consume the fee or not, what is left was granted.
LEMMA SettlingCovers ==
  ASSUME NEW all, NEW had, AmountsTyped(all), Covered(all, had),
         NEW fee \in Nat, NEW refund \in Nat,
         is_permissioned_signer(tx.gas_payer) =>
           /\ tx.gas_payer.storage \in Storages
           /\ tx.max_fee \in Nat /\ fee <= tx.max_fee
           /\ Reserved(all, had)
           /\ fee # refund => contains(all, tx.gas_payer.storage)
           /\ fee < refund => fits_capacity(stored(all, tx.gas_payer, "Gas"), refund - fee)
  PROVE  Covered(settled(all, fee, refund), charged(had, fee, refund))
<1> DEFINE payer == tx.gas_payer
           left == stored(all, payer, "Gas")
           after == charged(had, fee, refund)
<1>1. CASE ~is_permissioned_signer(payer)
  BY <1>1 DEF settled, charged
<1>2. CASE is_permissioned_signer(payer)
  <2>1. "Gas" \in Permissions /\ "Gas" \in Budgeted /\ payer.storage \in Storages
    BY <1>2 DEF Permissions, Budgeted
  <2>2. /\ after \in [Storages -> [Budgeted -> Int]]
        /\ \A x \in Storages, key \in Budgeted :
             after[x][key] = IF x = payer.storage /\ key = "Gas"
                            THEN had[x][key] - (fee - refund) ELSE had[x][key]
    <3>1. after = [had EXCEPT ![payer.storage]["Gas"] = had[payer.storage]["Gas"] - (fee - refund)]
      BY <1>2 DEF charged, spent
    <3>2. had \in [Storages -> [Budgeted -> Int]] /\ fee - refund \in Int
      BY DEF Covered
    <3> HIDE DEF after
    <3> QED
      BY <2>1, <3>1, <3>2
  <2>3. \A x \in Storages, key \in Budgeted :
          /\ stored(all, [storage |-> x], key) \in 0 .. U256_MAX
          /\ stored(all, [storage |-> x], key) <= had[x][key]
          /\ had[x][key] \in Int
    BY DEF Covered
  <2>4. left = stored(all, [storage |-> payer.storage], "Gas")
    BY StoredByStorage
  <2>5. /\ left \in 0 .. U256_MAX /\ left <= had[payer.storage]["Gas"]
        /\ had[payer.storage]["Gas"] \in Int /\ left # Unlimited
    BY <2>1, <2>3, <2>4, PermissionConstants
  <2> DEFINE amount == IF fee < refund THEN left + (refund - fee)
                       ELSE IF left >= fee - refund THEN left - (fee - refund) ELSE left
  <2>6. \A t : stored(settled(all, fee, refund), t, "Gas") =
                 IF t.storage = payer.storage THEN amount ELSE stored(all, t, "Gas")
    <3>1. CASE fee = refund
      BY <2>5, <3>1 DEF settled, stored
    <3>2. CASE fee < refund
      <4>1. settled(all, fee, refund) = increased(all, payer, refund - fee, "Gas")
            /\ refund - fee \in Nat
        BY <1>2, <3>2 DEF settled
      <4>2. increase_capacity(left, refund - fee) = left + (refund - fee)
        BY <2>5 DEF increase_capacity
      <4> QED
        BY <1>2, <2>1, <3>2, <4>1, <4>2, IncreasedIsTyped
    <3>3. CASE refund < fee
      <4>1. contains(all, payer.storage) /\ fee - refund \in Nat \ {0}
        BY <1>2, <3>3
      <4>2. CASE contains(all[payer.storage], "Gas")
                 /\ is_above(all[payer.storage]["Gas"], fee - refund)
        <5>1. settled(all, fee, refund) = consumed(all, payer, fee - refund, "Gas")
          BY <1>2, <3>3, <4>2 DEF settled
        <5>2. is_above(left, fee - refund)
          BY <4>1, <4>2 DEF stored
        <5>3. consume_capacity(left, fee - refund) = amount
          BY <2>5, <3>3, <5>2 DEF consume_capacity, is_above
        <5> QED
          BY <2>1, <4>1, <5>1, <5>2, <5>3, ConsumedIsTyped
      <4>3. CASE ~(contains(all[payer.storage], "Gas")
                   /\ is_above(all[payer.storage]["Gas"], fee - refund))
        <5>1. settled(all, fee, refund) = all
          BY <1>2, <3>3, <4>3 DEF settled
        <5>2. ~(left >= fee - refund)
          BY <2>5, <4>1, <4>3 DEF stored, is_above
        <5>3. amount = left
          BY <2>5, <3>3, <5>2
        <5> HIDE DEF amount
        <5> QED
          BY <5>1, <5>3 DEF stored
      <4> QED
        BY <4>2, <4>3
    <3> QED
      BY <3>1, <3>2, <3>3
  <2>7. \A t : stored(settled(all, fee, refund), t, "Withdraw") = stored(all, t, "Withdraw")
    <3>1. CASE fee = refund
      BY <3>1 DEF settled
    <3>2. CASE fee < refund
      <4>1. settled(all, fee, refund) = increased(all, payer, refund - fee, "Gas")
            /\ refund - fee \in Nat
        BY <1>2, <3>2 DEF settled
      <4> QED
        BY <1>2, <2>1, <3>2, <4>1, IncreasedIsTyped
    <3>3. CASE refund < fee
      <4>1. contains(all, payer.storage) /\ fee - refund \in Nat
        BY <1>2, <3>3
      <4>2. CASE contains(all[payer.storage], "Gas")
                 /\ is_above(all[payer.storage]["Gas"], fee - refund)
        <5>1. settled(all, fee, refund) = consumed(all, payer, fee - refund, "Gas")
          BY <1>2, <3>3, <4>2 DEF settled
        <5>2. is_above(left, fee - refund)
          BY <4>1, <4>2 DEF stored
        <5> QED
          BY <2>1, <4>1, <5>1, <5>2, ConsumedIsTyped
      <4>3. CASE ~(contains(all[payer.storage], "Gas")
                   /\ is_above(all[payer.storage]["Gas"], fee - refund))
        BY <1>2, <3>3, <4>3 DEF settled
      <4> QED
        BY <4>2, <4>3
    <3> QED
      BY <3>1, <3>2, <3>3
  <2>8. left >= tx.max_fee \/ had[payer.storage]["Gas"] - left >= tx.max_fee
    BY <1>2 DEF Reserved
  <2>9. amount \in 0 .. U256_MAX /\ amount <= had[payer.storage]["Gas"] - (fee - refund)
    <3>1. fee <= tx.max_fee /\ tx.max_fee \in Nat
      BY <1>2
    <3>2. fee < refund => left + (refund - fee) <= U256_MAX
      BY <1>2, <2>5 DEF fits_capacity
    <3> HIDE DEF left
    <3> QED
      BY <2>5, <2>8, <3>1, <3>2, PermissionConstants
  <2> HIDE DEF after, amount
  <2>10. ASSUME NEW x \in Storages, NEW key \in Budgeted
         PROVE  /\ stored(settled(all, fee, refund), [storage |-> x], key) \in 0 .. U256_MAX
                /\ stored(settled(all, fee, refund), [storage |-> x], key) <= after[x][key]
    <3> DEFINE t == [storage |-> x]
    <3>1. t.storage = x
      OBVIOUS
    <3> HIDE DEF t
    <3>2. CASE key = "Gas" /\ x = payer.storage
      BY <2>2, <2>6, <2>9, <3>1, <3>2 DEF t
    <3>3. CASE key = "Gas" /\ x # payer.storage
      BY <2>2, <2>3, <2>6, <3>1, <3>3 DEF t
    <3>4. CASE key = "Withdraw"
      BY <2>2, <2>3, <2>7, <3>4 DEF t
    <3> QED
      BY <3>2, <3>3, <3>4 DEF Budgeted
  <2> QED
    BY <2>2, <2>10 DEF Covered, after
<1> QED
  BY <1>1, <1>2

LEMMA CommitKeepsSpent ==
  ASSUME Inv, SpentInv, Commit
  PROVE  SpentInv'
<1>1. TxInv /\ running /\ ~running' /\ AmountsTyped(storages)
  BY DEF Inv, Commit, running
<1>2. PICK fee \in 0 .. tx.max_fee, refund \in Refunds :
        /\ settles(storages, fee, refund) /\ storages' = settled(storages, fee, refund)
        /\ budget' = charged(budget, fee, refund)
  BY DEF Commit
<1>3. fee \in Nat /\ refund \in Nat /\ tx.max_fee \in Nat /\ fee <= tx.max_fee
  BY <1>1, DelegationConstants DEF TxInv
<1>4. is_permissioned_signer(tx.gas_payer) =>
        /\ tx.gas_payer.storage \in Storages /\ Reserved(storages, budget)
        /\ fee # refund => contains(storages, tx.gas_payer.storage)
        /\ fee < refund => fits_capacity(stored(storages, tx.gas_payer, "Gas"), refund - fee)
  BY <1>1, <1>2, <1>3 DEF SpentInv, settles, has_storage, permission_address
<1>5. Covered(storages', budget')
  BY <1>1, <1>2, <1>3, <1>4, SettlingCovers DEF SpentInv
<1> QED
  BY <1>1, <1>5 DEF SpentInv

LEMMA FailKeepsSpent ==
  ASSUME Inv, SpentInv, Fail
  PROVE  SpentInv'
<1>1. TxInv /\ running /\ ~running'
  BY DEF Inv, Fail, running
<1>2. PICK fee \in 0 .. tx.max_fee :
        /\ storages' = settled(tx.saved.storages, fee, 0)
        /\ budget' = charged(tx.saved.budget, fee, 0)
  BY DEF Fail
<1>3. fee \in Nat /\ 0 \in Nat /\ tx.max_fee \in Nat /\ fee <= tx.max_fee /\ ~(fee < 0)
  BY <1>1 DEF TxInv
<1>4. is_permissioned_signer(tx.gas_payer) =>
        /\ tx.gas_payer.storage \in Storages /\ Reserved(tx.saved.storages, tx.saved.budget)
        /\ contains(tx.saved.storages, tx.gas_payer.storage)
  BY <1>1 DEF SpentInv, TxInv, Reserved, contains
<1>5. AmountsTyped(tx.saved.storages) /\ Covered(tx.saved.storages, tx.saved.budget)
  BY <1>1 DEF SpentInv, TxInv
<1>6. Covered(storages', budget')
  BY <1>2, <1>3, <1>4, <1>5, SettlingCovers
<1> QED
  BY <1>1, <1>6 DEF SpentInv

(* What is spent through a handle is within what was granted to it, for any *)
(* number of handles and any amounts: a transaction can use a handle to     *)
(* withdraw, revoke the permission to pay for itself, or fail, and still    *)
(* pays its fee from what was granted.                                      *)
THEOREM SpendingIsGranted == DelegationSpec => []SpentWithinGrants
<1>1. DelegationInit => SpentInv
  BY PermissionConstants DEF DelegationInit, PermissionInit, SpentInv, Covered, Budgeted, running,
                             stored, new, contains
<1>2. Inv /\ SpentInv /\ [DelegationNext]_delegationVars => SpentInv'
  <2> SUFFICES ASSUME Inv, SpentInv, [DelegationNext]_delegationVars
               PROVE  SpentInv'
    OBVIOUS
  <2>1. CASE BlockPrologue \/ NextEpoch
    <3>1. ~running' /\ UNCHANGED <<storages, budget>>
      BY <2>1 DEF BlockPrologue, NextEpoch, on_new_epoch, permissionVars, running
    <3> QED
      BY <3>1 DEF SpentInv
  <2>2. CASE UNCHANGED delegationVars
    BY <2>2 DEF delegationVars, permissionVars, SpentInv, running, Reserved, is_permissioned_signer
  <2> QED
    BY <2>1, <2>2, CallKeepsSpent, BeginKeepsSpent, CommitKeepsSpent, FailKeepsSpent
       DEF DelegationNext
<1>3. SpentInv => SpentWithinGrants
  BY DEF SpentInv, Covered, SpentWithinGrants
<1> QED
  BY <1>1, <1>2, <1>3, DelegationInvariant, PTL DEF DelegationSpec

-----------------------------------------------------------------------------
(* Rate limits.                                                             *)

LEMMA Products == ASSUME NEW a \in Int, NEW b \in Int PROVE a * b \in Int
  OBVIOUS

LEMMA Distributes ==
  ASSUME NEW a \in Int, NEW b \in Int, NEW c \in Int
  PROVE  (a + b) * c = a * c + b * c /\ c * (a + b) = c * a + c * b
  OBVIOUS

LEMMA ProductsGrow ==
  ASSUME NEW a \in Int, NEW b \in Int, NEW c \in Nat, a <= b
  PROVE  a * c <= b * c
  OBVIOUS

LEMMA DivideWithRest ==
  ASSUME NEW a \in Nat, NEW b \in Nat \ {0}
  PROVE  a = (a \div b) * b + (a % b) /\ a % b \in 0 .. b - 1 /\ a \div b \in Nat
  OBVIOUS

\* A bucket is full when its tokens and their rest come to the capacity.
LEMMA FullByContent ==
  ASSUME NEW sum \in Nat, NEW capacity \in Nat, NEW interval \in Nat \ {0},
         NEW rest \in 0 .. interval - 1
  PROVE  sum >= capacity <=> sum * interval + rest >= capacity * interval
<1>1. ASSUME sum >= capacity
      PROVE  sum * interval >= capacity * interval
  BY <1>1, ProductsGrow
<1>2. ASSUME sum < capacity
      PROVE  sum * interval + interval <= capacity * interval
  <2>1. (sum + 1) * interval <= capacity * interval
    BY <1>2, ProductsGrow
  <2>2. (sum + 1) * interval = sum * interval + 1 * interval
    BY Distributes
  <2> QED
    BY <2>1, <2>2
<1>3. sum * interval \in Int /\ capacity * interval \in Int
  BY Products
<1> QED
  BY <1>1, <1>2, <1>3

\* What a bucket is refilled to, exactly.
LEMMA RefillIsExact ==
  ASSUME NEW l \in LimiterType, now_seconds \in Seconds,
         l.last_refill_timestamp <= now_seconds, l.refill_interval # 0,
         l.fractional_accumulated < l.refill_interval
  PROVE  /\ content(l) \in Int /\ l.capacity * l.refill_interval \in Int
         /\ (now_seconds - l.last_refill_timestamp) * l.capacity \in Nat
         /\ refill(l).fractional_accumulated \in 0 .. l.refill_interval - 1
         /\ refill(l).last_refill_timestamp = now_seconds
         /\ refill(l).capacity = l.capacity /\ refill(l).refill_interval = l.refill_interval
         /\ LET flown == content(l) + (now_seconds - l.last_refill_timestamp) * l.capacity
                full == l.capacity * l.refill_interval
            IN  content(refill(l)) = IF flown >= full THEN full ELSE flown
<1> DEFINE elapsed == now_seconds - l.last_refill_timestamp
           interval == l.refill_interval
           capacity == l.capacity
           amount == l.current_amount
           fraction == l.fractional_accumulated
           acc == accumulated_amount(l)
           sum == amount + new_tokens(l)
           rest == acc % interval
<1>1. /\ interval \in Nat \ {0} /\ capacity \in Nat /\ amount \in Nat /\ fraction \in 0 .. interval - 1
      /\ elapsed \in Nat
  <2>1. /\ l.refill_interval \in Nat /\ l.capacity \in Nat /\ l.current_amount \in Nat
        /\ l.fractional_accumulated \in Nat /\ l.last_refill_timestamp \in Nat /\ now_seconds \in Nat
    BY SecondsAreNaturals DEF LimiterType
  <2> QED
    BY <2>1
<1>2. acc = elapsed * capacity + fraction /\ elapsed * capacity \in Nat /\ acc \in Nat
  <2>1. elapsed * capacity \in Nat
    BY <1>1
  <2> QED
    BY <1>1, <2>1 DEF accumulated_amount
<1> HIDE DEF acc
<1>3. acc = new_tokens(l) * interval + rest /\ rest \in 0 .. interval - 1 /\ new_tokens(l) \in Nat
  BY <1>1, <1>2, DivideWithRest DEF new_tokens, acc
<1>4. /\ refill(l).fractional_accumulated = IF sum >= capacity THEN 0 ELSE rest
      /\ refill(l).current_amount = IF sum >= capacity THEN capacity ELSE sum
      /\ refill(l).last_refill_timestamp = now_seconds
      /\ refill(l).capacity = capacity /\ refill(l).refill_interval = interval
  BY DEF refill, LimiterType, acc
<1> DEFINE flown == content(l) + elapsed * capacity
           full == capacity * interval
<1>5. sum \in Nat /\ amount * interval \in Int /\ new_tokens(l) * interval \in Int /\ full \in Int
      /\ sum * interval \in Int
  BY <1>1, <1>3, Products
<1>6. content(l) = amount * interval + fraction /\ content(l) \in Int
  BY <1>1, <1>5 DEF content
<1>7. sum * interval = amount * interval + new_tokens(l) * interval
  BY <1>1, <1>3, Distributes
<1> DEFINE held == amount * interval
           gained == new_tokens(l) * interval
           inflow == elapsed * capacity
           together == sum * interval
<1>8. flown = together + rest
  <2>1. held \in Int /\ gained \in Int /\ inflow \in Int /\ together = held + gained
        /\ acc = gained + rest /\ acc = inflow + fraction /\ content(l) = held + fraction
        /\ flown = content(l) + inflow /\ rest \in Int /\ fraction \in Int
    BY <1>1, <1>2, <1>3, <1>5, <1>6, <1>7
  <2> HIDE DEF held, gained, inflow, together, flown, rest, fraction
  <2> QED
    BY <2>1
<1>10. content(refill(l)) = IF sum >= capacity THEN full + 0 ELSE together + rest
  BY <1>4 DEF content
<1> HIDE DEF sum, rest, flown
<1>9. sum >= capacity <=> flown >= full
  <2>1. sum >= capacity <=> together + rest >= full
    BY <1>1, <1>3, <1>5, FullByContent
  <2> QED
    BY <1>8, <2>1
<1> HIDE DEF elapsed, interval, capacity, amount, fraction, full, together
<1>11. refill(l).fractional_accumulated \in 0 .. interval - 1
  BY <1>1, <1>3, <1>4
<1>12. content(refill(l)) = IF flown >= full THEN full ELSE flown
  BY <1>5, <1>8, <1>9, <1>10
<1> QED
  BY <1>2, <1>4, <1>5, <1>6, <1>11, <1>12 DEF elapsed, interval, capacity, flown, full

\* The requests since the seconds, with one more now, and no more later.
More(counts, late) ==
  \A second \in Seconds :
    late[second] = IF second > now_seconds THEN counts[second] ELSE counts[second] + 1

\* A limiter and the requests that it has granted: none is later than its last
\* one, and the bucket is what the windows say.
Windowed(l, counts) ==
  /\ counts \in [Seconds -> Nat]
  /\ l # NoLimiter => \A since \in Seconds : since > l.last_refill_timestamp => counts[since] = 0
  /\ l # NoLimiter /\ l.refill_interval # 0 =>
       /\ l.fractional_accumulated < l.refill_interval
       /\ \E since \in window(l.last_refill_timestamp) : content(l) = level(l, counts, since)
       /\ \A since \in window(l.last_refill_timestamp) : content(l) <= level(l, counts, since)

\* A granted request takes a token from the bucket.
LEMMA RequestContent ==
  ASSUME NEW l \in LimiterType, now_seconds \in Seconds,
         l.last_refill_timestamp <= now_seconds, request_granted(l, 1),
         l.fractional_accumulated < l.refill_interval,
         NEW r, r = request(l, 1)
  PROVE  /\ r.last_refill_timestamp = now_seconds
         /\ r.capacity = l.capacity /\ r.refill_interval = l.refill_interval
         /\ r.fractional_accumulated < r.refill_interval
         /\ content(r) = content(refill(l)) - l.refill_interval
<1>1. l.refill_interval # 0 /\ refill(l).current_amount >= 1
  BY DEF request_granted, refill_returns
<1>2. /\ refill(l).last_refill_timestamp = now_seconds
      /\ refill(l).capacity = l.capacity /\ refill(l).refill_interval = l.refill_interval
      /\ refill(l).fractional_accumulated \in 0 .. l.refill_interval - 1
  BY <1>1, RefillIsExact
<1>3. /\ DOMAIN refill(l) = DOMAIN l
      /\ DOMAIN l = {"capacity", "current_amount", "refill_interval", "last_refill_timestamp",
                     "fractional_accumulated"}
  BY DEF refill, LimiterType
<1>4. /\ r.last_refill_timestamp = refill(l).last_refill_timestamp
      /\ r.capacity = refill(l).capacity /\ r.refill_interval = refill(l).refill_interval
      /\ r.fractional_accumulated = refill(l).fractional_accumulated
      /\ r.current_amount = refill(l).current_amount - 1
  BY <1>3 DEF request
<1>5. r \in LimiterType /\ l.refill_interval \in Nat
  BY RequestIsTyped DEF LimiterType
<1>6. r.current_amount \in Nat
  BY <1>5 DEF LimiterType
<1>7. refill(l).current_amount \in Int
  <2>1. refill(l).current_amount =
          IF l.current_amount + new_tokens(l) >= l.capacity THEN l.capacity
          ELSE l.current_amount + new_tokens(l)
    BY <1>3 DEF refill
  <2>2. accumulated_amount(l) \in Int
    <3>1. (now_seconds - l.last_refill_timestamp) * l.capacity \in Nat
      BY <1>1, RefillIsExact
    <3> QED
      BY <3>1 DEF accumulated_amount, LimiterType
  <2>3. new_tokens(l) \in Int
    BY <1>1, <1>5, <2>2 DEF new_tokens
  <2> QED
    BY <2>1, <2>3 DEF LimiterType
<1>8. (refill(l).current_amount + (-1)) * l.refill_interval =
        refill(l).current_amount * l.refill_interval + (-1) * l.refill_interval
  BY <1>5, <1>7, Distributes
<1>9. refill(l).current_amount * l.refill_interval \in Int
  BY <1>5, <1>7, Products
<1> QED
  BY <1>2, <1>4, <1>5, <1>6, <1>7, <1>8, <1>9 DEF content

\* What a window says now and what it said at the request before
LEMMA WindowsMove ==
  ASSUME NEW l \in LimiterType, now_seconds \in Seconds,
         l.last_refill_timestamp <= now_seconds,
         NEW r, r.last_refill_timestamp = now_seconds,
         r.capacity = l.capacity, r.refill_interval = l.refill_interval,
         NEW counts \in [Seconds -> Nat], NEW late, More(counts, late),
         NEW since \in Seconds, since <= now_seconds
  PROVE  /\ level(l, counts, since) \in Int
         /\ level(r, late, since) =
              level(l, counts, since) + (now_seconds - l.last_refill_timestamp) * l.capacity
                - l.refill_interval
         /\ level(r, late, since) =
              l.capacity * l.refill_interval + (now_seconds - since) * l.capacity
                - l.refill_interval * counts[since] - l.refill_interval
<1>1. /\ l.capacity \in Nat /\ l.refill_interval \in Nat /\ l.last_refill_timestamp \in Nat
      /\ now_seconds \in Nat /\ since \in Nat /\ counts[since] \in Nat
  BY SecondsAreNaturals DEF LimiterType
<1>2. late[since] = counts[since] + 1
  BY <1>1 DEF More
<1> DEFINE last == l.last_refill_timestamp
           full == l.capacity * l.refill_interval
           before == (last - since) * l.capacity
           elapsed == (now_seconds - last) * l.capacity
           both == (now_seconds - since) * l.capacity
           taken == l.refill_interval * counts[since]
           takes == l.refill_interval * (counts[since] + 1)
<1>3. full \in Int /\ before \in Int /\ elapsed \in Int /\ both \in Int /\ taken \in Int
  <2>1. last - since \in Int /\ now_seconds - last \in Int /\ now_seconds - since \in Int
    BY <1>1
  <2> QED
    BY <1>1, <2>1, Products
<1>4. both = before + elapsed
  <2>1. now_seconds - since = (last - since) + (now_seconds - last)
    BY <1>1
  <2>2. last - since \in Int /\ now_seconds - last \in Int /\ l.capacity \in Int
    BY <1>1
  <2>3. ((last - since) + (now_seconds - last)) * l.capacity = before + elapsed
    BY <2>2, Distributes
  <2> QED
    BY <2>1, <2>3
<1>5. takes = taken + l.refill_interval
  <2>1. l.refill_interval * (counts[since] + 1) =
          l.refill_interval * counts[since] + l.refill_interval * 1
    BY <1>1, Distributes
  <2> QED
    BY <1>1, <2>1
<1>6. level(l, counts, since) = full + before - taken
  BY DEF level
<1>7. level(r, late, since) = full + both - takes
  BY <1>2 DEF level
<1> HIDE DEF full, before, elapsed, both, taken, takes
<1>8. /\ level(l, counts, since) \in Int
      /\ level(r, late, since) = level(l, counts, since) + elapsed - l.refill_interval
      /\ level(r, late, since) = full + both - taken - l.refill_interval
  BY <1>1, <1>3, <1>4, <1>5, <1>6, <1>7
<1> QED
  BY <1>8 DEF full, elapsed, both, taken

\* The bucket stays what the windows say when a request is granted.
LEMMA RequestKeepsWindows ==
  ASSUME NEW l \in LimiterType, now_seconds \in Seconds,
         l.last_refill_timestamp <= now_seconds, request_granted(l, 1),
         NEW counts, l # NoLimiter, Windowed(l, counts),
         NEW late \in [Seconds -> Nat], More(counts, late),
         NEW r, r = request(l, 1)
  PROVE  Windowed(r, late)
<1> DEFINE last == l.last_refill_timestamp
           interval == l.refill_interval
           full == l.capacity * interval
           elapsed == (now_seconds - last) * l.capacity
           flown == content(l) + elapsed
<1>1. /\ interval # 0 /\ interval \in Nat /\ l.capacity \in Nat /\ last \in Seconds /\ last \in Nat
      /\ now_seconds \in Nat /\ Seconds \subseteq Nat
  BY SecondsAreNaturals DEF request_granted, refill_returns, LimiterType
<1>2. /\ counts \in [Seconds -> Nat]
      /\ \A since \in Seconds : since > last => counts[since] = 0
      /\ l.fractional_accumulated < interval
      /\ \E since \in window(last) : content(l) = level(l, counts, since)
      /\ \A since \in window(last) : content(l) <= level(l, counts, since)
  BY <1>1 DEF Windowed
<1>3. /\ r.last_refill_timestamp = now_seconds
      /\ r.capacity = l.capacity /\ r.refill_interval = interval
      /\ r.fractional_accumulated < r.refill_interval
      /\ content(r) = content(refill(l)) - interval
  BY <1>2, RequestContent
<1>4. /\ content(l) \in Int /\ full \in Int /\ elapsed \in Nat
      /\ content(refill(l)) = IF flown >= full THEN full ELSE flown
  BY <1>1, <1>2, RefillIsExact
<1>5. \A since \in Seconds : since <= now_seconds =>
        /\ level(l, counts, since) \in Int
        /\ level(r, late, since) = level(l, counts, since) + elapsed - interval
        /\ level(r, late, since) =
             full + (now_seconds - since) * l.capacity - interval * counts[since] - interval
  BY <1>2, <1>3, WindowsMove
<1>6. window(now_seconds) = {since \in Seconds : since <= now_seconds}
      /\ window(last) = {since \in Seconds : since <= last}
  BY DEF window
<1>7. ASSUME NEW since \in Seconds, since > now_seconds
      PROVE  late[since] = 0
  <2>1. late[since] = counts[since]
    BY <1>7 DEF More
  <2>2. since > last
    BY <1>1, <1>7
  <2> QED
    BY <1>2, <2>1, <2>2
<1> HIDE DEF full, elapsed
<1>8. ASSUME NEW since \in window(now_seconds)
      PROVE  content(r) <= level(r, late, since)
  <2>1. since \in Seconds /\ since <= now_seconds /\ since \in Nat
    BY <1>1, <1>6
  <2>2. CASE since <= last
    <3>1. content(l) <= level(l, counts, since)
      BY <1>2, <1>6, <2>1, <2>2
    <3>2. level(r, late, since) = level(l, counts, since) + elapsed - interval
          /\ level(l, counts, since) \in Int
      BY <1>5, <2>1
    <3> QED
      BY <1>1, <1>3, <1>4, <3>1, <3>2
  <2>3. CASE since > last
    <3>1. counts[since] = 0
      BY <1>2, <2>1, <2>3
    <3>2. (now_seconds - since) * l.capacity \in Nat
      <4>1. now_seconds - since \in Nat
        BY <1>1, <2>1
      <4> QED
        BY <1>1, <4>1
    <3>3. interval * 0 = 0
      BY <1>1
    <3>4. level(r, late, since) = full + (now_seconds - since) * l.capacity - 0 - interval
      BY <1>5, <2>1, <3>1, <3>3
    <3>5. content(refill(l)) <= full
      BY <1>4
    <3>6. content(refill(l)) \in Int
      BY <1>4
    <3> QED
      BY <1>1, <1>3, <1>4, <3>2, <3>4, <3>5, <3>6
  <2> QED
    BY <1>1, <2>1, <2>2, <2>3
<1>9. \E since \in window(now_seconds) : content(r) = level(r, late, since)
  <2>1. CASE flown <= full
    <3>1. PICK first \in window(last) : content(l) = level(l, counts, first)
      BY <1>2
    <3>2. first \in Seconds /\ first \in Nat /\ first <= last /\ first <= now_seconds
      <4>1. first \in Seconds /\ first <= last
        BY <1>6
      <4> QED
        BY <1>1, <4>1
    <3>3. level(r, late, first) = content(l) + elapsed - interval
      BY <1>5, <3>1, <3>2
    <3>4. content(refill(l)) = flown
      BY <1>4, <2>1
    <3>5. content(r) = level(r, late, first)
      <4>1. content(r) = content(refill(l)) - interval
        BY <1>3
      <4> QED
        <5>1. content(refill(l)) = content(l) + elapsed
          BY <3>4
        <5> QED
          BY <1>1, <1>4, <3>3, <4>1, <5>1
    <3>6. first \in window(now_seconds)
      BY <1>6, <3>2
    <3> QED
      BY <3>5, <3>6
  <2>2. CASE flown > full
    <3>1. now_seconds # last
      <4>1. SUFFICES ASSUME now_seconds = last PROVE FALSE
        OBVIOUS
      <4>2. elapsed = 0
        <5>1. now_seconds - last = 0
          BY <1>1, <4>1
        <5> QED
          BY <1>1, <5>1 DEF elapsed
      <4>3. content(l) <= level(l, counts, last)
        BY <1>1, <1>2, <1>6
      <4>4. level(r, late, last) = level(l, counts, last) + elapsed - interval
            /\ level(l, counts, last) \in Int
            /\ level(r, late, last) =
                 full + (now_seconds - last) * l.capacity - interval * counts[last] - interval
        BY <1>1, <1>5
      <4>5. (now_seconds - last) * l.capacity = 0
        BY <4>2 DEF elapsed
      <4>6. interval * counts[last] \in Nat
        BY <1>1, <1>2
      <4>7. level(l, counts, last) <= full
        BY <1>1, <1>4, <4>2, <4>4, <4>5, <4>6
      <4> QED
        BY <1>4, <2>2, <4>2, <4>3, <4>4, <4>7
    <3>2. now_seconds > last /\ counts[now_seconds] = 0
      BY <1>1, <1>2, <3>1
    <3>3. interval * 0 = 0 /\ 0 * l.capacity = 0 /\ now_seconds - now_seconds = 0
      BY <1>1
    <3>4. level(r, late, now_seconds) = full + 0 - 0 - interval
      BY <1>1, <1>5, <3>2, <3>3
    <3>5. content(refill(l)) = full
      BY <1>4, <2>2
    <3>6. now_seconds \in window(now_seconds)
      BY <1>1, <1>6
    <3> QED
      BY <1>1, <1>3, <1>4, <3>4, <3>5, <3>6
  <2> QED
    BY <1>4, <2>1, <2>2
<1> QED
  BY <1>1, <1>3, <1>7, <1>8, <1>9 DEF Windowed

\* A new limiter is a full bucket.
LEMMA NewLimiterIsFull ==
  ASSUME now_seconds \in Seconds, NEW capacity \in Nat, NEW interval \in Nat,
         NEW l, l = initialize(capacity, interval),
         NEW none, none = [second \in Seconds |-> 0]
  PROVE  Windowed(l, none)
<1>1. /\ l.capacity = capacity /\ l.current_amount = capacity /\ l.refill_interval = interval
      /\ l.last_refill_timestamp = now_seconds /\ l.fractional_accumulated = 0
  BY DEF initialize
<1>2. now_seconds \in Nat /\ Seconds \subseteq Nat /\ none \in [Seconds -> Nat]
  BY SecondsAreNaturals
<1>3. capacity * interval \in Int /\ interval * 0 = 0 /\ 0 * capacity = 0
      /\ now_seconds - now_seconds = 0
  BY <1>2, Products
<1>4. content(l) = capacity * interval
  BY <1>1, <1>3 DEF content
<1>5. window(now_seconds) = {since \in Seconds : since <= now_seconds}
  BY DEF window
<1>6. ASSUME NEW since \in Seconds, since <= now_seconds
      PROVE  /\ level(l, none, since) = capacity * interval + (now_seconds - since) * capacity - 0
             /\ (now_seconds - since) * capacity \in Nat
  <2>1. now_seconds - since \in Nat
    BY <1>2, <1>6
  <2> QED
    BY <1>1, <1>3, <2>1 DEF level
<1>7. level(l, none, now_seconds) = capacity * interval + 0 - 0
  <2>1. now_seconds <= now_seconds
    BY <1>2
  <2> QED
    BY <1>3, <1>6, <2>1
<1>8. content(l) = level(l, none, now_seconds) /\ now_seconds \in window(now_seconds)
  BY <1>2, <1>3, <1>4, <1>5, <1>7
<1>9. \A since \in window(now_seconds) : content(l) <= level(l, none, since)
  <2> TAKE since \in window(now_seconds)
  <2>1. since \in Seconds /\ since <= now_seconds
    BY <1>5
  <2> DEFINE full == capacity * interval
             inflow == (now_seconds - since) * capacity
  <2>2. full \in Int /\ inflow \in Nat /\ content(l) = full /\ level(l, none, since) = full + inflow - 0
    BY <1>3, <1>4, <1>6, <2>1
  <2> HIDE DEF full, inflow
  <2> QED
    BY <2>2
<1>10. l.refill_interval # 0 => l.fractional_accumulated < l.refill_interval
  BY <1>1
<1> QED
  BY <1>1, <1>2, <1>8, <1>9, <1>10 DEF Windowed

-----------------------------------------------------------------------------
(* The limiters of all keys.                                                *)
WindowInv(registered, counts) ==
  /\ IsTable(counts, Accounts \X DelegationKeys, [Seconds -> Nat])
  /\ DOMAIN counts = DOMAIN registered
  /\ \A d \in DOMAIN registered : Windowed(registered[d].rate_limiter, counts[d])

\* Now, and in what a failed transaction comes back to
AllWindows ==
  /\ WindowInv(delegations, accepted)
  /\ running => WindowInv(tx.saved.delegations, tx.saved.accepted)

\* A call that leaves the limiters as they should be
LEMMA CallKeepsWindows ==
  ASSUME Inv, AllWindows, running, NEW signers, NEW handles, Kept(signers, handles),
         WindowInv(delegations', accepted')
  PROVE  AllWindows'
<1>1. TxInv
  BY DEF Inv
<1>2. tx'.saved = tx.saved
  BY <1>1 DEF Kept, TxInv
<1> QED
  BY <1>2 DEF AllWindows

LEMMA AddKeyKeepsWindows ==
  ASSUME Inv, AllWindows, running, NEW master \in tx.signers, NEW key \in DelegationKeys,
         NEW expiration_time \in Expirations, NEW limiter \in Limiters,
         add_permissioned_handle(master, key, limiter, expiration_time)
  PROVE  AllWindows'
<1> DEFINE d == <<master.account, key>>
           h == signer_from_permissioned_handle_impl(master.account, generate_auid_address)
           l == IF limiter = NoLimiter THEN NoLimiter
                ELSE initialize(limiter.capacity, limiter.refill_interval)
           v == [handle |-> h, expiration_time |-> expiration_time, rate_limiter |-> l]
           none == [second \in Seconds |-> 0]
<1>1. /\ Kept({h}, tx.handles)
      /\ d \notin DOMAIN delegations
      /\ delegations' = add(delegations, d, v)
      /\ accepted' = add(accepted, d, none)
  BY DEF add_permissioned_handle, contains
<1>2. d \in Accounts \X DelegationKeys /\ now_seconds \in Seconds
  BY SecondsAreNaturals DEF Inv, TxInv, Signer, now_seconds
<1>3. none \in [Seconds -> Nat]
  OBVIOUS
<1>4. l # NoLimiter => Windowed(l, none)
  <2> SUFFICES ASSUME l # NoLimiter PROVE Windowed(l, none)
    OBVIOUS
  <2>1. limiter # NoLimiter /\ l = initialize(limiter.capacity, limiter.refill_interval)
    OBVIOUS
  <2>2. limiter.capacity \in Nat /\ limiter.refill_interval \in Nat
    BY <2>1, DelegationConstants
  <2> HIDE DEF l, none
  <2> QED
    BY <1>2, <2>1, <2>2, NewLimiterIsFull DEF none
<1>5. l = NoLimiter => Windowed(l, none)
  BY <1>3 DEF Windowed
<1>6. v.rate_limiter = l
  OBVIOUS
<1> HIDE DEF d, v, l, none
<1>7. /\ DOMAIN delegations' = DOMAIN delegations \cup {d} /\ delegations'[d] = v
      /\ \A e \in DOMAIN delegations : delegations'[e] = delegations[e]
  BY <1>1 DEF add
<1>8. /\ DOMAIN accepted' = DOMAIN accepted \cup {d} /\ accepted'[d] = none
      /\ \A e \in DOMAIN accepted : accepted'[e] = accepted[e]
      /\ IsTable(accepted', Accounts \X DelegationKeys, [Seconds -> Nat])
  <2>1. IsTable(accepted, Accounts \X DelegationKeys, [Seconds -> Nat]) /\ d \notin DOMAIN accepted
    BY <1>1 DEF AllWindows, WindowInv
  <2> QED
    BY <1>1, <1>2, <1>3, <2>1 DEF add, IsTable
<1>9. WindowInv(delegations', accepted')
  <2>1. DOMAIN accepted' = DOMAIN delegations'
    BY <1>7, <1>8 DEF AllWindows, WindowInv
  <2>2. ASSUME NEW e \in DOMAIN delegations'
        PROVE  Windowed(delegations'[e].rate_limiter, accepted'[e])
    <3>1. CASE e = d
      BY <1>4, <1>5, <1>6, <1>7, <1>8, <3>1
    <3>2. CASE e # d
      <4>1. e \in DOMAIN delegations /\ e \in DOMAIN accepted
        BY <1>7, <2>2, <3>2 DEF AllWindows, WindowInv
      <4> QED
        BY <1>7, <1>8, <4>1 DEF AllWindows, WindowInv
    <3> QED
      BY <3>1, <3>2
  <2> QED
    BY <1>8, <2>1, <2>2 DEF WindowInv
<1> QED
  BY <1>1, <1>9, CallKeepsWindows

LEMMA RemoveKeyKeepsWindows ==
  ASSUME Inv, AllWindows, running, NEW master \in tx.signers, NEW key \in DelegationKeys,
         remove_permissioned_handle(master, key)
  PROVE  AllWindows'
<1> DEFINE d == <<master.account, key>>
<1>1. /\ Kept({}, tx.handles)
      /\ delegations' = remove(delegations, d) /\ accepted' = remove(accepted, d)
  BY DEF remove_permissioned_handle
<1> HIDE DEF d
<1>2. WindowInv(delegations', accepted')
  BY <1>1 DEF AllWindows, WindowInv, remove, IsTable
<1> QED
  BY <1>1, <1>2, CallKeepsWindows

\* All other calls leave keys and limiters alone.
LEMMA AnyCallKeepsWindows ==
  ASSUME Inv, AllWindows, Call
  PROVE  AllWindows'
<1>1. running /\ WindowInv(delegations, accepted)
  BY DEF Call, AllWindows
<1>2. CASE DelegationCall
  <2>1. ASSUME NEW master \in tx.signers, NEW key \in DelegationKeys,
               permissioned_signer_by_key(master, key)
        PROVE  AllWindows'
    <3>1. UNCHANGED <<delegations, accepted>> /\ \E signers, handles : Kept(signers, handles)
      BY <2>1 DEF permissioned_signer_by_key
    <3> QED
      BY <1>1, <3>1, CallKeepsWindows
  <2> QED
    BY <1>1, <1>2, <2>1, AddKeyKeepsWindows, RemoveKeyKeepsWindows DEF DelegationCall
<1>3. ASSUME HandleCall \/ RevokeCall
      PROVE  UNCHANGED <<delegations, accepted>> /\ \E signers, handles : Kept(signers, handles)
  BY <1>3 DEF HandleCall, MakeHandle, signer_from_permissioned_handle, DestroyHandle,
              RevokeCall, GrantUnlimited, RevokeHandle, RevokeAll
<1>4. ASSUME GasCall \/ AssetCall
      PROVE  UNCHANGED <<delegations, accepted>> /\ \E signers, handles : Kept(signers, handles)
  BY <1>4 DEF GasCall, Grant, revoke_gas_permission, AssetCall, Refill, Withdraw, GrantUnlimited,
              grant_permission_with_transfer_ref
<1>5. ASSUME UNCHANGED <<delegations, accepted>>, \E signers, handles : Kept(signers, handles)
      PROVE  AllWindows'
  BY <1>1, <1>5, CallKeepsWindows
<1> QED
  BY <1>2, <1>3, <1>4, <1>5 DEF Call

LEMMA StartKeepsWindows ==
  ASSUME NEW sender, NEW others, NEW max_fee, start(sender, others, max_fee),
         WindowInv(delegations', accepted')
  PROVE  AllWindows'
<1>1. tx'.saved.delegations = delegations' /\ tx'.saved.accepted = accepted'
  BY DEF start, Saved
<1> QED
  BY <1>1 DEF AllWindows

LEMMA AuthenticateKeepsWindows ==
  ASSUME Inv, AllWindows, NEW account \in Accounts, NEW key \in DelegationKeys,
         NEW others, NEW max_fee, authenticate(account, key, others, max_fee)
  PROVE  AllWindows'
<1> DEFINE d == <<account, key>>
           v == delegations[d]
           l == v.rate_limiter
           late == accepted_more(v, accepted[d])
<1>1. /\ d \in DOMAIN delegations /\ check_txn_rate(v)
      /\ delegations' = write(delegations, d, counted(v))
      /\ accepted' = write(accepted, d, late)
      /\ start(v.handle, others, max_fee)
  BY DEF authenticate, contains
<1> HIDE DEF d
<1>2. /\ WindowInv(delegations, accepted) /\ d \in DOMAIN accepted
      /\ accepted[d] \in [Seconds -> Nat] /\ Windowed(l, accepted[d])
  BY <1>1 DEF AllWindows, WindowInv, IsTable
<1>3. v \in AccountDelegationType
  BY <1>1 DEF Inv, Registered, IsTable
<1>4. late \in [Seconds -> Nat]
  BY <1>2 DEF accepted_more
<1>5. Windowed(counted(v).rate_limiter, late)
  <2>1. CASE l = NoLimiter
    BY <1>4, <2>1 DEF counted, Windowed
  <2>2. CASE l # NoLimiter
    <3>1. l \in LimiterType /\ request_granted(l, 1)
      BY <1>1, <1>3, <2>2 DEF check_txn_rate, AccountDelegationType, LimiterType
    <3>2. now_seconds \in Seconds /\ l.last_refill_timestamp <= now_seconds
      BY <1>1, <2>2, SecondsAreNaturals DEF Inv, now_seconds, Registered
    <3>3. More(accepted[d], late)
      BY <2>2 DEF More, accepted_more
    <3>4. counted(v).rate_limiter = request(l, 1)
      BY <1>3, <2>2 DEF counted, AccountDelegationType
    <3> HIDE DEF l, late, v
    <3> QED
      BY <1>2, <1>4, <2>2, <3>1, <3>2, <3>3, <3>4, RequestKeepsWindows
  <2> QED
    BY <2>1, <2>2
<1> HIDE DEF v, l, late
<1>6. /\ DOMAIN delegations' = DOMAIN delegations /\ delegations'[d] = counted(v)
      /\ \A e \in DOMAIN delegations : e # d => delegations'[e] = delegations[e]
      /\ DOMAIN accepted' = DOMAIN accepted /\ accepted'[d] = late
      /\ \A e \in DOMAIN accepted : e # d => accepted'[e] = accepted[e]
  BY <1>1, <1>2 DEF write
<1>7. IsTable(accepted', Accounts \X DelegationKeys, [Seconds -> Nat])
  BY <1>1, <1>2, <1>4 DEF WindowInv, IsTable, write
<1>8. WindowInv(delegations', accepted')
  BY <1>2, <1>5, <1>6, <1>7 DEF WindowInv
<1> QED
  BY <1>1, <1>8, StartKeepsWindows

(* A rate limiter grants what the windows allow, for any capacity, interval,*)
(* times and requests: what the bucket holds after a request is exactly the *)
(* least, over all windows that end there, of a full bucket and the inflow  *)
(* of the window without what was granted in it, in spite of the rounding at*)
(* every refill and whatever transactions that fail bring back.             *)
THEOREM LimitersAreWindows == DelegationSpec => []LimiterLikeWindows
<1>1. DelegationInit => AllWindows
  BY NewTable DEF DelegationInit, AllWindows, WindowInv, running, Windowed
<1>2. Inv /\ AllWindows /\ [DelegationNext]_delegationVars => AllWindows'
  <2> SUFFICES ASSUME Inv, AllWindows, [DelegationNext]_delegationVars
               PROVE  AllWindows'
    OBVIOUS
  <2>1. CASE Begin
    <3>1. ASSUME NEW account, NEW others, NEW max_fee, BeginAsMaster(account, others, max_fee)
          PROVE  AllWindows'
      <4>1. start(Master(account), others, max_fee) /\ UNCHANGED <<delegations, accepted>>
        BY <3>1 DEF BeginAsMaster
      <4>2. WindowInv(delegations', accepted')
        BY <4>1 DEF AllWindows
      <4> QED
        BY <4>1, <4>2, StartKeepsWindows
    <3> QED
      BY <2>1, <3>1, AuthenticateKeepsWindows DEF Begin
  <2>2. CASE Commit
    BY <2>2 DEF Commit, AllWindows, running
  <2>3. CASE Fail
    BY <2>3 DEF Fail, AllWindows, running
  <2>4. CASE BlockPrologue \/ NextEpoch \/ UNCHANGED delegationVars
    BY <2>4 DEF BlockPrologue, NextEpoch, delegationVars, AllWindows, running
  <2> QED
    BY <2>1, <2>2, <2>3, <2>4, AnyCallKeepsWindows DEF DelegationNext
<1>3. AllWindows => LimiterLikeWindows
  BY DEF AllWindows, WindowInv, Windowed, LimiterLikeWindows
<1> QED
  BY <1>1, <1>2, <1>3, DelegationInvariant, PTL DEF DelegationSpec
=============================================================================
