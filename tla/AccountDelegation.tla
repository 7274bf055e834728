--------------------------- MODULE AccountDelegation ---------------------------
(***************************************************************************)
(* aptos_framework::permissioned_delegation: an account registers keys, each*)
(* with a storable handle and perhaps a rate limiter, and who signs with    *)
(* such a key gets the permissioned signer of the handle for a transaction. *)
(* transaction_validation makes that signer pay the fee from its "Gas"      *)
(* permission: the prologue asks for the largest fee, the epilogue consumes *)
(* the fee that was charged.                                               *)
(*                                                                         *)
(* A transaction is its prologue, some calls and its end.  When it fails,   *)
(* what its calls did is undone, what its prologue did stays, and the fee is*)
(* charged all the same; that is the work of the VM, which is not part of   *)
(* the repository.                                                         *)
(***************************************************************************)
EXTENDS PermissionedSigner, RateLimiter

CONSTANTS
  DelegationKeys,   \* public keys that can be registered
  Limiters,         \* [capacity, refill_interval] that callers pass, and NoLimiter
  NoLimiter,        \* Option::none
  Expirations,      \* expiration times that callers pass
  Amounts,          \* capacities that are granted and amounts that are spent
  MaxFees,          \* largest fees: gas price times units
  Refunds,          \* storage fees refunded
  MaxCalls          \* bound: calls in a transaction

ASSUME DelegationConstants ==
  /\ \A limiter \in Limiters :
       limiter # NoLimiter => limiter.capacity \in Nat /\ limiter.refill_interval \in Nat
  /\ Expirations \subseteq Nat /\ Amounts \subseteq Nat
  /\ MaxFees \subseteq Nat /\ Refunds \subseteq Nat

VARIABLES
  delegations,      \* RegisteredDelegations: <<account, key>> -> AccountDelegation
  tx,               \* the transaction that runs: at most one
  budget,           \* history: granted less spent, by storage and permission
  accepted          \* history: requests that a limiter has granted since a second

delegationVars == <<microseconds, permissionVars, delegations, tx, budget, accepted>>

NoTx == [status |-> "none"]
running == tx # NoTx

AccountDelegationType ==
  [handle : Signer, expiration_time : Nat,
   rate_limiter : {NoLimiter} \cup
     [capacity : Nat, current_amount : Nat, refill_interval : Nat,
      last_refill_timestamp : Seconds, fractional_accumulated : Nat]]

Budgeted == {"Gas", "Withdraw"}

DelegationInit ==
  /\ InitTime
  /\ PermissionInit
  /\ delegations = new
  /\ tx = NoTx
  /\ budget = [storage \in Storages |-> [key \in Budgeted |-> 0]]
  /\ accepted = new

-----------------------------------------------------------------------------
\* Beginning a transaction

\* What a failed transaction comes back to.
Saved ==
  [storages |-> storages, active_handles |-> active_handles, generated |-> generated,
   delegations |-> delegations, budget |-> budget, accepted |-> accepted]

start(sender, others, max_fee) ==
  tx' = [status |-> "running", gas_payer |-> sender, max_fee |-> max_fee, calls |-> 0,
         signers |-> {sender} \cup {Master(account) : account \in others},
         handles |-> {}, saved |-> Saved']

\* Fault: any permission to pay for gas will do.
prologue_exists(gas_payer, max_fee) == check_permission_exists(gas_payer, "Gas")

(* prologue_common: whether the signer may pay the largest fee              *)
prologue(gas_payer, max_fee) == check_permission_capacity_above(gas_payer, max_fee, "Gas")

(* The account signs with its own key.  Other accounts sign with it in a    *)
(* transaction of several agents.                                          *)
BeginAsMaster(account, others, max_fee) ==
  /\ ~running
  /\ prologue(Master(account), max_fee)
  /\ UNCHANGED <<microseconds, permissionVars, delegations, budget, accepted>>
  /\ start(Master(account), others, max_fee)

(* authenticate, with a valid signature: the limiter is asked, the time and *)
(* the storage of the handle are checked.  A transaction that is refused    *)
(* here or by the prologue is discarded and leaves nothing.                 *)
check_txn_rate(d) == d.rate_limiter # NoLimiter => request_granted(d.rate_limiter, 1)

counted(d) ==
  IF d.rate_limiter = NoLimiter THEN d
  ELSE [d EXCEPT !.rate_limiter = request(d.rate_limiter, 1)]

signer_from_storable_permissioned_handle(d) ==
  handle_is_active(d.handle) /\ now_seconds < d.expiration_time

\* The history: one more since now, and since every second before
accepted_more(d, counts) ==
  [second \in Seconds |->
    IF d.rate_limiter = NoLimiter \/ second > now_seconds THEN counts[second]
    ELSE counts[second] + 1]

authenticate(account, key, others, max_fee) ==
  /\ ~running
  /\ contains(delegations, <<account, key>>)
  /\ LET d == delegations[<<account, key>>]
     IN  /\ check_txn_rate(d)
         /\ signer_from_storable_permissioned_handle(d)
         /\ prologue(d.handle, max_fee)
         /\ delegations' = write(delegations, <<account, key>>, counted(d))
         /\ accepted' = write(accepted, <<account, key>>,
                              accepted_more(d, accepted[<<account, key>>]))
         /\ UNCHANGED <<microseconds, permissionVars, budget>>
         /\ start(d.handle, others, max_fee)

-----------------------------------------------------------------------------
\* Calls of a running transaction
call == running /\ tx.calls < MaxCalls

Kept(signers, handles) ==
  tx' = [tx EXCEPT !.calls = @ + 1, !.signers = @ \cup signers, !.handles = handles]

granted(storage, key, capacity) ==
  [budget EXCEPT ![storage][key] = @ + capacity]

spent(all, storage, key, amount) ==
  [all EXCEPT ![storage][key] = @ - amount]

(* add_permissioned_handle                                                  *)
add_permissioned_handle(master, key, limiter, expiration_time) ==
  LET d == <<master.account, key>>
      handle == signer_from_permissioned_handle_impl(master.account, generate_auid_address)
  IN  /\ call
      /\ ~contains(delegations, d)
      /\ now_seconds < expiration_time
      /\ create_storable_permissioned_handle(master)
      /\ delegations' =
           add(delegations, d,
               [handle |-> handle, expiration_time |-> expiration_time,
                rate_limiter |-> IF limiter = NoLimiter THEN NoLimiter
                                 ELSE initialize(limiter.capacity, limiter.refill_interval)])
      /\ accepted' = add(accepted, d, [second \in Seconds |-> 0])
      /\ Kept({handle}, tx.handles)
      /\ UNCHANGED <<microseconds, budget>>

(* remove_permissioned_handle: it works after a revocation and with the     *)
(* feature off, when the storage or the list may not have the address       *)
remove_permissioned_handle(master, key) ==
  LET d == <<master.account, key>>
  IN  /\ call
      /\ ~is_permissioned_signer(master)
      /\ contains(delegations, d)
      /\ destroy_storable_permissioned_handle(delegations[d].handle)
      /\ delegations' = remove(delegations, d)
      /\ accepted' = remove(accepted, d)
      /\ Kept({}, tx.handles)
      /\ UNCHANGED <<microseconds, budget>>

permissioned_signer_by_key(master, key) ==
  LET d == <<master.account, key>>
  IN  /\ call
      /\ ~is_permissioned_signer(master)
      /\ contains(delegations, d)
      /\ signer_from_storable_permissioned_handle(delegations[d])
      /\ Kept({delegations[d].handle}, tx.handles)
      /\ UNCHANGED <<microseconds, permissionVars, delegations, budget, accepted>>

\* A handle of this transaction, its signer and its end
MakeHandle(master) ==
  /\ call
  /\ create_permissioned_handle(master)
  /\ Kept({}, tx.handles \cup
            {signer_from_permissioned_handle_impl(master.account, generate_auid_address)})
  /\ UNCHANGED <<microseconds, delegations, budget, accepted>>

signer_from_permissioned_handle(p) ==
  /\ call /\ enabled
  /\ Kept({p}, tx.handles)
  /\ UNCHANGED <<microseconds, permissionVars, delegations, budget, accepted>>

DestroyHandle(p) ==
  /\ call
  /\ destroy_permissioned_handle(p)
  /\ Kept({}, tx.handles \ {p})
  /\ UNCHANGED <<microseconds, delegations, budget, accepted>>

(* grant_gas_permission, and grant_permission_by_store for withdrawals.     *)
(* Bound: what is granted and not spent, revoked permissions included.      *)
Grant(master, permissioned, key, capacity) ==
  /\ call
  /\ authorize_increase(master, permissioned, capacity, key)
  /\ budget[permissioned.storage][key] \in 0 .. U256_MAX - capacity
  /\ budget' = granted(permissioned.storage, key, capacity)
  /\ Kept({}, tx.handles)
  /\ UNCHANGED <<microseconds, delegations, accepted>>

(* refill_permission of a fungible asset, when something is deposited again *)
Refill(permissioned, capacity) ==
  /\ call
  /\ increase_limit(permissioned, capacity, "Withdraw")
  /\ budget[permissioned.storage]["Withdraw"] \in 0 .. U256_MAX - capacity
  /\ budget' = granted(permissioned.storage, "Withdraw", capacity)
  /\ Kept({}, tx.handles)
  /\ UNCHANGED <<microseconds, delegations, accepted>>

(* withdraw_permission_check asserts what check_permission_consume returns  *)
Withdraw(permissioned, amount) ==
  /\ call
  /\ check_permission_consume(permissioned, amount, "Withdraw")
  /\ budget' = spent(budget, permissioned.storage, "Withdraw", amount)
  /\ Kept({}, tx.handles)
  /\ UNCHANGED <<microseconds, delegations, accepted>>

(* grant_revoke_permission and object::grant_permission, and                *)
(* object::grant_permission_with_transfer_ref without the master's signer   *)
GrantUnlimited(master, permissioned, key) ==
  /\ call
  /\ authorize_unlimited(master, permissioned, key)
  /\ Kept({}, tx.handles)
  /\ UNCHANGED <<microseconds, delegations, budget, accepted>>

grant_permission_with_transfer_ref(permissioned) ==
  /\ call
  /\ grant_unlimited_with_permissioned_signer(permissioned, "Transfer")
  /\ Kept({}, tx.handles)
  /\ UNCHANGED <<microseconds, delegations, budget, accepted>>

revoke_gas_permission(permissioned) ==
  /\ call
  /\ revoke_permission(permissioned, "Gas")
  /\ Kept({}, tx.handles)
  /\ UNCHANGED <<microseconds, delegations, budget, accepted>>

RevokeHandle(s, storage) ==
  /\ call
  /\ revoke_permission_storage_address(s, storage)
  /\ Kept({}, tx.handles)
  /\ UNCHANGED <<microseconds, delegations, budget, accepted>>

RevokeAll(s) ==
  /\ call
  /\ revoke_all_handles(s)
  /\ Kept({}, tx.handles)
  /\ UNCHANGED <<microseconds, delegations, budget, accepted>>

DelegationCall ==
  \/ \E master \in tx.signers, key \in DelegationKeys, expiration_time \in Expirations :
       \E limiter \in Limiters : add_permissioned_handle(master, key, limiter, expiration_time)
  \/ \E master \in tx.signers, key \in DelegationKeys :
       \/ remove_permissioned_handle(master, key)
       \/ permissioned_signer_by_key(master, key)

HandleCall ==
  \/ \E master \in tx.signers : MakeHandle(master)
  \/ \E p \in tx.handles : signer_from_permissioned_handle(p) \/ DestroyHandle(p)

RevokeCall ==
  \/ \E master, s \in tx.signers : GrantUnlimited(master, s, "Revoke")
  \/ \E s \in tx.signers, storage \in Storages : RevokeHandle(s, storage)
  \/ \E s \in tx.signers : RevokeAll(s)

GasCall ==
  \/ \E master, s \in tx.signers, capacity \in Amounts : Grant(master, s, "Gas", capacity)
  \/ \E s \in tx.signers : revoke_gas_permission(s)

AssetCall ==
  \/ \E master, s \in tx.signers, capacity \in Amounts : Grant(master, s, "Withdraw", capacity)
  \/ \E s \in tx.signers, amount \in Amounts : Refill(s, amount) \/ Withdraw(s, amount)
  \/ \E master, s \in tx.signers : GrantUnlimited(master, s, "Transfer")
  \/ \E s \in tx.signers : grant_permission_with_transfer_ref(s)

-----------------------------------------------------------------------------
\* The end of a transaction

(* unified_epilogue_v2: fee and refund are settled in one; the epilogue     *)
(* ignores whether the permission to pay was still there                    *)
settles(all, fee, refund) ==
  is_permissioned_signer(tx.gas_payer) /\ fee # refund =>
    /\ has_storage(all, tx.gas_payer)
    /\ fee < refund => fits_capacity(stored(all, tx.gas_payer, "Gas"), refund - fee)

settled(all, fee, refund) ==
  LET payer == tx.gas_payer
  IN  IF ~is_permissioned_signer(payer) \/ fee = refund THEN all
      ELSE IF fee < refund THEN increased(all, payer, refund - fee, "Gas")
      ELSE IF contains(all[payer.storage], "Gas") /\ is_above(all[payer.storage]["Gas"], fee - refund)
      THEN consumed(all, payer, fee - refund, "Gas")
      ELSE all

charged(all, fee, refund) ==
  IF is_permissioned_signer(tx.gas_payer)
  THEN spent(all, tx.gas_payer.storage, "Gas", fee - refund) ELSE all

(* Handles of the transaction cannot be dropped: its code has destroyed them*)
Commit ==
  /\ running
  /\ tx.handles = {}
  /\ \E fee \in 0 .. tx.max_fee, refund \in Refunds :
       /\ settles(storages, fee, refund)
       /\ storages' = settled(storages, fee, refund)
       /\ budget' = charged(budget, fee, refund)
  \* Bound, as for Grant.
  /\ \A storage \in Storages : budget'[storage]["Gas"] <= U256_MAX
  /\ tx' = NoTx
  /\ UNCHANGED <<microseconds, enabled, active_handles, generated, delegations, accepted>>

(* A call or the epilogue has aborted: the epilogue runs on the state after *)
(* the prologue.                                                           *)
Fail ==
  /\ running
  /\ \E fee \in 0 .. tx.max_fee :
       /\ storages' = settled(tx.saved.storages, fee, 0)
       /\ budget' = charged(tx.saved.budget, fee, 0)
  /\ active_handles' = tx.saved.active_handles
  /\ generated' = tx.saved.generated
  /\ delegations' = tx.saved.delegations
  /\ accepted' = tx.saved.accepted
  /\ tx' = NoTx
  /\ UNCHANGED <<microseconds, enabled>>

-----------------------------------------------------------------------------
Begin ==
  \E account \in Accounts, max_fee \in MaxFees : \E others \in SUBSET (Accounts \ {account}) :
     \/ BeginAsMaster(account, others, max_fee)
     \/ \E key \in DelegationKeys : authenticate(account, key, others, max_fee)

\* The clock and the feature flags change between transactions.
BlockPrologue ==
  /\ ~running
  /\ update_global_time
  /\ UNCHANGED <<permissionVars, delegations, tx, budget, accepted>>

NextEpoch ==
  /\ ~running
  /\ on_new_epoch
  /\ UNCHANGED <<microseconds, delegations, tx, budget, accepted>>

Call == running /\ (DelegationCall \/ HandleCall \/ RevokeCall \/ GasCall \/ AssetCall)

DelegationNext == Begin \/ Call \/ Commit \/ Fail \/ BlockPrologue \/ NextEpoch

DelegationSpec == DelegationInit /\ [][DelegationNext]_delegationVars

-----------------------------------------------------------------------------
DelegationTypeOK ==
  /\ microseconds \in Nat /\ enabled \in BOOLEAN /\ generated \in 0 .. MaxStorages
  /\ DOMAIN storages \subseteq 1 .. generated
  /\ \A storage \in DOMAIN storages : IsTable(storages[storage], Permissions, StoredPermission)
  /\ IsTable(active_handles, Accounts, SUBSET (1 .. generated))
  /\ IsTable(delegations, Accounts \X DelegationKeys, AccountDelegationType)
  /\ running =>
       /\ tx.gas_payer \in tx.signers
       /\ tx.signers \subseteq Signer
       /\ tx.handles \subseteq Signer

(* Whatever is revoked or removed, in whatever order and by whomever: every *)
(* storage is one that its account can revoke, or belongs to a handle of    *)
(* the running transaction; every handle that is active is the handle of a  *)
(* key; and a signer is for a storage that was there at the start of its    *)
(* transaction or has been made by it, never for one that was revoked       *)
(* before, nor for a key that has expired, nor with the feature off, when   *)
(* not even its address could be read.                                     *)
RevocationIsFinal ==
  LET handles == {delegations[d].handle : d \in DOMAIN delegations}
      active == {s \in Signer : contains(active_handles, s.account)
                                /\ s.storage \in active_handles[s.account]}
      mine == IF running THEN tx.handles ELSE {}
  IN  /\ DOMAIN storages = {s.storage : s \in active \cup mine}
      /\ active \subseteq handles
      /\ \A h \in handles : contains(active_handles, h.account)
      /\ running =>
           /\ \A s \in tx.signers :
                /\ borrow_address_returns(s)
                /\ s.storage = 0 \/ contains(tx.saved.storages, s.storage)
                                 \/ s.storage > tx.saved.generated
           /\ \A d \in DOMAIN delegations :
                delegations[d].handle \in tx.signers
                  => now_seconds < delegations[d].expiration_time

(* What can be spent through a storage is covered by what was granted to it *)
(* and is not spent: by fees, that are charged when transactions fail and   *)
(* when the permission to pay has been revoked on the way, and by           *)
(* withdrawals.                                                            *)
SpentWithinGrants ==
  \A storage \in Storages, key \in Budgeted :
    LET left == stored(storages, [storage |-> storage], key)
    IN  left <= budget[storage][key]

(* A limiter allows what the windows allow: at its last request the bucket  *)
(* holds the least, over all windows that end there, of a full bucket and   *)
(* what flows in during the window, without what was taken out in it.       *)
window(last) == {since \in Seconds : since <= last}

level(l, counts, since) ==
  l.capacity * l.refill_interval + (l.last_refill_timestamp - since) * l.capacity
    - l.refill_interval * counts[since]

content(l) == l.current_amount * l.refill_interval + l.fractional_accumulated

LimiterLikeWindows ==
  \A d \in DOMAIN delegations :
    LET l == delegations[d].rate_limiter
    IN  l # NoLimiter /\ l.refill_interval # 0 =>
          /\ \E since \in window(l.last_refill_timestamp) : content(l) = level(l, accepted[d], since)
          /\ \A since \in window(l.last_refill_timestamp) : content(l) <= level(l, accepted[d], since)
=============================================================================
