-------------------------- MODULE PermissionedSigner --------------------------
(***************************************************************************)
(* aptos_framework::permissioned_signer and its natives: signers that can do*)
(* a part of what the master signer of an account can.  What such a signer  *)
(* may do is kept in a PermissionStorage, at an address of its own, as an   *)
(* amount for each permission.                                             *)
(*                                                                         *)
(* A signer is a value and lives no longer than its transaction; a storage  *)
(* can be destroyed while signers for it are still in use.  Every action is *)
(* a call within a transaction, and its guard leaves out the calls that     *)
(* abort.                                                                  *)
(***************************************************************************)
EXTENDS MoveTable, FiniteSets

CONSTANTS
  Accounts,         \* accounts with master signers
  U256_MAX,         \* largest capacity, small in the instances
  MaxStorages,      \* bound: storages ever made
  Unlimited         \* StoredPermission::Unlimited

ASSUME PermissionConstants ==
  /\ U256_MAX \in Nat /\ MaxStorages \in Nat
  /\ Unlimited \notin 0 .. U256_MAX

VARIABLES
  enabled,          \* features::is_permissioned_signer_enabled
  storages,         \* PermissionStorage: address -> permission -> amount
  active_handles,   \* GrantedPermissionHandles: account -> storages
  generated         \* addresses that generate_auid_address has given

permissionVars == <<enabled, storages, active_handles, generated>>

(* The permissions of the framework, one of each way of use: fees, which the*)
(* epilogue consumes; withdrawals; the transfer of an object; and the       *)
(* revocation of handles.                                                   *)
Permissions == {"Gas", "Withdraw", "Transfer", "Revoke"}

StoredPermission == 0 .. U256_MAX \cup {Unlimited}

\* 0 stands for the storage of a master signer, which has none.
Storages == 1 .. MaxStorages
Master(account) == [account |-> account, storage |-> 0]
Signer == [account : Accounts, storage : 0 .. MaxStorages]

PermissionInit ==
  /\ enabled = TRUE
  /\ storages = new
  /\ active_handles = new
  /\ generated = 0

-----------------------------------------------------------------------------
\* The natives, each with the calls that return
is_permissioned_signer_impl(s) == s.storage # 0

permission_address_returns(s) == enabled /\ s.storage # 0
permission_address(s) == s.storage

signer_from_permissioned_handle_impl_returns == enabled
signer_from_permissioned_handle_impl(master_account, storage) ==
  [account |-> master_account, storage |-> storage]

borrow_address_returns(s) == enabled \/ s.storage = 0
borrow_address(s) == s.account

(* is_permissioned_signer: with the feature off nobody has such a signer,   *)
(* and the native, which would abort, is not called                        *)
is_permissioned_signer(s) == enabled /\ is_permissioned_signer_impl(s)

-----------------------------------------------------------------------------
\* Amounts
is_above(perm, threshold) == perm # Unlimited => perm >= threshold

consume_capacity(perm, threshold) == IF perm = Unlimited THEN perm ELSE perm - threshold

fits_capacity(perm, capacity) == perm # Unlimited => perm + capacity <= U256_MAX

increase_capacity(perm, capacity) == IF perm = Unlimited THEN perm ELSE perm + capacity

\* What the storage of a signer has of a permission; nothing is 0.
stored(all, s, key) ==
  IF contains(all, s.storage) /\ contains(all[s.storage], key) THEN all[s.storage][key] ELSE 0

(* insert_or and map_or abort when the storage of the signer is gone        *)
has_storage(all, s) == permission_address_returns(s) /\ contains(all, permission_address(s))

insert_or(all, s, key, amount) ==
  LET perms == all[s.storage]
  IN  write(all, s.storage,
            IF contains(perms, key) THEN write(perms, key, amount) ELSE add(perms, key, amount))

-----------------------------------------------------------------------------
\* Permission management.  Each operator gives the storages after the call.
can_authorize(master, permissioned) ==
  /\ is_permissioned_signer(permissioned)
  /\ ~is_permissioned_signer(master)
  /\ borrow_address_returns(master) /\ borrow_address_returns(permissioned)
  /\ borrow_address(master) = borrow_address(permissioned)

increases(all, s, capacity, key) ==
  has_storage(all, s) /\ fits_capacity(stored(all, s, key), capacity)

increased(all, s, capacity, key) ==
  insert_or(all, s, key, increase_capacity(stored(all, s, key), capacity))

authorize_increase(master, permissioned, capacity, key) ==
  /\ can_authorize(master, permissioned)
  /\ increases(storages, permissioned, capacity, key)
  /\ storages' = increased(storages, permissioned, capacity, key)
  /\ UNCHANGED <<enabled, active_handles, generated>>

authorize_unlimited(master, permissioned, key) ==
  /\ can_authorize(master, permissioned)
  /\ has_storage(storages, permissioned)
  /\ storages' = insert_or(storages, permissioned, key, Unlimited)
  /\ UNCHANGED <<enabled, active_handles, generated>>

(* Both of these do nothing for a master signer.                            *)
grant_unlimited_with_permissioned_signer(permissioned, key) ==
  /\ is_permissioned_signer(permissioned)
  /\ has_storage(storages, permissioned)
  /\ storages' = insert_or(storages, permissioned, key, Unlimited)
  /\ UNCHANGED <<enabled, active_handles, generated>>

increase_limit(permissioned, capacity, key) ==
  /\ is_permissioned_signer(permissioned)
  /\ increases(storages, permissioned, capacity, key)
  /\ storages' = increased(storages, permissioned, capacity, key)
  /\ UNCHANGED <<enabled, active_handles, generated>>

(* check_permission_capacity_above, when it returns true                    *)
check_permission_capacity_above(s, threshold, key) ==
  is_permissioned_signer(s) =>
    /\ has_storage(storages, s)
    /\ contains(storages[s.storage], key)
    /\ is_above(storages[s.storage][key], threshold)

check_permission_exists(s, key) == check_permission_capacity_above(s, 1, key)

consumed(all, s, threshold, key) ==
  insert_or(all, s, key, consume_capacity(stored(all, s, key), threshold))

\* Fault: what is left is not compared with what is asked for.
check_permission_consume_any(s, threshold, key) ==
  /\ is_permissioned_signer(s)
  /\ check_permission_capacity_above(s, 0, key)
  /\ storages' = consumed(storages, s, threshold, key)
  /\ UNCHANGED <<enabled, active_handles, generated>>

(* check_permission_consume, by callers that assert its result              *)
check_permission_consume(s, threshold, key) ==
  /\ is_permissioned_signer(s)
  /\ check_permission_capacity_above(s, threshold, key)
  /\ storages' = consumed(storages, s, threshold, key)
  /\ UNCHANGED <<enabled, active_handles, generated>>

(* revoke_permission does nothing where there is nothing to revoke          *)
revoke_permission(permissioned, key) ==
  /\ is_permissioned_signer(permissioned)
  /\ has_storage(storages, permissioned)
  /\ contains(storages[permissioned.storage], key)
  /\ storages' = write(storages, permissioned.storage, remove(storages[permissioned.storage], key))
  /\ UNCHANGED <<enabled, active_handles, generated>>

-----------------------------------------------------------------------------
\* Handles
initialize_permission_address(storage) == add(storages, storage, new)

destroy_permissions_storage_address(storage) ==
  IF contains(storages, storage) THEN remove(storages, storage) ELSE storages

generate_auid_address == generated + 1

create_permissioned_handle(master) ==
  /\ enabled /\ ~is_permissioned_signer(master)
  /\ generated < MaxStorages
  /\ generated' = generate_auid_address
  /\ storages' = initialize_permission_address(generate_auid_address)
  /\ UNCHANGED <<enabled, active_handles>>

destroy_permissioned_handle(p) ==
  /\ enabled
  /\ storages' = destroy_permissions_storage_address(p.storage)
  /\ UNCHANGED <<enabled, active_handles, generated>>

create_storable_permissioned_handle(master) ==
  /\ enabled /\ ~is_permissioned_signer(master)
  /\ generated < MaxStorages
  /\ generated' = generate_auid_address
  /\ active_handles' =
       [account \in DOMAIN active_handles \cup {master.account} |->
          (IF contains(active_handles, account) THEN active_handles[account] ELSE {})
            \cup (IF account = master.account THEN {generate_auid_address} ELSE {})]
  /\ storages' = initialize_permission_address(generate_auid_address)
  /\ UNCHANGED enabled

\* Fault: the storage stays.
destroy_storable_listed_only(p) ==
  /\ contains(active_handles, p.account)
  /\ active_handles' = write(active_handles, p.account, active_handles[p.account] \ {p.storage})
  /\ UNCHANGED <<enabled, storages, generated>>

destroy_storable_permissioned_handle(p) ==
  /\ contains(active_handles, p.account)
  /\ active_handles' = write(active_handles, p.account, active_handles[p.account] \ {p.storage})
  /\ storages' = destroy_permissions_storage_address(p.storage)
  /\ UNCHANGED <<enabled, generated>>

(* signer_from_storable_permissioned_handle, apart from the time            *)
handle_is_active(p) ==
  signer_from_permissioned_handle_impl_returns /\ contains(storages, p.storage)

revoke_permission_storage_address(s, storage) ==
  /\ enabled
  /\ check_permission_exists(s, "Revoke")
  /\ contains(active_handles, s.account)
  /\ storage \in active_handles[s.account]
  /\ active_handles' = write(active_handles, s.account, active_handles[s.account] \ {storage})
  /\ storages' = destroy_permissions_storage_address(storage)
  /\ UNCHANGED <<enabled, generated>>

revoke_all_handles(s) ==
  /\ enabled
  /\ check_permission_exists(s, "Revoke")
  /\ contains(active_handles, s.account)
  /\ active_handles' = write(active_handles, s.account, {})
  /\ storages' = [storage \in DOMAIN storages \ active_handles[s.account] |-> storages[storage]]
  /\ UNCHANGED <<enabled, generated>>

(* features::on_new_epoch, of a flag that governance has changed            *)
on_new_epoch ==
  /\ enabled' = ~enabled
  /\ UNCHANGED <<storages, active_handles, generated>>
=============================================================================
