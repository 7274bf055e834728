---------------------------- MODULE CodePublishing ----------------------------
(***************************************************************************)
(* Publishing code: aptos_framework::code and object_code_deployment keep a *)
(* registry of packages, and the native request_publish (natives/code.rs)   *)
(* leaves the code itself to the VM, which takes the request when the       *)
(* transaction has run, checks and stores the modules and runs their        *)
(* init_module.  A step of a transaction is an action; the transaction      *)
(* commits or leaves nothing.                                               *)
(*                                                                         *)
(* The bytecode of a module is the set of the modules it imports.  A name   *)
(* stands for one package of a registry: publishing replaces the package of *)
(* the same name.                                                           *)
(***************************************************************************)
EXTENDS Integers, FiniteSets

CONSTANTS
  Account, CodeObject,   \* where packages are published by users
  Exempt,                \* core addresses (is_policy_exempted_address)
  CoreModule,            \* the modules that the core addresses start with
  owner_of,              \* code object -> the account that owns it
  Permitted,             \* signers with CodePublishingPermission
  Publication,           \* the packages that are published: see PublicationType
  NoRequest, NoSession, AnyModule,
  MaxUpgrades            \* bound: the upgrades of a package

Address == Account \cup CodeObject \cup Exempt

\* UpgradePolicy
arbitrary == 0
compat == 1
immutable == 2

PublicationType(p) ==
  /\ p.destination \in Address
  /\ p.upgrade_policy \in arbitrary .. immutable
  /\ IsFiniteSet(p.modules)
  /\ \A dep \in p.deps : dep.account \in Address
  \* Bytecode has no module with the name of the wildcard of AllowedDep, metadata may.
  /\ AnyModule \notin DOMAIN p.bundle
  /\ \A m \in DOMAIN p.bundle : \A i \in p.bundle[m] : i[1] \in Address

\* What native_request_publish leaves for the VM
ModuleNames == UNION {p.modules : p \in Publication}
PublishRequest ==
  [destination : Address, bundle : {p.bundle : p \in Publication},
   expected_modules : SUBSET ModuleNames, restricted : BOOLEAN,
   allowed_deps : SUBSET (Address \X (ModuleNames \cup {AnyModule}))]

ASSUME PublicationAssumption == \A p \in Publication : PublicationType(p)
ASSUME AddressAssumption ==
  /\ Exempt \cap (Account \cup CodeObject) = {} /\ Account \cap CodeObject = {}
  /\ owner_of \in [CodeObject -> Account] /\ Permitted \subseteq Account \cup Exempt
  /\ \A i \in CoreModule : i[1] \in Exempt
  /\ NoRequest \notin PublishRequest
  /\ MaxUpgrades \in Nat

VARIABLES
  registry,   \* PackageRegistry: address -> name -> PackageMetadata
  code,       \* the modules on chain: <<address, name>> -> what it imports
  session,    \* the transaction that runs
  code_dependency_check   \* the feature of request_publish_with_allowed_deps

codeVars == <<registry, code, session, code_dependency_check>>

packages_at(reg, a) == IF a \in DOMAIN reg THEN reg[a] ELSE [n \in {} |-> n]

set_entry(f, k, v) == [x \in DOMAIN f \cup {k} |-> IF x = k THEN v ELSE f[x]]

CodeInit ==
  /\ registry = [a \in Exempt |-> [n \in {} |-> n]]
  /\ code = [i \in CoreModule |-> {}]
  /\ session = NoSession
  /\ code_dependency_check \in BOOLEAN

\* NativeCodeContext::new, in a session on what is committed
start_transaction(signer) ==
  /\ session = NoSession
  /\ session' = [signer |-> signer, registry |-> registry, code |-> code,
                 enabled |-> TRUE, requested_module_bundle |-> NoRequest]
  /\ UNCHANGED <<registry, code, code_dependency_check>>

-----------------------------------------------------------------------------
check_code_publishing_permission(s) == s \in Permitted \cup CodeObject

check_upgradability(old, new) ==
  /\ old.upgrade_policy < immutable
  /\ old.upgrade_policy <= new.upgrade_policy
  /\ old.modules \subseteq new.modules

\* Fault: packages of one address may share modules.
check_no_coexistence(old, new) == TRUE

check_coexistence(old, new) == old.modules \cap new.modules = {}

\* The package behind a dependency exists and is not easier to change.
check_dependency(reg, dep, pack) ==
  /\ dep.account \in DOMAIN reg
  /\ \/ dep.account \in Exempt
     \/ /\ dep.package_name \in DOMAIN reg[dep.account]
        /\ reg[dep.account][dep.package_name].upgrade_policy >= pack.upgrade_policy

\* What check_dependencies returns: every module of a package, or of a core address.
allowed_deps(reg, pack) ==
  UNION {IF dep.account \in Exempt THEN {<<dep.account, AnyModule>>}
         ELSE {dep.account} \X reg[dep.account][dep.package_name].modules : dep \in pack.deps}

\* Fault: a request is taken while modules are initialized.
request_late(s) == s.requested_module_bundle = NoRequest

\* native_request_publish accepts one request of a transaction, before it is extracted.
may_request(s) == s.requested_module_bundle = NoRequest /\ s.enabled

\* native_request_publish: the PublishRequest
publish_request(reg, pack, checked) ==
  [destination |-> pack.destination, bundle |-> pack.bundle, expected_modules |-> pack.modules,
   restricted |-> checked,
   allowed_deps |-> allowed_deps(reg, pack) \cup ({pack.destination} \X pack.modules)]

\* What publish_package asserts
publishable(reg, pack) ==
  LET installed == packages_at(reg, pack.destination)
  IN  /\ check_code_publishing_permission(pack.destination)
      /\ pack.upgrade_policy > arbitrary
      /\ \A dep \in pack.deps : check_dependency(reg, dep, pack)
      /\ \A n \in DOMAIN installed :
           IF n = pack.name THEN check_upgradability(installed[n], pack)
                            ELSE check_coexistence(installed[n], pack)

\* The registry with the package in it, its upgrades counted
with_package(reg, pack) ==
  LET installed == packages_at(reg, pack.destination)
      upgrade_number == IF pack.name \in DOMAIN installed
                          THEN installed[pack.name].upgrade_number + 1 ELSE 0
  IN  set_entry(reg, pack.destination, set_entry(installed, pack.name,
        [upgrade_policy |-> pack.upgrade_policy, upgrade_number |-> upgrade_number,
         modules |-> pack.modules, deps |-> pack.deps]))

publish_package(pack) ==
  /\ session # NoSession
  /\ publishable(session.registry, pack)
  /\ with_package(session.registry, pack)[pack.destination][pack.name].upgrade_number <= MaxUpgrades
  /\ may_request(session)
  /\ session' = [session EXCEPT
       !.registry = with_package(@, pack),
       !.requested_module_bundle =
          publish_request(session.registry, pack, code_dependency_check)]
  /\ UNCHANGED <<registry, code, code_dependency_check>>

\* object_code_deployment: publish creates the object, upgrade asks for its owner.
publish_to_object(pack) ==
  /\ session # NoSession /\ session.signer \in Permitted
  /\ pack.destination \in CodeObject
  /\ owner_of[pack.destination] = session.signer
  /\ pack.destination \notin DOMAIN session.registry
  /\ publish_package(pack)

upgrade_object(pack) ==
  /\ session # NoSession /\ session.signer \in Permitted
  /\ pack.destination \in CodeObject
  /\ owner_of[pack.destination] = session.signer
  /\ pack.destination \in DOMAIN session.registry
  /\ publish_package(pack)

\* The registry of a code object with all its packages made immutable
frozen(reg, object) ==
  [reg EXCEPT ![object] = [n \in DOMAIN @ |-> [@[n] EXCEPT !.upgrade_policy = immutable]]]

\* Fault: the dependencies are not looked at again.
freeze_alone(object) ==
  /\ session # NoSession /\ session.signer \in Permitted
  /\ object \in CodeObject \cap DOMAIN session.registry
  /\ owner_of[object] = session.signer
  /\ session' = [session EXCEPT !.registry = frozen(@, object)]
  /\ UNCHANGED <<registry, code, code_dependency_check>>

freeze_code_object(object) ==
  /\ session # NoSession /\ session.signer \in Permitted
  /\ object \in CodeObject \cap DOMAIN session.registry
  /\ owner_of[object] = session.signer
  /\ LET reg == frozen(session.registry, object)
     IN  /\ \A n \in DOMAIN reg[object] : \A dep \in reg[object][n].deps :
              check_dependency(reg, dep, reg[object][n])
         /\ session' = [session EXCEPT !.registry = reg]
  /\ UNCHANGED <<registry, code, code_dependency_check>>

-----------------------------------------------------------------------------
\* The VM stores a bundle: it has the modules that were announced, they import
\* what is there, and nothing that is not allowed.
storable(modules, request) ==
  /\ DOMAIN request.bundle = request.expected_modules
  /\ \A m \in DOMAIN request.bundle : \A i \in request.bundle[m] :
       /\ \/ i \in DOMAIN modules
          \/ i[1] = request.destination /\ i[2] \in DOMAIN request.bundle
       /\ request.restricted =>
            i \in request.allowed_deps \/ <<i[1], AnyModule>> \in request.allowed_deps

with_bundle(modules, request) ==
  [i \in DOMAIN modules \cup ({request.destination} \X DOMAIN request.bundle) |->
     IF i[1] = request.destination /\ i[2] \in DOMAIN request.bundle
       THEN request.bundle[i[2]] ELSE modules[i]]

\* The VM takes the request; init_module runs from here to the commit.
extract_publish_request ==
  /\ session # NoSession /\ session.enabled
  /\ LET request == session.requested_module_bundle
     IN  IF request = NoRequest
           THEN session' = [session EXCEPT !.enabled = FALSE]
           ELSE /\ storable(session.code, request)
                /\ session' = [session EXCEPT !.enabled = FALSE,
                                 !.requested_module_bundle = NoRequest,
                                 !.code = with_bundle(@, request)]
  /\ UNCHANGED <<registry, code, code_dependency_check>>

commit_transaction ==
  /\ session # NoSession /\ ~session.enabled
  /\ registry' = session.registry /\ code' = session.code
  /\ session' = NoSession
  /\ UNCHANGED code_dependency_check

\* A failed assertion, a module that the VM refuses, or no gas.
abort_transaction ==
  /\ session # NoSession /\ session' = NoSession
  /\ UNCHANGED <<registry, code, code_dependency_check>>

CodeNext ==
  \/ \E signer \in Account : start_transaction(signer)
  \/ \E pack \in Publication :
       \/ session # NoSession /\ pack.destination = session.signer /\ publish_package(pack)
       \/ publish_to_object(pack)
       \/ upgrade_object(pack)
  \/ \E object \in CodeObject : freeze_code_object(object)
  \/ extract_publish_request
  \/ commit_transaction
  \/ abort_transaction

CodeSpec == CodeInit /\ [][CodeNext]_codeVars

-----------------------------------------------------------------------------
(* The modules of an address are those of its packages, each of one of them *)
(* only, whatever transactions publish and freeze and however they fail.    *)
RegistryMatchesModules ==
  /\ \A a \in DOMAIN registry \ Exempt :
       /\ \A m \in {i[2] : i \in {j \in DOMAIN code : j[1] = a}} :
            \E n \in DOMAIN registry[a] : m \in registry[a][n].modules
       /\ \A n, o \in DOMAIN registry[a] :
            /\ n # o => registry[a][n].modules \cap registry[a][o].modules = {}
            /\ {a} \X registry[a][n].modules \subseteq DOMAIN code
  /\ \A i \in DOMAIN code : i[1] \in DOMAIN registry \cup Exempt

\* The policy under which a module can be changed
protects(a, m, policy) ==
  \E n \in DOMAIN registry[a] :
    m \in registry[a][n].modules /\ registry[a][n].upgrade_policy >= policy

(* What a module imports is on chain and at least as hard to change as the  *)
(* module itself, so what an immutable module runs is immutable, except for *)
(* the core addresses.  Without the dependency check the bytecode may import*)
(* what the metadata does not tell of.                                      *)
ImportsAreProtected ==
  code_dependency_check =>
    \A a \in DOMAIN registry \ Exempt : \A n \in DOMAIN registry[a] :
      \A m \in registry[a][n].modules : \A i \in code[<<a, m>>] :
        i[1] \in Exempt \/ protects(i[1], i[2], registry[a][n].upgrade_policy)

(* The modules of an immutable package are never changed or taken over by   *)
(* another package, and no package goes back to a weaker policy.            *)
ImmutableStays ==
  [][\A a \in DOMAIN registry : \A n \in DOMAIN registry[a] :
       /\ n \in DOMAIN registry'[a]
       /\ registry'[a][n].upgrade_policy >= registry[a][n].upgrade_policy
       /\ registry[a][n].upgrade_policy = immutable =>
            \A m \in registry[a][n].modules : code'[<<a, m>>] = code[<<a, m>>]]_codeVars
=============================================================================
