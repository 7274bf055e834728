--------------------------- MODULE PublishingProofs ---------------------------
(***************************************************************************)
(* Theorems about what is built and published, for every value of the       *)
(* constants: any accounts, code objects and packages, whatever they import *)
(* and declare (CodePublishing), any functions with any call graph          *)
(* (ExtendedChecks), any release (ReleaseBundle), and builds of any sizes   *)
(* that are uploaded in payloads of any size (ChunkedPublish).              *)
(***************************************************************************)
EXTENDS ReleaseBundle, ChunkedPublish, ExtendedChecks, TLAPS, WellFoundedInduction,
        SequenceTheorems

\* PackageMetadata as a registry keeps it
PackageMetadata ==
  [upgrade_policy : compat .. immutable, upgrade_number : Nat,
   modules : SUBSET ModuleNames, deps : {p.deps : p \in Publication}]

-----------------------------------------------------------------------------
(* What holds of a registry and of the code it describes, the committed ones*)
(* and those of a session.  The core addresses keep no packages here.       *)

RegistryTyped(reg) ==
  /\ DOMAIN reg \subseteq Address /\ Exempt \subseteq DOMAIN reg
  /\ \A a \in Exempt : DOMAIN reg[a] = {}
  /\ \A a \in DOMAIN reg : \A n \in DOMAIN reg[a] : reg[a][n] \in PackageMetadata

\* The modules in D are those of the packages, each of one package of its address.
Owned(reg, D) ==
  /\ \A i \in D : \/ i[1] \in Exempt
                  \/ /\ i[1] \in DOMAIN reg
                     /\ \E n \in DOMAIN reg[i[1]] : i[2] \in reg[i[1]][n].modules
  /\ \A a \in DOMAIN reg : \A n \in DOMAIN reg[a] :
       /\ {a} \X reg[a][n].modules \subseteq D
       /\ \A o \in DOMAIN reg[a] : n # o => reg[a][n].modules \cap reg[a][o].modules = {}

\* No module that a user has published has the name of the wildcard.
NoWildcard(D) == \A i \in D : i[1] \in Exempt \/ i[2] # AnyModule

\* Every package passes the check of its dependencies.
Dependable(reg) ==
  \A a \in DOMAIN reg : \A n \in DOMAIN reg[a] : \A dep \in reg[a][n].deps :
    check_dependency(reg, dep, reg[a][n])

\* Module i belongs to a core address, to the package, or to a dependency of it.
Declared(reg, a, n, i) ==
  \/ i[1] \in Exempt
  \/ i[1] = a /\ i[2] \in reg[a][n].modules
  \/ \E dep \in reg[a][n].deps :
       /\ dep.account = i[1] /\ i[1] \in DOMAIN reg
       /\ dep.package_name \in DOMAIN reg[i[1]]
       /\ i[2] \in reg[i[1]][dep.package_name].modules

\* What the modules of a package import is declared.
ImportsDeclared(reg, cod, a, n) ==
  \A m \in reg[a][n].modules : \A i \in cod[<<a, m>>] : Declared(reg, a, n, i)

\* Registry reg2 has the packages of reg, none smaller or easier to change.
Grown(reg, reg2) ==
  \A a \in DOMAIN reg :
    /\ a \in DOMAIN reg2
    /\ \A n \in DOMAIN reg[a] :
         /\ n \in DOMAIN reg2[a]
         /\ reg[a][n].modules \subseteq reg2[a][n].modules
         /\ reg2[a][n].upgrade_policy >= reg[a][n].upgrade_policy

\* The code of immutable packages is the same in cod and cod2.
ImmutableKept(reg, cod, cod2) ==
  \A a \in DOMAIN reg : \A n \in DOMAIN reg[a] :
    reg[a][n].upgrade_policy = immutable =>
      \A m \in reg[a][n].modules : cod2[<<a, m>>] = cod[<<a, m>>]

\* The registry is ahead of the code by the request for package n0: everything
\* else is in place, the request allows what the package declares, and the
\* package was not immutable when the session began.
Ahead(reg, cod, request, n0) ==
  /\ request \in PublishRequest
  /\ request.destination \in DOMAIN reg \ Exempt
  /\ n0 \in DOMAIN reg[request.destination]
  /\ request.expected_modules = reg[request.destination][n0].modules
  /\ request.restricted = code_dependency_check
  /\ \A i \in request.allowed_deps : Declared(reg, request.destination, n0, i)
  /\ Owned(reg, DOMAIN cod \cup ({request.destination} \X request.expected_modules))
  /\ code_dependency_check =>
       \A a \in DOMAIN reg : \A n \in DOMAIN reg[a] :
         (a = request.destination /\ n = n0) \/ ImportsDeclared(reg, cod, a, n)
  /\ request.destination \in DOMAIN registry /\ n0 \in DOMAIN registry[request.destination] =>
       registry[request.destination][n0].upgrade_policy # immutable

\* The registry and the code agree.
Settled(reg, cod) ==
  /\ Owned(reg, DOMAIN cod)
  /\ code_dependency_check =>
       \A a \in DOMAIN reg : \A n \in DOMAIN reg[a] : ImportsDeclared(reg, cod, a, n)

SessionInv ==
  /\ session = [signer |-> session.signer, registry |-> session.registry,
                code |-> session.code, enabled |-> session.enabled,
                requested_module_bundle |-> session.requested_module_bundle]
  /\ session.signer \in Account /\ session.enabled \in BOOLEAN
  /\ RegistryTyped(session.registry) /\ Dependable(session.registry)
  /\ NoWildcard(DOMAIN session.code)
  /\ Grown(registry, session.registry)
  /\ ImmutableKept(registry, code, session.code)
  /\ IF session.requested_module_bundle = NoRequest
       THEN Settled(session.registry, session.code)
       ELSE /\ session.enabled
            /\ \E n0 : Ahead(session.registry, session.code, session.requested_module_bundle, n0)

Inv ==
  /\ code_dependency_check \in BOOLEAN
  /\ RegistryTyped(registry) /\ Dependable(registry)
  /\ NoWildcard(DOMAIN code)
  /\ Settled(registry, code)
  /\ session # NoSession => SessionInv

-----------------------------------------------------------------------------
(* Lemmas about registries.                                                 *)

\* What is declared stays declared while registries grow.
LEMMA DeclaredGrows ==
  ASSUME NEW reg, NEW reg2, Grown(reg, reg2), NEW a \in DOMAIN reg, NEW n \in DOMAIN reg[a],
         reg2[a][n].deps = reg[a][n].deps, NEW i, Declared(reg, a, n, i)
  PROVE  Declared(reg2, a, n, i)
<1>1. /\ a \in DOMAIN reg2 /\ n \in DOMAIN reg2[a]
      /\ reg[a][n].modules \subseteq reg2[a][n].modules
  BY DEF Grown
<1>2. ASSUME NEW dep \in reg[a][n].deps, dep.account = i[1], i[1] \in DOMAIN reg,
             dep.package_name \in DOMAIN reg[i[1]],
             i[2] \in reg[i[1]][dep.package_name].modules
      PROVE  Declared(reg2, a, n, i)
  <2>1. /\ i[1] \in DOMAIN reg2 /\ dep.package_name \in DOMAIN reg2[i[1]]
        /\ i[2] \in reg2[i[1]][dep.package_name].modules
    BY <1>2 DEF Grown
  <2> QED
    BY <1>2, <2>1 DEF Declared
<1> QED
  BY <1>1, <1>2 DEF Declared

\* A dependency stays good enough while registries grow.
LEMMA DependencyGrows ==
  ASSUME NEW reg, NEW reg2, RegistryTyped(reg), RegistryTyped(reg2), Grown(reg, reg2),
         NEW pack, NEW pack2, NEW dep, check_dependency(reg, dep, pack),
         pack.upgrade_policy \in Int, pack2.upgrade_policy = pack.upgrade_policy
  PROVE  check_dependency(reg2, dep, pack2)
<1>1. dep.account \in DOMAIN reg /\ dep.account \in DOMAIN reg2
  BY DEF check_dependency, Grown
<1>2. CASE dep.account \in Exempt
  BY <1>1, <1>2 DEF check_dependency
<1>3. CASE dep.account \notin Exempt
  <2> DEFINE old == reg[dep.account][dep.package_name]
             late == reg2[dep.account][dep.package_name]
  <2>1. /\ dep.package_name \in DOMAIN reg[dep.account]
        /\ old.upgrade_policy >= pack.upgrade_policy
    BY <1>3 DEF check_dependency
  <2>2. /\ dep.package_name \in DOMAIN reg2[dep.account]
        /\ late.upgrade_policy >= old.upgrade_policy
    BY <1>1, <2>1 DEF Grown
  <2>3. old \in PackageMetadata /\ late \in PackageMetadata
    BY <1>1, <2>1, <2>2 DEF RegistryTyped
  <2>4. old.upgrade_policy \in Int /\ late.upgrade_policy \in Int
    BY <2>3 DEF PackageMetadata, compat, immutable
  <2>5. late.upgrade_policy >= pack2.upgrade_policy
    BY <2>1, <2>2, <2>4
  <2> QED
    BY <1>1, <2>2, <2>5 DEF check_dependency
<1> QED
  BY <1>2, <1>3

\* Registries that grow after each other have grown.
LEMMA GrownTransitive ==
  ASSUME NEW r1, NEW r2, NEW r3, RegistryTyped(r1), RegistryTyped(r2), RegistryTyped(r3),
         Grown(r1, r2), Grown(r2, r3)
  PROVE  Grown(r1, r3)
<1> SUFFICES ASSUME NEW a \in DOMAIN r1
             PROVE  /\ a \in DOMAIN r3
                    /\ \A n \in DOMAIN r1[a] :
                         /\ n \in DOMAIN r3[a]
                         /\ r1[a][n].modules \subseteq r3[a][n].modules
                         /\ r3[a][n].upgrade_policy >= r1[a][n].upgrade_policy
  BY DEF Grown
<1>1. a \in DOMAIN r2 /\ a \in DOMAIN r3
  BY DEF Grown
<1>2. ASSUME NEW n \in DOMAIN r1[a]
      PROVE  /\ n \in DOMAIN r3[a]
             /\ r1[a][n].modules \subseteq r3[a][n].modules
             /\ r3[a][n].upgrade_policy >= r1[a][n].upgrade_policy
  <2>1. n \in DOMAIN r2[a] /\ n \in DOMAIN r3[a]
    BY <1>1 DEF Grown
  <2>2. /\ r1[a][n].upgrade_policy \in Int /\ r2[a][n].upgrade_policy \in Int
        /\ r3[a][n].upgrade_policy \in Int
    BY <1>1, <2>1 DEF RegistryTyped, PackageMetadata, compat, immutable
  <2>3. /\ r1[a][n].modules \subseteq r2[a][n].modules
        /\ r2[a][n].upgrade_policy >= r1[a][n].upgrade_policy
    BY DEF Grown
  <2>4. /\ r2[a][n].modules \subseteq r3[a][n].modules
        /\ r3[a][n].upgrade_policy >= r2[a][n].upgrade_policy
    BY <1>1, <2>1 DEF Grown
  <2>5. r1[a][n].modules \subseteq r3[a][n].modules
    BY <2>3, <2>4
  <2> QED
    BY <2>1, <2>2, <2>3, <2>4, <2>5
<1> QED
  BY <1>1, <1>2

-----------------------------------------------------------------------------
(* Publishing a package.                                                    *)

\* What a registry has after a package was published to an address of a user.
LEMMA WithPackage ==
  ASSUME NEW reg, RegistryTyped(reg), NEW pack \in Publication, pack.destination \notin Exempt,
         publishable(reg, pack),
         NEW a, a = pack.destination, NEW reg2, reg2 = with_package(reg, pack)
  PROVE  /\ RegistryTyped(reg2)
         /\ DOMAIN reg2 = DOMAIN reg \cup {a}
         /\ pack.name \in DOMAIN reg2[a]
         /\ \A n \in DOMAIN reg2[a] : n = pack.name \/ (a \in DOMAIN reg /\ n \in DOMAIN reg[a])
         /\ reg2[a][pack.name].upgrade_policy = pack.upgrade_policy
         /\ reg2[a][pack.name].modules = pack.modules
         /\ reg2[a][pack.name].deps = pack.deps
         /\ a \in DOMAIN reg => \A n \in DOMAIN reg[a] :
              n \in DOMAIN reg2[a] /\ (n # pack.name => reg2[a][n] = reg[a][n])
         /\ \A b \in DOMAIN reg : b # a => reg2[b] = reg[b]
<1> DEFINE installed == packages_at(reg, a)
           number == IF pack.name \in DOMAIN installed
                       THEN installed[pack.name].upgrade_number + 1 ELSE 0
           entry == [upgrade_policy |-> pack.upgrade_policy, upgrade_number |-> number,
                     modules |-> pack.modules, deps |-> pack.deps]
<1>1. /\ a \in DOMAIN reg => installed = reg[a]
      /\ a \notin DOMAIN reg => DOMAIN installed = {}
  BY DEF packages_at
<1>2. \A n \in DOMAIN installed : installed[n] \in PackageMetadata
  BY <1>1 DEF RegistryTyped
<1>3. number \in Nat
  BY <1>2 DEF PackageMetadata
<1>4. a \in Address /\ pack.upgrade_policy \in compat .. immutable
  BY PublicationAssumption DEF PublicationType, publishable, arbitrary, compat, immutable
<1>5. entry \in PackageMetadata
  BY <1>3, <1>4 DEF PackageMetadata, ModuleNames
<1>6. reg2 = set_entry(reg, a, set_entry(installed, pack.name, entry))
  BY DEF with_package
<1> HIDE DEF installed, entry
<1>7. /\ DOMAIN reg2 = DOMAIN reg \cup {a}
      /\ \A b \in DOMAIN reg : b # a => reg2[b] = reg[b]
      /\ reg2[a] = set_entry(installed, pack.name, entry)
  BY <1>6 DEF set_entry
<1>8. /\ DOMAIN reg2[a] = DOMAIN installed \cup {pack.name}
      /\ reg2[a][pack.name] = entry
      /\ \A n \in DOMAIN installed : n # pack.name => reg2[a][n] = installed[n]
  BY <1>7 DEF set_entry
<1>9. RegistryTyped(reg2)
  <2>1. DOMAIN reg2 \subseteq Address /\ Exempt \subseteq DOMAIN reg2
    BY <1>4, <1>7 DEF RegistryTyped
  <2>2. \A b \in Exempt : DOMAIN reg2[b] = {}
    BY <1>7 DEF RegistryTyped
  <2>3. ASSUME NEW b \in DOMAIN reg2, NEW n \in DOMAIN reg2[b]
        PROVE  reg2[b][n] \in PackageMetadata
    BY <1>2, <1>5, <1>7, <1>8 DEF RegistryTyped
  <2> QED
    BY <2>1, <2>2, <2>3 DEF RegistryTyped
<1>10. /\ entry.upgrade_policy = pack.upgrade_policy /\ entry.modules = pack.modules
       /\ entry.deps = pack.deps
  BY DEF entry
<1> QED
  BY <1>1, <1>7, <1>8, <1>9, <1>10

\* Publishing a package only grows a registry, and never changes one that is immutable.
LEMMA PublishingGrows ==
  ASSUME NEW reg, RegistryTyped(reg), NEW pack \in Publication, pack.destination \notin Exempt,
         publishable(reg, pack),
         NEW a, a = pack.destination, NEW reg2, reg2 = with_package(reg, pack)
  PROVE  /\ Grown(reg, reg2)
         /\ a \in DOMAIN reg /\ pack.name \in DOMAIN reg[a] =>
              reg[a][pack.name].upgrade_policy < immutable
<1>1. /\ RegistryTyped(reg2) /\ DOMAIN reg2 = DOMAIN reg \cup {a}
      /\ reg2[a][pack.name].upgrade_policy = pack.upgrade_policy
      /\ reg2[a][pack.name].modules = pack.modules
      /\ a \in DOMAIN reg => \A n \in DOMAIN reg[a] :
           n \in DOMAIN reg2[a] /\ (n # pack.name => reg2[a][n] = reg[a][n])
      /\ \A b \in DOMAIN reg : b # a => reg2[b] = reg[b]
  BY WithPackage
<1>2. ASSUME a \in DOMAIN reg, pack.name \in DOMAIN reg[a]
      PROVE  /\ reg[a][pack.name].upgrade_policy < immutable
             /\ reg[a][pack.name].upgrade_policy <= pack.upgrade_policy
             /\ reg[a][pack.name].modules \subseteq pack.modules
  BY <1>2 DEF publishable, packages_at, check_upgradability
<1>3. ASSUME NEW b \in DOMAIN reg, NEW n \in DOMAIN reg[b]
      PROVE  /\ b \in DOMAIN reg2 /\ n \in DOMAIN reg2[b]
             /\ reg[b][n].modules \subseteq reg2[b][n].modules
             /\ reg2[b][n].upgrade_policy >= reg[b][n].upgrade_policy
  <2>1. reg[b][n].upgrade_policy \in Int
    BY DEF RegistryTyped, PackageMetadata, compat, immutable
  <2>2. CASE b = a /\ n = pack.name
    BY <1>1, <1>2, <2>1, <2>2
  <2>3. CASE ~(b = a /\ n = pack.name)
    <3>1. n \in DOMAIN reg2[b] /\ reg2[b][n] = reg[b][n]
      BY <1>1, <2>3
    <3> QED
      BY <1>1, <2>1, <3>1
  <2> QED
    BY <2>2, <2>3
<1>4. Grown(reg, reg2)
  BY <1>1, <1>3 DEF Grown
<1> QED
  BY <1>2, <1>4

\* The dependencies of all packages stay good enough.
LEMMA PublishingDepends ==
  ASSUME NEW reg, RegistryTyped(reg), Dependable(reg), NEW pack \in Publication,
         pack.destination \notin Exempt, publishable(reg, pack),
         NEW reg2, reg2 = with_package(reg, pack)
  PROVE  Dependable(reg2)
<1> DEFINE a == pack.destination
<1>1. /\ RegistryTyped(reg2) /\ DOMAIN reg2 = DOMAIN reg \cup {a}
      /\ \A n \in DOMAIN reg2[a] : n = pack.name \/ (a \in DOMAIN reg /\ n \in DOMAIN reg[a])
      /\ reg2[a][pack.name].upgrade_policy = pack.upgrade_policy
      /\ reg2[a][pack.name].deps = pack.deps
      /\ a \in DOMAIN reg => \A n \in DOMAIN reg[a] :
           n \in DOMAIN reg2[a] /\ (n # pack.name => reg2[a][n] = reg[a][n])
      /\ \A b \in DOMAIN reg : b # a => reg2[b] = reg[b]
  BY WithPackage
<1>2. Grown(reg, reg2)
  BY PublishingGrows
<1>3. ASSUME NEW b \in DOMAIN reg2, NEW n \in DOMAIN reg2[b], NEW dep \in reg2[b][n].deps
      PROVE  check_dependency(reg2, dep, reg2[b][n])
  <2>1. CASE b = a /\ n = pack.name
    <3>1. check_dependency(reg, dep, pack)
      BY <1>1, <2>1 DEF publishable
    <3>2. pack.upgrade_policy \in Int
      BY PublicationAssumption DEF PublicationType, arbitrary, immutable
    <3> QED
      BY <1>1, <1>2, <2>1, <3>1, <3>2, DependencyGrows
  <2>2. CASE ~(b = a /\ n = pack.name)
    <3>1. b \in DOMAIN reg /\ n \in DOMAIN reg[b] /\ reg2[b][n] = reg[b][n]
      BY <1>1, <2>2
    <3>2. check_dependency(reg, dep, reg[b][n])
      BY <3>1 DEF Dependable
    <3>3. reg[b][n].upgrade_policy \in Int
      BY <3>1 DEF RegistryTyped, PackageMetadata, compat, immutable
    <3> QED
      BY <1>1, <1>2, <3>1, <3>2, <3>3, DependencyGrows
  <2> QED
    BY <2>1, <2>2
<1> QED
  BY <1>3 DEF Dependable

\* The modules of the package join those that are owned.
LEMMA PublishingOwns ==
  ASSUME NEW reg, RegistryTyped(reg), NEW D, Owned(reg, D), NEW pack \in Publication,
         pack.destination \notin Exempt, publishable(reg, pack),
         NEW reg2, reg2 = with_package(reg, pack)
  PROVE  Owned(reg2, D \cup ({pack.destination} \X pack.modules))
<1> DEFINE a == pack.destination
           D2 == D \cup ({a} \X pack.modules)
<1>1. /\ RegistryTyped(reg2) /\ DOMAIN reg2 = DOMAIN reg \cup {a}
      /\ pack.name \in DOMAIN reg2[a]
      /\ \A n \in DOMAIN reg2[a] : n = pack.name \/ (a \in DOMAIN reg /\ n \in DOMAIN reg[a])
      /\ reg2[a][pack.name].modules = pack.modules
      /\ a \in DOMAIN reg => \A n \in DOMAIN reg[a] :
           n \in DOMAIN reg2[a] /\ (n # pack.name => reg2[a][n] = reg[a][n])
      /\ \A b \in DOMAIN reg : b # a => reg2[b] = reg[b]
  BY WithPackage
<1>2. Grown(reg, reg2)
  BY PublishingGrows
<1>3. ASSUME NEW i \in D2, i[1] \notin Exempt
      PROVE  /\ i[1] \in DOMAIN reg2
             /\ \E n \in DOMAIN reg2[i[1]] : i[2] \in reg2[i[1]][n].modules
  <2>1. CASE i \in D
    <3>1. i[1] \in DOMAIN reg /\ \E n \in DOMAIN reg[i[1]] : i[2] \in reg[i[1]][n].modules
      BY <1>3, <2>1 DEF Owned
    <3> QED
      BY <1>2, <3>1 DEF Grown
  <2>2. CASE i \in {a} \X pack.modules
    BY <1>1, <2>2
  <2> QED
    BY <1>3, <2>1, <2>2
<1>4. ASSUME NEW n \in DOMAIN reg[a], a \in DOMAIN reg, n # pack.name
      PROVE  reg[a][n].modules \cap pack.modules = {}
  BY <1>4 DEF publishable, packages_at, check_coexistence
<1>5. ASSUME NEW b \in DOMAIN reg2, NEW n \in DOMAIN reg2[b]
      PROVE  /\ {b} \X reg2[b][n].modules \subseteq D2
             /\ \A o \in DOMAIN reg2[b] :
                  n # o => reg2[b][n].modules \cap reg2[b][o].modules = {}
  <2>1. CASE b = a
    <3>1. CASE n = pack.name
      BY <1>1, <1>4, <2>1, <3>1
    <3>2. CASE n # pack.name
      <4>1. a \in DOMAIN reg /\ n \in DOMAIN reg[a] /\ reg2[a][n] = reg[a][n]
        BY <1>1, <2>1, <3>2
      <4>2. {a} \X reg[a][n].modules \subseteq D
        BY <4>1 DEF Owned
      <4>3. ASSUME NEW o \in DOMAIN reg2[a], n # o
            PROVE  reg[a][n].modules \cap reg2[a][o].modules = {}
        BY <1>1, <1>4, <3>2, <4>1, <4>3 DEF Owned
      <4> QED
        BY <2>1, <4>1, <4>2, <4>3
    <3> QED
      BY <3>1, <3>2
  <2>2. CASE b # a
    BY <1>1, <2>2 DEF Owned
  <2> QED
    BY <2>1, <2>2
<1> QED
  BY <1>3, <1>5 DEF Owned

\* The request is one that the VM understands, and allows what the package declares.
LEMMA RequestDeclares ==
  ASSUME NEW reg, RegistryTyped(reg), NEW pack \in Publication, pack.destination \notin Exempt,
         publishable(reg, pack), NEW examined \in BOOLEAN,
         NEW reg2, reg2 = with_package(reg, pack),
         NEW request, request = publish_request(reg, pack, examined)
  PROVE  /\ request \in PublishRequest
         /\ \A i \in request.allowed_deps : Declared(reg2, pack.destination, pack.name, i)
<1> DEFINE a == pack.destination
<1>1. /\ RegistryTyped(reg2) /\ DOMAIN reg2 = DOMAIN reg \cup {a} /\ pack.name \in DOMAIN reg2[a]
      /\ reg2[a][pack.name].modules = pack.modules
      /\ reg2[a][pack.name].deps = pack.deps
  BY WithPackage
<1>2. Grown(reg, reg2)
  BY PublishingGrows
<1>3. /\ a \in Address /\ pack.modules \subseteq ModuleNames
      /\ \A dep \in pack.deps : dep.account \in Address
  BY PublicationAssumption DEF PublicationType, ModuleNames
<1>4. ASSUME NEW dep \in pack.deps,
             NEW i \in IF dep.account \in Exempt THEN {<<dep.account, AnyModule>>}
                       ELSE {dep.account} \X reg[dep.account][dep.package_name].modules
      PROVE  /\ i \in Address \X (ModuleNames \cup {AnyModule})
             /\ Declared(reg2, a, pack.name, i)
  <2>1. CASE dep.account \in Exempt
    BY <1>3, <2>1 DEF Declared
  <2>2. CASE dep.account \notin Exempt
    <3>1. /\ dep.account \in DOMAIN reg
          /\ dep.package_name \in DOMAIN reg[dep.account]
      BY <2>2 DEF publishable, check_dependency
    <3>2. /\ i[1] = dep.account /\ i[2] \in reg[dep.account][dep.package_name].modules
          /\ i = <<i[1], i[2]>>
      BY <2>2
    <3>3. reg[dep.account][dep.package_name].modules \subseteq ModuleNames
      BY <3>1 DEF RegistryTyped, PackageMetadata
    <3>4. /\ dep.account \in DOMAIN reg2
          /\ dep.package_name \in DOMAIN reg2[dep.account]
          /\ i[2] \in reg2[dep.account][dep.package_name].modules
      BY <1>2, <3>1, <3>2 DEF Grown
    <3> QED
      BY <1>1, <1>3, <3>2, <3>3, <3>4 DEF Declared
  <2> QED
    BY <2>1, <2>2
<1>5. ASSUME NEW i \in {a} \X pack.modules
      PROVE  /\ i \in Address \X (ModuleNames \cup {AnyModule})
             /\ Declared(reg2, a, pack.name, i)
  BY <1>1, <1>3 DEF Declared
<1>6. request = [destination |-> a, bundle |-> pack.bundle, expected_modules |-> pack.modules,
                 restricted |-> examined,
                 allowed_deps |-> allowed_deps(reg, pack) \cup ({a} \X pack.modules)]
  BY DEF publish_request
<1>7. ASSUME NEW i \in allowed_deps(reg, pack)
      PROVE  /\ i \in Address \X (ModuleNames \cup {AnyModule})
             /\ Declared(reg2, a, pack.name, i)
  <2>1. PICK dep \in pack.deps :
               i \in IF dep.account \in Exempt THEN {<<dep.account, AnyModule>>}
                     ELSE {dep.account} \X reg[dep.account][dep.package_name].modules
    BY DEF allowed_deps
  <2> QED
    BY <1>4, <2>1
<1>8. \A i \in request.allowed_deps : /\ i \in Address \X (ModuleNames \cup {AnyModule})
                                      /\ Declared(reg2, a, pack.name, i)
  BY <1>5, <1>6, <1>7
<1>9. request \in PublishRequest
  BY <1>3, <1>6, <1>8 DEF PublishRequest
<1> QED
  BY <1>8, <1>9

-----------------------------------------------------------------------------
(* Freezing a code object.                                                  *)

\* Freezing changes policies only, and only those of the object.
LEMMA FreezingGrows ==
  ASSUME NEW reg, RegistryTyped(reg), NEW object \in DOMAIN reg \ Exempt,
         NEW reg2, reg2 = frozen(reg, object)
  PROVE  /\ RegistryTyped(reg2)
         /\ DOMAIN reg2 = DOMAIN reg
         /\ \A a \in DOMAIN reg : DOMAIN reg2[a] = DOMAIN reg[a]
         /\ \A a \in DOMAIN reg : \A n \in DOMAIN reg[a] :
              /\ reg2[a][n].modules = reg[a][n].modules
              /\ reg2[a][n].deps = reg[a][n].deps
         /\ \A a \in DOMAIN reg : a # object => reg2[a] = reg[a]
         /\ Grown(reg, reg2)
<1>1. /\ DOMAIN reg2 = DOMAIN reg
      /\ \A a \in DOMAIN reg : a # object => reg2[a] = reg[a]
      /\ reg2[object] =
           [n \in DOMAIN reg[object] |-> [reg[object][n] EXCEPT !.upgrade_policy = immutable]]
  BY DEF frozen
<1>2. ASSUME NEW a \in DOMAIN reg, NEW n \in DOMAIN reg[a]
      PROVE  /\ reg2[a][n] \in PackageMetadata
             /\ reg2[a][n].modules = reg[a][n].modules
             /\ reg2[a][n].deps = reg[a][n].deps
             /\ reg2[a][n].upgrade_policy >= reg[a][n].upgrade_policy
  <2>1. reg[a][n] \in PackageMetadata
    BY DEF RegistryTyped
  <2>2. CASE a = object
    <3>1. reg2[a][n] = [reg[a][n] EXCEPT !.upgrade_policy = immutable]
      BY <1>1, <2>2
    <3> QED
      BY <2>1, <3>1 DEF PackageMetadata, compat, immutable
  <2>3. CASE a # object
    <3>1. reg2[a][n] = reg[a][n]
      BY <1>1, <2>3
    <3>2. reg[a][n].upgrade_policy \in Int
      BY <2>1 DEF PackageMetadata, compat, immutable
    <3> QED
      BY <2>1, <3>1, <3>2
  <2> QED
    BY <2>2, <2>3
<1>3. \A a \in DOMAIN reg : DOMAIN reg2[a] = DOMAIN reg[a]
  BY <1>1
<1>4. RegistryTyped(reg2)
  BY <1>1, <1>2, <1>3 DEF RegistryTyped
<1>5. Grown(reg, reg2)
  BY <1>1, <1>2, <1>3 DEF Grown
<1> QED
  BY <1>1, <1>2, <1>3, <1>4, <1>5

\* Freezing keeps what depends on the names of the modules alone.
LEMMA FreezingKeeps ==
  ASSUME NEW reg, RegistryTyped(reg), NEW object \in DOMAIN reg \ Exempt,
         NEW reg2, reg2 = frozen(reg, object)
  PROVE  /\ \A D : Owned(reg, D) => Owned(reg2, D)
         /\ \A a \in DOMAIN reg : \A n \in DOMAIN reg[a] :
              /\ \A i : Declared(reg, a, n, i) => Declared(reg2, a, n, i)
              /\ \A cod : ImportsDeclared(reg, cod, a, n) => ImportsDeclared(reg2, cod, a, n)
<1>1. /\ DOMAIN reg2 = DOMAIN reg
      /\ \A a \in DOMAIN reg : DOMAIN reg2[a] = DOMAIN reg[a]
      /\ \A a \in DOMAIN reg : \A n \in DOMAIN reg[a] :
           /\ reg2[a][n].modules = reg[a][n].modules
           /\ reg2[a][n].deps = reg[a][n].deps
      /\ Grown(reg, reg2)
  BY FreezingGrows
<1>2. ASSUME NEW D, Owned(reg, D)
      PROVE  Owned(reg2, D)
  BY <1>1, <1>2 DEF Owned
<1>3. ASSUME NEW a \in DOMAIN reg, NEW n \in DOMAIN reg[a], NEW i, Declared(reg, a, n, i)
      PROVE  Declared(reg2, a, n, i)
  BY <1>1, <1>3, DeclaredGrows
<1>4. ASSUME NEW a \in DOMAIN reg, NEW n \in DOMAIN reg[a], NEW cod,
             ImportsDeclared(reg, cod, a, n)
      PROVE  ImportsDeclared(reg2, cod, a, n)
  BY <1>1, <1>3, <1>4 DEF ImportsDeclared
<1> QED
  BY <1>2, <1>3, <1>4

-----------------------------------------------------------------------------
(* The steps of a session.                                                  *)

LEMMA InvInitially == CodeInit => Inv
<1> SUFFICES ASSUME CodeInit PROVE Inv
  OBVIOUS
<1>1. registry = [a \in Exempt |-> [n \in {} |-> n]]
  BY DEF CodeInit
<1>2. RegistryTyped(registry) /\ Dependable(registry)
  BY <1>1 DEF RegistryTyped, Dependable, Address
<1>3. DOMAIN code = CoreModule /\ session = NoSession /\ code_dependency_check \in BOOLEAN
  BY DEF CodeInit
<1>4. \A i \in DOMAIN code : i[1] \in Exempt
  BY <1>3, AddressAssumption
<1>5. NoWildcard(DOMAIN code)
  BY <1>4 DEF NoWildcard
<1>6. Settled(registry, code)
  BY <1>1, <1>4 DEF Settled, Owned
<1> QED
  BY <1>2, <1>3, <1>5, <1>6 DEF Inv

\* A session starts from what is committed.
LEMMA StartKeepsInv ==
  ASSUME Inv, NEW publisher \in Account, start_transaction(publisher)
  PROVE  Inv'
<1>1. UNCHANGED <<registry, code, code_dependency_check>>
  BY DEF start_transaction
<1>2. session' = [signer |-> publisher, registry |-> registry, code |-> code,
                  enabled |-> TRUE, requested_module_bundle |-> NoRequest]
  BY DEF start_transaction
<1>3. /\ session'.signer = publisher /\ session'.registry = registry /\ session'.code = code
      /\ session'.enabled = TRUE /\ session'.requested_module_bundle = NoRequest
  BY <1>2
<1>4. Grown(registry, registry)
  <2> SUFFICES ASSUME NEW a \in DOMAIN registry, NEW n \in DOMAIN registry[a]
               PROVE  registry[a][n].upgrade_policy >= registry[a][n].upgrade_policy
    BY DEF Grown
  <2>1. registry[a][n].upgrade_policy \in Int
    BY DEF Inv, RegistryTyped, PackageMetadata, compat, immutable
  <2> QED
    BY <2>1
<1>5. ImmutableKept(registry, code, code)
  BY DEF ImmutableKept
<1>6. /\ RegistryTyped(session'.registry) /\ Dependable(session'.registry)
      /\ NoWildcard(DOMAIN session'.code)
      /\ Grown(registry', session'.registry)
      /\ ImmutableKept(registry', code', session'.code)
  BY <1>1, <1>3, <1>4, <1>5 DEF Inv
<1>7. Settled(registry, code)'
  BY <1>1 DEF Inv, Settled, ImportsDeclared
<1>8. Settled(session.registry, session.code)'
  BY <1>1, <1>3, <1>7 DEF Settled
<1>9. SessionInv'
  BY <1>2, <1>3, <1>6, <1>8 DEF SessionInv
<1> QED
  BY <1>1, <1>7, <1>9 DEF Inv

\* publish_package, by whichever function: the request is taken when there was
\* none, so that registry and code agreed until now.
LEMMA PublishKeepsInv ==
  ASSUME Inv, NEW pack \in Publication, pack.destination \notin Exempt, publish_package(pack)
  PROVE  Inv'
<1> DEFINE reg == session.registry
           a == pack.destination
           reg2 == with_package(reg, pack)
           request == publish_request(reg, pack, code_dependency_check)
<1>1. /\ session # NoSession /\ SessionInv /\ UNCHANGED <<registry, code, code_dependency_check>>
      /\ publishable(reg, pack)
      /\ session.requested_module_bundle = NoRequest /\ session.enabled
  BY DEF publish_package, Inv, may_request
<1>2. session' = [session EXCEPT !.registry = reg2, !.requested_module_bundle = request]
  BY DEF publish_package
<1>3. /\ session'.signer = session.signer /\ session'.registry = reg2
      /\ session'.code = session.code /\ session'.enabled = session.enabled
      /\ session'.requested_module_bundle = request
      /\ session' = [signer |-> session'.signer, registry |-> session'.registry,
                     code |-> session'.code, enabled |-> session'.enabled,
                     requested_module_bundle |-> session'.requested_module_bundle]
  BY <1>1, <1>2 DEF SessionInv
<1>4. RegistryTyped(reg) /\ Dependable(reg) /\ Settled(reg, session.code) /\ Grown(registry, reg)
  BY <1>1 DEF SessionInv
<1>5. RegistryTyped(registry) /\ code_dependency_check \in BOOLEAN
  BY DEF Inv
<1>0. reg2 = with_package(reg, pack) /\ a = pack.destination
  OBVIOUS
<1> HIDE DEF reg2, request
<1>6. /\ RegistryTyped(reg2) /\ DOMAIN reg2 = DOMAIN reg \cup {a}
      /\ pack.name \in DOMAIN reg2[a]
      /\ \A n \in DOMAIN reg2[a] : n = pack.name \/ (a \in DOMAIN reg /\ n \in DOMAIN reg[a])
      /\ reg2[a][pack.name].modules = pack.modules
      /\ a \in DOMAIN reg => \A n \in DOMAIN reg[a] :
           n \in DOMAIN reg2[a] /\ (n # pack.name => reg2[a][n] = reg[a][n])
      /\ \A b \in DOMAIN reg : b # a => reg2[b] = reg[b]
  <2>1. a \notin Exempt /\ RegistryTyped(reg) /\ publishable(reg, pack)
    BY <1>1, <1>4
  <2> HIDE DEF a, reg
  <2> QED
    BY <1>0, <2>1, WithPackage
<1>7. /\ Grown(reg, reg2)
      /\ a \in DOMAIN reg /\ pack.name \in DOMAIN reg[a] =>
           reg[a][pack.name].upgrade_policy < immutable
  BY <1>1, <1>4, PublishingGrows DEF reg2
<1>8. Dependable(reg2)
  BY <1>1, <1>4, PublishingDepends DEF reg2
<1>9. Grown(registry, reg2)
  BY <1>4, <1>5, <1>6, <1>7, GrownTransitive
<1>10. /\ request \in PublishRequest
       /\ \A i \in request.allowed_deps : Declared(reg2, a, pack.name, i)
  BY <1>1, <1>4, <1>5, RequestDeclares DEF reg2, request
<1>11. /\ request.destination = a /\ request.expected_modules = pack.modules
       /\ request.restricted = code_dependency_check
  BY DEF request, publish_request
<1>12. Owned(reg, DOMAIN session.code)
  BY <1>4 DEF Settled
<1>13. Owned(reg2, DOMAIN session.code \cup ({a} \X pack.modules))
  BY <1>1, <1>4, <1>12, PublishingOwns DEF reg2
<1>14. ASSUME code_dependency_check, NEW b \in DOMAIN reg2, NEW n \in DOMAIN reg2[b],
              ~(b = a /\ n = pack.name)
       PROVE  ImportsDeclared(reg2, session.code, b, n)
  <2>1. b \in DOMAIN reg /\ n \in DOMAIN reg[b] /\ reg2[b][n] = reg[b][n]
    BY <1>6, <1>14
  <2>2. ImportsDeclared(reg, session.code, b, n)
    BY <1>4, <1>14, <2>1 DEF Settled
  <2> QED
    BY <1>7, <2>1, <2>2, DeclaredGrows DEF ImportsDeclared
<1>15. ASSUME a \in DOMAIN registry, pack.name \in DOMAIN registry[a]
       PROVE  registry[a][pack.name].upgrade_policy # immutable
  <2>1. /\ a \in DOMAIN reg /\ pack.name \in DOMAIN reg[a]
        /\ reg[a][pack.name].upgrade_policy >= registry[a][pack.name].upgrade_policy
    BY <1>4, <1>15 DEF Grown
  <2>2. /\ reg[a][pack.name].upgrade_policy \in Int
        /\ registry[a][pack.name].upgrade_policy \in Int
    BY <1>4, <1>5, <1>15, <2>1 DEF RegistryTyped, PackageMetadata, compat, immutable
  <2> QED
    BY <1>7, <2>1, <2>2 DEF immutable
<1>16. Ahead(reg2, session.code, request, pack.name)
  BY <1>6, <1>10, <1>11, <1>13, <1>14, <1>15 DEF Ahead
<1>17. Ahead(session.registry, session.code, session.requested_module_bundle, pack.name)'
  BY <1>1, <1>3, <1>16 DEF Ahead, ImportsDeclared
<1>18. request # NoRequest
  BY <1>10, AddressAssumption
<1>19. SessionInv'
  BY <1>1, <1>3, <1>6, <1>8, <1>9, <1>17, <1>18 DEF SessionInv
<1>20. Settled(registry, code)'
  BY <1>1 DEF Inv, Settled, ImportsDeclared
<1> QED
  BY <1>1, <1>19, <1>20 DEF Inv

LEMMA FreezeKeepsInv ==
  ASSUME Inv, NEW object \in CodeObject, freeze_code_object(object)
  PROVE  Inv'
<1> DEFINE reg == session.registry
           reg2 == frozen(reg, object)
<1>1. /\ session # NoSession /\ SessionInv /\ UNCHANGED <<registry, code, code_dependency_check>>
      /\ object \in DOMAIN reg \ Exempt
      /\ \A n \in DOMAIN reg2[object] : \A dep \in reg2[object][n].deps :
           check_dependency(reg2, dep, reg2[object][n])
      /\ session' = [session EXCEPT !.registry = reg2]
  BY AddressAssumption DEF freeze_code_object, Inv
<1>2. /\ session'.signer = session.signer /\ session'.registry = reg2
      /\ session'.code = session.code /\ session'.enabled = session.enabled
      /\ session'.requested_module_bundle = session.requested_module_bundle
      /\ session' = [signer |-> session'.signer, registry |-> session'.registry,
                     code |-> session'.code, enabled |-> session'.enabled,
                     requested_module_bundle |-> session'.requested_module_bundle]
  BY <1>1 DEF SessionInv
<1>3. RegistryTyped(reg) /\ Dependable(reg) /\ Grown(registry, reg) /\ RegistryTyped(registry)
  BY <1>1 DEF SessionInv, Inv
<1> HIDE DEF reg2
<1>4. /\ RegistryTyped(reg2) /\ DOMAIN reg2 = DOMAIN reg
      /\ \A a \in DOMAIN reg : DOMAIN reg2[a] = DOMAIN reg[a]
      /\ \A a \in DOMAIN reg : \A n \in DOMAIN reg[a] :
           /\ reg2[a][n].modules = reg[a][n].modules
           /\ reg2[a][n].deps = reg[a][n].deps
      /\ \A a \in DOMAIN reg : a # object => reg2[a] = reg[a]
      /\ Grown(reg, reg2)
  BY <1>1, <1>3, FreezingGrows DEF reg2
<1>5. /\ \A D : Owned(reg, D) => Owned(reg2, D)
      /\ \A a \in DOMAIN reg : \A n \in DOMAIN reg[a] :
           /\ \A i : Declared(reg, a, n, i) => Declared(reg2, a, n, i)
           /\ \A cod : ImportsDeclared(reg, cod, a, n) => ImportsDeclared(reg2, cod, a, n)
  BY <1>1, <1>3, FreezingKeeps DEF reg2
<1>6. Dependable(reg2)
  <2> SUFFICES ASSUME NEW a \in DOMAIN reg2, NEW n \in DOMAIN reg2[a], NEW dep \in reg2[a][n].deps
               PROVE  check_dependency(reg2, dep, reg2[a][n])
    BY DEF Dependable
  <2>1. CASE a = object
    BY <1>1, <2>1 DEF reg2
  <2>2. CASE a # object
    <3>1. reg2[a][n] = reg[a][n] /\ a \in DOMAIN reg /\ n \in DOMAIN reg[a]
      BY <1>4, <2>2
    <3>2. check_dependency(reg, dep, reg[a][n]) /\ reg[a][n].upgrade_policy \in Int
      BY <1>3, <3>1 DEF Dependable, RegistryTyped, PackageMetadata, compat, immutable
    <3> QED
      BY <1>3, <1>4, <3>1, <3>2, DependencyGrows
  <2> QED
    BY <2>1, <2>2
<1>7. Grown(registry, reg2)
  BY <1>3, <1>4, GrownTransitive
<1>8. ASSUME session.requested_module_bundle = NoRequest
      PROVE  Settled(session.registry, session.code)'
  <2>1. Settled(reg, session.code)
    BY <1>1, <1>8 DEF SessionInv
  <2>2. Settled(reg2, session.code)
    BY <1>4, <1>5, <2>1 DEF Settled
  <2> QED
    BY <1>1, <1>2, <2>2 DEF Settled
<1>9. ASSUME session.requested_module_bundle # NoRequest
      PROVE  \E n0 : Ahead(session.registry, session.code, session.requested_module_bundle, n0)'
  <2> DEFINE request == session.requested_module_bundle
  <2>1. PICK n0 : Ahead(reg, session.code, request, n0)
    BY <1>1, <1>9 DEF SessionInv
  <2>2. /\ request.destination \in DOMAIN reg /\ n0 \in DOMAIN reg[request.destination]
        /\ \A i \in request.allowed_deps : Declared(reg, request.destination, n0, i)
    BY <2>1 DEF Ahead
  <2>3. \A i \in request.allowed_deps : Declared(reg2, request.destination, n0, i)
    BY <1>5, <2>2
  <2>4. Owned(reg2, DOMAIN session.code \cup ({request.destination} \X request.expected_modules))
    BY <1>5, <2>1 DEF Ahead
  <2>5. code_dependency_check =>
          \A a \in DOMAIN reg2 : \A n \in DOMAIN reg2[a] :
            (a = request.destination /\ n = n0) \/ ImportsDeclared(reg2, session.code, a, n)
    BY <1>4, <1>5, <2>1 DEF Ahead
  <2>6. Ahead(reg2, session.code, request, n0)
    BY <1>4, <2>1, <2>3, <2>4, <2>5 DEF Ahead
  <2>7. /\ session'.requested_module_bundle = request /\ session'.registry = reg2
        /\ session'.code = session.code
        /\ code_dependency_check' = code_dependency_check /\ registry' = registry
    BY <1>1, <1>2
  <2> HIDE DEF request
  <2>8. Ahead(session.registry, session.code, session.requested_module_bundle, n0)'
    BY <2>6, <2>7 DEF Ahead
  <2> QED
    BY <2>8
<1>10. SessionInv'
  BY <1>1, <1>2, <1>4, <1>6, <1>7, <1>8, <1>9 DEF SessionInv
<1>11. Settled(registry, code)'
  BY <1>1 DEF Inv, Settled, ImportsDeclared
<1> QED
  BY <1>1, <1>10, <1>11 DEF Inv

\* The VM stores what was announced, and nothing imports what is not declared:
\* nothing but the core addresses stands behind the wildcard.
LEMMA StoredImports ==
  ASSUME NEW reg, RegistryTyped(reg), NEW cod, NoWildcard(DOMAIN cod),
         NEW request, NEW n0, Ahead(reg, cod, request, n0), storable(cod, request),
         code_dependency_check, NEW m \in DOMAIN request.bundle, NEW i \in request.bundle[m]
  PROVE  Declared(reg, request.destination, n0, i)
<1> DEFINE a == request.destination
           wild == <<i[1], AnyModule>>
<1>1. i \in request.allowed_deps \/ wild \in request.allowed_deps
  BY DEF storable, Ahead
<1>2. CASE i \in request.allowed_deps
  BY <1>2 DEF Ahead
<1>3. CASE wild \in request.allowed_deps
  <2>1. Declared(reg, a, n0, wild) /\ wild[1] = i[1] /\ wild[2] = AnyModule
    BY <1>3 DEF Ahead
  <2>2. AnyModule \notin request.expected_modules
    <3>1. \A b \in {p.bundle : p \in Publication} : AnyModule \notin DOMAIN b
      BY PublicationAssumption DEF PublicationType
    <3>2. request.bundle \in {p.bundle : p \in Publication}
      BY DEF Ahead, PublishRequest
    <3> QED
      BY <3>1, <3>2 DEF storable
  <2>3. CASE wild[1] \in Exempt
    BY <2>1, <2>3 DEF Declared
  <2>4. CASE wild[1] \notin Exempt
    <3>1. \A b \in DOMAIN reg : \A n \in DOMAIN reg[b] :
            {b} \X reg[b][n].modules \subseteq DOMAIN cod \cup ({a} \X request.expected_modules)
      BY DEF Ahead, Owned
    <3>2. \E n \in DOMAIN reg[i[1]] : i[1] \in DOMAIN reg /\ AnyModule \in reg[i[1]][n].modules
      BY <2>1, <2>4 DEF Declared, Ahead
    <3>3. wild \in DOMAIN cod \cup ({a} \X request.expected_modules)
      BY <3>1, <3>2
    <3>4. wild \in DOMAIN cod
      BY <2>2, <3>3
    <3> QED
      BY <2>1, <2>4, <3>4 DEF NoWildcard
  <2> QED
    BY <2>3, <2>4
<1> QED
  BY <1>1, <1>2, <1>3

LEMMA ExtractKeepsInv ==
  ASSUME Inv, extract_publish_request
  PROVE  Inv'
<1> DEFINE reg == session.registry
           cod == session.code
           request == session.requested_module_bundle
           a == request.destination
           cod2 == with_bundle(cod, request)
<1>1. /\ session # NoSession /\ SessionInv /\ UNCHANGED <<registry, code, code_dependency_check>>
  BY DEF extract_publish_request, Inv
<1>2. Settled(registry, code)'
  BY <1>1 DEF Inv, Settled, ImportsDeclared
<1>3. CASE request = NoRequest
  <2>1. session' = [session EXCEPT !.enabled = FALSE]
    BY <1>3 DEF extract_publish_request
  <2>2. /\ session'.signer = session.signer /\ session'.registry = reg
        /\ session'.code = cod /\ session'.enabled = FALSE
        /\ session'.requested_module_bundle = request
        /\ session' = [signer |-> session'.signer, registry |-> session'.registry,
                       code |-> session'.code, enabled |-> session'.enabled,
                       requested_module_bundle |-> session'.requested_module_bundle]
    BY <1>1, <2>1 DEF SessionInv
  <2>3. Settled(session.registry, session.code)'
    BY <1>1, <1>3, <2>2 DEF SessionInv, Settled
  <2>4. SessionInv'
    BY <1>1, <1>3, <2>2, <2>3 DEF SessionInv
  <2> QED
    BY <1>1, <1>2, <2>4 DEF Inv
<1>4. CASE request # NoRequest
  <2>1. /\ session' = [session EXCEPT !.enabled = FALSE, !.requested_module_bundle = NoRequest,
                                      !.code = cod2]
        /\ storable(cod, request)
    BY <1>4 DEF extract_publish_request
  <2>2. /\ session'.signer = session.signer /\ session'.registry = reg
        /\ session'.code = cod2 /\ session'.enabled = FALSE
        /\ session'.requested_module_bundle = NoRequest
        /\ session' = [signer |-> session'.signer, registry |-> session'.registry,
                       code |-> session'.code, enabled |-> session'.enabled,
                       requested_module_bundle |-> session'.requested_module_bundle]
    BY <1>1, <2>1 DEF SessionInv
  <2>3. PICK n0 : Ahead(reg, cod, request, n0)
    BY <1>1, <1>4 DEF SessionInv
  <2>4. /\ RegistryTyped(reg) /\ Grown(registry, reg) /\ NoWildcard(DOMAIN cod)
        /\ ImmutableKept(registry, code, cod) /\ RegistryTyped(registry)
    BY <1>1 DEF SessionInv, Inv
  <2>5. DOMAIN request.bundle = request.expected_modules
    BY <2>1 DEF storable
  <2>6. /\ DOMAIN cod2 = DOMAIN cod \cup ({a} \X DOMAIN request.bundle)
        /\ \A i \in DOMAIN cod2 :
             cod2[i] = IF i[1] = a /\ i[2] \in DOMAIN request.bundle
                       THEN request.bundle[i[2]] ELSE cod[i]
    BY DEF with_bundle
  <2>7. AnyModule \notin DOMAIN request.bundle
    <3>1. \A b \in {p.bundle : p \in Publication} : AnyModule \notin DOMAIN b
      BY PublicationAssumption DEF PublicationType
    <3>2. request.bundle \in {p.bundle : p \in Publication}
      BY <2>3 DEF Ahead, PublishRequest
    <3> QED
      BY <3>1, <3>2
  <2> HIDE DEF cod2
  <2>8. Owned(reg, DOMAIN cod2)
    BY <2>3, <2>5, <2>6 DEF Ahead
  <2>9. NoWildcard(DOMAIN cod2)
    BY <2>4, <2>6, <2>7 DEF NoWildcard
  \* The bundle has the modules of n0 and of no other package.
  <2>10. ASSUME NEW b \in DOMAIN reg, NEW n \in DOMAIN reg[b], NEW m \in reg[b][n].modules
         PROVE  /\ <<b, m>> \in DOMAIN cod2
                /\ b = a /\ n = n0 => cod2[<<b, m>>] = request.bundle[m] /\ m \in DOMAIN request.bundle
                /\ ~(b = a /\ n = n0) => cod2[<<b, m>>] = cod[<<b, m>>]
    <3>1. <<b, m>> \in DOMAIN cod2 /\ <<b, m>>[1] = b /\ <<b, m>>[2] = m
      BY <2>8 DEF Owned
    <3>2. ASSUME b = a, n = n0
          PROVE  m \in DOMAIN request.bundle
      BY <2>3, <2>5, <3>2 DEF Ahead
    <3>3. ASSUME b = a, n # n0
          PROVE  m \notin DOMAIN request.bundle
      <4>1. /\ n0 \in DOMAIN reg[b] /\ request.expected_modules = reg[b][n0].modules
        BY <2>3, <3>3 DEF Ahead
      <4>2. reg[b][n].modules \cap reg[b][n0].modules = {}
        BY <2>8, <3>3, <4>1 DEF Owned
      <4> QED
        BY <2>5, <4>1, <4>2
    <3> QED
      BY <2>6, <3>1, <3>2, <3>3
  <2>11. ASSUME code_dependency_check, NEW b \in DOMAIN reg, NEW n \in DOMAIN reg[b],
                NEW m \in reg[b][n].modules, NEW i \in cod2[<<b, m>>]
         PROVE  Declared(reg, b, n, i)
    <3>1. CASE b = a /\ n = n0
      <4>1. m \in DOMAIN request.bundle /\ i \in request.bundle[m]
        BY <2>10, <2>11, <3>1
      <4> QED
        BY <2>1, <2>3, <2>4, <2>11, <3>1, <4>1, StoredImports
    <3>2. CASE ~(b = a /\ n = n0)
      <4>1. i \in cod[<<b, m>>]
        BY <2>10, <2>11, <3>2
      <4>2. ImportsDeclared(reg, cod, b, n)
        BY <2>3, <2>11, <3>2 DEF Ahead
      <4> QED
        BY <4>1, <4>2 DEF ImportsDeclared
    <3> QED
      BY <3>1, <3>2
  <2>12. Settled(reg, cod2)
    BY <2>8, <2>11 DEF Settled, ImportsDeclared
  <2>13. ImmutableKept(registry, code, cod2)
    <3> SUFFICES ASSUME NEW b \in DOMAIN registry, NEW n \in DOMAIN registry[b],
                        registry[b][n].upgrade_policy = immutable, NEW m \in registry[b][n].modules
                 PROVE  cod2[<<b, m>>] = code[<<b, m>>]
      BY DEF ImmutableKept
    <3>1. b \in DOMAIN reg /\ n \in DOMAIN reg[b] /\ m \in reg[b][n].modules
      BY <2>4 DEF Grown
    <3>2. ~(b = a /\ n = n0)
      BY <2>3 DEF Ahead
    <3>3. cod2[<<b, m>>] = cod[<<b, m>>]
      BY <2>10, <3>1, <3>2
    <3>4. cod[<<b, m>>] = code[<<b, m>>]
      BY <2>4 DEF ImmutableKept
    <3> QED
      BY <3>3, <3>4
  <2>14. Settled(session.registry, session.code)'
    BY <1>1, <2>2, <2>12 DEF Settled
  <2>15. SessionInv'
    BY <1>1, <2>2, <2>9, <2>13, <2>14 DEF SessionInv
  <2> QED
    BY <1>1, <1>2, <2>15 DEF Inv
<1> QED
  BY <1>3, <1>4

\* What is committed is what the session has settled on.
LEMMA CommitKeepsInv ==
  ASSUME Inv, commit_transaction
  PROVE  Inv'
<1>1. /\ session # NoSession /\ SessionInv /\ ~session.enabled
      /\ registry' = session.registry /\ code' = session.code /\ session' = NoSession
      /\ UNCHANGED code_dependency_check
  BY DEF commit_transaction, Inv
<1>2. Settled(session.registry, session.code)
  BY <1>1 DEF SessionInv
<1>3. Settled(registry, code)'
  BY <1>1, <1>2 DEF Settled
<1> QED
  BY <1>1, <1>3 DEF Inv, SessionInv

LEMMA StepKeepsInv == Inv /\ [CodeNext]_codeVars => Inv'
<1> SUFFICES ASSUME Inv, [CodeNext]_codeVars PROVE Inv'
  OBVIOUS
<1>1. ASSUME NEW publisher \in Account, start_transaction(publisher)
      PROVE  Inv'
  BY <1>1, StartKeepsInv
<1>2. ASSUME NEW pack \in Publication, session # NoSession,
             pack.destination = session.signer, publish_package(pack)
      PROVE  Inv'
  <2>1. pack.destination \in Account
    BY <1>2 DEF Inv, SessionInv
  <2>2. pack.destination \notin Exempt
    BY <2>1, AddressAssumption
  <2> QED
    BY <1>2, <2>2, PublishKeepsInv
<1>3. ASSUME NEW pack \in Publication, publish_to_object(pack) \/ upgrade_object(pack)
      PROVE  Inv'
  <2>1. pack.destination \in CodeObject /\ publish_package(pack)
    BY <1>3 DEF publish_to_object, upgrade_object
  <2>2. pack.destination \notin Exempt
    BY <2>1, AddressAssumption
  <2> QED
    BY <2>1, <2>2, PublishKeepsInv
<1>4. ASSUME NEW object \in CodeObject, freeze_code_object(object)
      PROVE  Inv'
  BY <1>4, FreezeKeepsInv
<1>5. CASE extract_publish_request
  BY <1>5, ExtractKeepsInv
<1>6. CASE commit_transaction
  BY <1>6, CommitKeepsInv
<1>7. CASE abort_transaction
  BY <1>7 DEF abort_transaction, Inv, Settled, ImportsDeclared
<1>8. CASE UNCHANGED codeVars
  <2>1. UNCHANGED <<registry, code, session, code_dependency_check>>
    BY <1>8 DEF codeVars
  <2>2. SessionInv' <=> SessionInv
    BY <2>1 DEF SessionInv, Settled, Ahead, ImportsDeclared
  <2> QED
    BY <2>1, <2>2 DEF Inv, Settled, ImportsDeclared
<1> QED
  BY <1>1, <1>2, <1>3, <1>4, <1>5, <1>6, <1>7, <1>8 DEF CodeNext

-----------------------------------------------------------------------------
(* The registry describes the code and protects it.                         *)

LEMMA MatchesFromInv == Inv => RegistryMatchesModules
<1> SUFFICES ASSUME Inv PROVE RegistryMatchesModules
  OBVIOUS
<1>1. Owned(registry, DOMAIN code)
  BY DEF Inv, Settled
<1>2. \A i \in DOMAIN code : i[1] \in DOMAIN registry \cup Exempt
  BY <1>1 DEF Owned
<1>3. ASSUME NEW a \in DOMAIN registry \ Exempt,
             NEW m \in {i[2] : i \in {j \in DOMAIN code : j[1] = a}}
      PROVE  \E n \in DOMAIN registry[a] : m \in registry[a][n].modules
  BY <1>1 DEF Owned
<1>4. ASSUME NEW a \in DOMAIN registry \ Exempt, NEW n \in DOMAIN registry[a],
             NEW o \in DOMAIN registry[a]
      PROVE  /\ n # o => registry[a][n].modules \cap registry[a][o].modules = {}
             /\ {a} \X registry[a][n].modules \subseteq DOMAIN code
  BY <1>1 DEF Owned
<1> QED
  BY <1>2, <1>3, <1>4 DEF RegistryMatchesModules

LEMMA ProtectionFromInv == Inv => ImportsAreProtected
<1> SUFFICES ASSUME Inv, code_dependency_check,
                    NEW a \in DOMAIN registry \ Exempt, NEW n \in DOMAIN registry[a],
                    NEW m \in registry[a][n].modules, NEW i \in code[<<a, m>>], i[1] \notin Exempt
             PROVE  protects(i[1], i[2], registry[a][n].upgrade_policy)
  BY DEF ImportsAreProtected
<1>1. Declared(registry, a, n, i)
  BY DEF Inv, Settled, ImportsDeclared
<1>2. CASE i[1] = a /\ i[2] \in registry[a][n].modules
  <2>1. registry[a][n].upgrade_policy \in Int
    BY DEF Inv, RegistryTyped, PackageMetadata, compat, immutable
  <2> QED
    BY <1>2, <2>1 DEF protects
<1>3. ASSUME NEW dep \in registry[a][n].deps, dep.account = i[1], i[1] \in DOMAIN registry,
             dep.package_name \in DOMAIN registry[i[1]],
             i[2] \in registry[i[1]][dep.package_name].modules
      PROVE  protects(i[1], i[2], registry[a][n].upgrade_policy)
  <2>1. check_dependency(registry, dep, registry[a][n])
    BY DEF Inv, Dependable
  <2>2. registry[i[1]][dep.package_name].upgrade_policy >= registry[a][n].upgrade_policy
    BY <1>3, <2>1 DEF check_dependency
  <2> QED
    BY <1>3, <2>2 DEF protects
<1> QED
  BY <1>1, <1>2, <1>3 DEF Declared

LEMMA CodeInvariant == CodeSpec => []Inv
  BY InvInitially, StepKeepsInv, PTL DEF CodeSpec

(* Whatever users publish, upgrade and freeze, and wherever their           *)
(* transactions fail, the modules of an address are those of its packages,  *)
(* each of one package (check_coexistence, and the VM that takes requests). *)
THEOREM RegistryMatchesAlways == CodeSpec => []RegistryMatchesModules
  BY MatchesFromInv, CodeInvariant, PTL

(* With the dependency check, what a module imports is on chain and at least*)
(* as hard to change as the module itself (check_dependencies, and the      *)
(* allowed dependencies of native_request_publish).                         *)
THEOREM ImportsAlwaysProtected == CodeSpec => []ImportsAreProtected
  BY ProtectionFromInv, CodeInvariant, PTL

\* The properties of one step, which commits what the session grew to.
LEMMA StepKeepsImmutable ==
  ASSUME Inv, [CodeNext]_codeVars, NEW a \in DOMAIN registry, NEW n \in DOMAIN registry[a]
  PROVE  /\ n \in DOMAIN registry'[a]
         /\ registry'[a][n].upgrade_policy >= registry[a][n].upgrade_policy
         /\ registry[a][n].upgrade_policy = immutable =>
              \A m \in registry[a][n].modules : code'[<<a, m>>] = code[<<a, m>>]
<1>1. CASE commit_transaction
  <2>1. /\ SessionInv /\ registry' = session.registry /\ code' = session.code
    BY <1>1 DEF commit_transaction, Inv
  <2>2. Grown(registry, session.registry) /\ ImmutableKept(registry, code, session.code)
    BY <2>1 DEF SessionInv
  <2> QED
    BY <2>1, <2>2 DEF Grown, ImmutableKept
<1>2. CASE ~commit_transaction
  <2>1. UNCHANGED <<registry, code>>
    BY <1>2 DEF CodeNext, codeVars, start_transaction, publish_package, publish_to_object,
       upgrade_object, freeze_code_object, extract_publish_request, abort_transaction
  <2>2. registry[a][n].upgrade_policy \in Int
    BY DEF Inv, RegistryTyped, PackageMetadata, compat, immutable
  <2> QED
    BY <2>1, <2>2
<1> QED
  BY <1>1, <1>2

(* No package goes back to a weaker upgrade policy, and the modules of an   *)
(* immutable package are never changed or taken over (check_upgradability,  *)
(* check_coexistence), even when a package is frozen with a request pending.*)
THEOREM ImmutableForever == CodeSpec => ImmutableStays
<1> DEFINE Kept ==
      \A a \in DOMAIN registry : \A n \in DOMAIN registry[a] :
        /\ n \in DOMAIN registry'[a]
        /\ registry'[a][n].upgrade_policy >= registry[a][n].upgrade_policy
        /\ registry[a][n].upgrade_policy = immutable =>
             \A m \in registry[a][n].modules : code'[<<a, m>>] = code[<<a, m>>]
<1>1. Inv /\ [CodeNext]_codeVars => Kept
  BY StepKeepsImmutable
<1>2. CodeSpec => [][Kept]_codeVars
  BY <1>1, InvInitially, StepKeepsInv, PTL DEF CodeSpec
<1> QED
  BY <1>2 DEF ImmutableStays

-----------------------------------------------------------------------------
(* The checks of a build (ExtendedChecks).                                  *)

callees(f) == model.funs[f].callees
known_caller(f) == f \in DOMAIN randomness_caller_cache /\ randomness_caller_cache[f]

\* The checker is behind pass k of target i.
behind(i, place) == i < at.module \/ (i = at.module /\ place < at.pass)

Frame == [fun : DOMAIN model.funs, callees : SUBSET (DOMAIN model.funs \cup {RandomnessFun})]

\* Functions wait to be checked in the pass on randomness only.
CheckerTyped ==
  /\ model \in Models
  /\ at \in [module : Nat \ {0}, pass : 1 .. 9] /\ at.module <= Len(model.targets) + 1
  /\ todo \subseteq DOMAIN model.funs
  /\ todo # {} => running /\ at.pass = 6
  /\ DOMAIN randomness_caller_cache \subseteq DOMAIN model.funs
  /\ \A f \in DOMAIN randomness_caller_cache : randomness_caller_cache[f] \in BOOLEAN
  /\ checked \in Seq(Frame)
  /\ DOMAIN output = DOMAIN NoOutput

\* The stack is the way from the function that is checked to a callee, each the
\* next one of that before it; the callees that a frame is done with have been
\* cached, and are no functions of the randomness module.
StackInv ==
  /\ checked # <<>> =>
       /\ todo # {} /\ restricted(first_of(todo))
       /\ checked[1].fun = first_of(todo)
  /\ \A i \in DOMAIN checked :
       /\ checked[i].fun \in DOMAIN randomness_caller_cache
       /\ callees(checked[i].fun) \subseteq checked[i].callees \cup DOMAIN randomness_caller_cache
       /\ RandomnessFun \in callees(checked[i].fun) => RandomnessFun \in checked[i].callees
       /\ checked[i].callees \subseteq callees(checked[i].fun)
       /\ i < Len(checked) =>
            /\ checked[i].callees # {}
            /\ checked[i + 1].fun = first_of(checked[i].callees)

\* What is found, and what is reported, is there.
FoundInv ==
  /\ \A f \in DOMAIN randomness_caller_cache :
       randomness_caller_cache[f] => reaches_randomness(f)
  /\ \A f \in DOMAIN model.funs : <<"randomness", f>> \in diagnostics => reaches_randomness(f)

\* The walk is on its way back with a caller of randomness: the one that the
\* next step asks for.
returning ==
  \/ checked # <<>> /\ top.callees # {} /\ known_caller(first_of(top.callees))
  \/ /\ checked = <<>> /\ todo # {} /\ restricted(first_of(todo))
     /\ known_caller(first_of(todo))

\* No function is known to call randomness, and what the functions call that
\* are cached, and not on the stack, is cached.
nothing_found ==
  \A f \in DOMAIN randomness_caller_cache :
    /\ ~randomness_caller_cache[f]
    /\ \/ \E i \in DOMAIN checked : checked[i].fun = f
       \/ callees(f) \subseteq DOMAIN randomness_caller_cache /\ RandomnessFun \notin callees(f)

unreported == \A f \in DOMAIN model.funs : <<"randomness", f>> \notin diagnostics

\* Until an error about randomness is reported, a caller that was found is being
\* returned; and the functions that must not use randomness are in the cache
\* when they have been checked.
SearchInv ==
  /\ unreported => returning \/ nothing_found
  /\ \A i \in DOMAIN model.targets, f \in DOMAIN model.funs :
       /\ model.targets[i] = model.funs[f].module /\ restricted(f)
       /\ behind(i, 6) \/ (behind(i, 5) /\ f \notin todo)
       => f \in DOMAIN randomness_caller_cache

\* What the passes that are done have reported and recorded
MarkedInv ==
  /\ \A i \in DOMAIN model.targets :
       /\ behind(i, 1) =>
            \A s \in DOMAIN model.structs :
              model.structs[s].module = model.targets[i] /\ get_resource_group(s) # "none"
                => s \in output.group
       /\ behind(i, 5) =>
            \A f \in DOMAIN model.funs : model.funs[f].module = model.targets[i] =>
              /\ model.funs[f].randomness = "malformed" => <<"unbiasable", f>> \in diagnostics
              /\ model.funs[f].randomness \in {"default", "max_gas"} => f \in output.randomness
       /\ behind(i, 7) =>
            /\ \A f \in DOMAIN model.funs : model.funs[f].module = model.targets[i] =>
                 \/ <<"event", f>> \in diagnostics
                 \/ \A s \in model.funs[f].emits :
                      model.structs[s].event /\ model.structs[s].module = model.targets[i]
            /\ \A s \in DOMAIN model.structs :
                 model.structs[s].module = model.targets[i] /\ model.structs[s].event
                   => s \in output.event
  /\ \A s \in output.member : member_recorded(s)

ExtendedInv == CheckerTyped /\ StackInv /\ FoundInv /\ SearchInv /\ MarkedInv
-----------------------------------------------------------------------------
LEMMA LeastPosition ==
  ASSUME NEW S, S \subseteq Nat, S # {}
  PROVE  \E i \in S : \A j \in S : i <= j
<1> DEFINE R == {pair \in Nat \X Nat : pair[1] < pair[2]}
<1>1. IsWellFoundedOn(R, Nat)
  BY NatLessThanWellFounded DEF OpToRel
<1>2. \A i, j \in Nat : j < i => <<j, i>> \in R
  OBVIOUS
<1> HIDE DEF R
<1>3. PICK i \in S : \A j \in S : ~(<<j, i>> \in R)
  BY <1>1, WFMin
<1>4. ASSUME NEW j \in S
      PROVE  i <= j
  <2>1. i \in Nat /\ j \in Nat
    OBVIOUS
  <2>2. j < i => <<j, i>> \in R
    BY <1>2, <2>1
  <2>3. ~(j < i)
    BY <1>3, <2>2
  <2> QED
    BY <2>1, <2>3
<1> QED
  BY <1>4

\* The first of some functions is one of them.
LEMMA FirstOf ==
  ASSUME NEW S, S \subseteq {FunOrder[i] : i \in DOMAIN FunOrder}, S # {}
  PROVE  first_of(S) \in S
<1> DEFINE places == {position(f) : f \in S}
<1>1. \A f \in S : position(f) \in DOMAIN FunOrder
  BY DEF position
<1>2. DOMAIN FunOrder \subseteq Nat
  BY ExtendedChecksConstants
<1>3. places \subseteq Nat /\ places # {}
  BY <1>1, <1>2
<1>4. PICK i \in places : \A j \in places : i <= j
  BY <1>3, LeastPosition
<1>5. \E f \in S : \A g \in S : position(f) <= position(g)
  BY <1>4
<1> QED
  BY <1>5 DEF first_of

\* What the assumption says of the model that is checked.
LEMMA ModelTyped ==
  ASSUME CheckerTyped
  PROVE  /\ DOMAIN model.targets = 1 .. Len(model.targets) /\ Len(model.targets) \in Nat
         /\ DOMAIN model.funs \cup {RandomnessFun} \subseteq {FunOrder[i] : i \in DOMAIN FunOrder}
         /\ \A f \in DOMAIN model.funs :
              /\ callees(f) \subseteq DOMAIN model.funs \cup {RandomnessFun}
              /\ model.funs[f].emits \subseteq DOMAIN model.structs
              /\ model.funs[f].randomness \in {"absent", "malformed", "default", "max_gas"}
<1>1. model \in Models
  BY DEF CheckerTyped
<1>2. model.targets \in Seq(DOMAIN model.address)
  BY <1>1, ExtendedChecksConstants
<1>3. DOMAIN model.targets = 1 .. Len(model.targets) /\ Len(model.targets) \in Nat
  BY <1>2
<1>4. /\ DOMAIN model.funs \cup {RandomnessFun} \subseteq {FunOrder[i] : i \in DOMAIN FunOrder}
      /\ \A f \in DOMAIN model.funs :
           /\ model.funs[f].callees \subseteq DOMAIN model.funs \cup {RandomnessFun}
           /\ model.funs[f].emits \subseteq DOMAIN model.structs
           /\ model.funs[f].randomness \in {"absent", "malformed", "default", "max_gas"}
  BY <1>1, ExtendedChecksConstants, ZenonT(30)
<1> QED
  BY <1>3, <1>4 DEF callees

LEMMA PassNames ==
  /\ Len(Passes) = 9
  /\ Passes[1] = "resource_groups" /\ Passes[2] = "resource_group_members"
  /\ Passes[3] = "view_functions" /\ Passes[4] = "entry_functions"
  /\ Passes[5] = "unbiasable" /\ Passes[6] = "randomness" /\ Passes[7] = "events"
  /\ Passes[8] = "init_module" /\ Passes[9] = "error_map"
  /\ \A place \in 1 .. 9 : Passes[place] = "randomness" => place = 6
  BY DEF Passes

\* The pass that the checker is at is behind it when it goes on.
LEMMA PassIsBehind ==
  ASSUME CheckerTyped, running, next_pass
  PROVE  /\ at' \in [module : Nat \ {0}, pass : 1 .. 9]
         /\ at'.module <= Len(model.targets) + 1
         /\ \A i \in Int, place \in 1 .. 9 :
              behind(i, place)' <=> behind(i, place) \/ (i = at.module /\ place = at.pass)
<1>1. /\ at \in [module : Nat \ {0}, pass : 1 .. 9] /\ at.module <= Len(model.targets)
      /\ Len(model.targets) \in Nat
  BY ModelTyped DEF CheckerTyped, running
<1>2. CASE at.pass < 9
  <2>1. at' = [at EXCEPT !.pass = @ + 1]
    BY <1>2, PassNames DEF next_pass
  <2>2. /\ at'.module = at.module /\ at'.pass = at.pass + 1
        /\ at' \in [module : Nat \ {0}, pass : 1 .. 9]
    BY <1>1, <1>2, <2>1
  <2>3. \A i \in Int, place \in 1 .. 9 :
          behind(i, place)' <=> behind(i, place) \/ (i = at.module /\ place = at.pass)
    <3>1. at.pass \in Int /\ at.module \in Int
      BY <1>1
    <3> QED
      BY <2>2, <3>1 DEF behind
  <2> QED
    BY <1>1, <2>2, <2>3
<1>3. CASE at.pass = 9
  <2>1. at' = [module |-> at.module + 1, pass |-> 1]
    BY <1>1, <1>3, PassNames DEF next_pass
  <2> QED
    BY <1>1, <1>3, <2>1 DEF behind
<1> QED
  BY <1>1, <1>2, <1>3

LEMMA ChecksInitially == ExtendedInit => ExtendedInv
<1> SUFFICES ASSUME ExtendedInit PROVE ExtendedInv
  OBVIOUS
<1>1. /\ model \in Models /\ at = [module |-> 1, pass |-> 1] /\ todo = {} /\ checked = <<>>
      /\ randomness_caller_cache = <<>> /\ diagnostics = {} /\ output = NoOutput
  BY DEF ExtendedInit, CheckerStart
<1>2. DOMAIN randomness_caller_cache = {} /\ DOMAIN checked = {} /\ checked \in Seq(Frame)
  BY <1>1
<1>3. CheckerTyped
  <2>1. model.targets \in Seq(DOMAIN model.address)
    BY <1>1, ExtendedChecksConstants
  <2>2. Len(model.targets) \in Nat
    BY <2>1
  <2> QED
    BY <1>1, <1>2, <2>2 DEF CheckerTyped
<1>4. \A i \in DOMAIN model.targets : i \in Nat /\ i >= 1
  BY <1>3, ModelTyped
<1>5. \A i \in DOMAIN model.targets : \A place \in 1 .. 9 : ~ behind(i, place)
  BY <1>1, <1>4 DEF behind
<1>6. StackInv /\ FoundInv
  BY <1>1, <1>2 DEF StackInv, FoundInv
<1>7. SearchInv
  BY <1>2, <1>5 DEF SearchInv, nothing_found
<1>8. MarkedInv
  BY <1>1, <1>5 DEF MarkedInv, NoOutput
<1> QED
  BY <1>3, <1>6, <1>7, <1>8 DEF ExtendedInv

\* A step of the walk leaves what the passes have reported and recorded.
LEMMA MarkedStays ==
  ASSUME MarkedInv, UNCHANGED <<model, at, output>>, diagnostics \subseteq diagnostics'
  PROVE  MarkedInv'
<1>1. \A i \in DOMAIN model.targets, place \in 1 .. 9 : behind(i, place)' <=> behind(i, place)
  BY DEF behind
<1>2. \A s \in DOMAIN model.structs : get_resource_group(s)' = get_resource_group(s)
  BY DEF get_resource_group, bad_container
<1>3. \A s : member_recorded(s) => member_recorded(s)'
  BY DEF member_recorded, get_resource_group, bad_container, are_equal_envs
<1>4. \A s \in output'.member : member_recorded(s)'
  BY <1>3 DEF MarkedInv
<1>5. /\ 1 \in 1 .. 9 /\ 5 \in 1 .. 9 /\ 7 \in 1 .. 9
      /\ model' = model /\ output' = output
  OBVIOUS
<1> QED
  BY <1>1, <1>2, <1>4, <1>5 DEF MarkedInv

\* The functions that have been checked stay cached.
LEMMA CachedStays ==
  ASSUME SearchInv, UNCHANGED <<model, at, todo>>,
         DOMAIN randomness_caller_cache \subseteq DOMAIN randomness_caller_cache'
  PROVE  \A i \in DOMAIN model'.targets, f \in DOMAIN model'.funs :
           /\ model'.targets[i] = model'.funs[f].module /\ restricted(f)'
           /\ behind(i, 6)' \/ (behind(i, 5)' /\ f \notin todo')
           => f \in DOMAIN randomness_caller_cache'
  BY DEF SearchInv, behind, restricted, is_public, is_entry, is_framework_function

LEMMA FoundStays ==
  ASSUME FoundInv, UNCHANGED model,
         \A f \in DOMAIN randomness_caller_cache' :
           randomness_caller_cache'[f] =>
             reaches_randomness(f) \/ known_caller(f),
         \A f \in DOMAIN model.funs :
           <<"randomness", f>> \in diagnostics' =>
             reaches_randomness(f) \/ <<"randomness", f>> \in diagnostics
  PROVE  FoundInv'
  BY DEF FoundInv, known_caller, reaches_randomness, closed

\* A function that is not in the cache gets a frame of its own.
LEMMA EnterKeepsChecks ==
  ASSUME ExtendedInv, NEW g \in DOMAIN model.funs, g \notin DOMAIN randomness_caller_cache,
         enter(g), UNCHANGED <<model, at, todo, diagnostics, output>>, todo # {},
         checked = <<>> => restricted(first_of(todo)) /\ g = first_of(todo),
         checked # <<>> => top.callees # {} /\ g = first_of(top.callees)
  PROVE  ExtendedInv'
<1> DEFINE D == DOMAIN randomness_caller_cache
           n == Len(checked)
<1>1. CheckerTyped /\ StackInv /\ FoundInv /\ SearchInv /\ MarkedInv
  BY DEF ExtendedInv
<1>2. /\ DOMAIN randomness_caller_cache' = D \cup {g} /\ randomness_caller_cache'[g] = FALSE
      /\ \A f \in D : randomness_caller_cache'[f] = randomness_caller_cache[f]
  BY DEF enter, cache
<1>3. checked \in Seq(Frame) /\ n \in Nat /\ DOMAIN checked = 1 .. n
  BY <1>1 DEF CheckerTyped
<1>4. frame(g) \in Frame /\ frame(g).fun = g /\ frame(g).callees = callees(g)
  BY <1>1, ModelTyped DEF frame, Frame, callees
<1>5. /\ checked' \in Seq(Frame) /\ Len(checked') = n + 1 /\ DOMAIN checked' = 1 .. n + 1
      /\ checked'[n + 1] = frame(g) /\ \A i \in 1 .. n : checked'[i] = checked[i]
      /\ checked' # <<>>
  BY <1>3, <1>4 DEF enter
<1>6. CheckerTyped'
  <2>1. Frame' = Frame
    BY DEF Frame
  <2> QED
    BY <1>1, <1>2, <1>5, <2>1 DEF CheckerTyped, running
<1>7. StackInv'
  <2>1. todo' # {} /\ restricted(first_of(todo))' /\ checked'[1].fun = first_of(todo')
    <3>1. restricted(first_of(todo))
      BY <1>1 DEF StackInv
    <3>2. restricted(first_of(todo))' <=> restricted(first_of(todo))
      BY DEF restricted, is_public, is_entry, is_framework_function, first_of, position
    <3>3. CASE checked = <<>>
      <4>1. n = 0
        BY <3>3
      <4> QED
        BY <1>4, <1>5, <3>1, <3>2, <3>3, <4>1
    <3>4. CASE checked # <<>>
      <4>1. n >= 1
        BY <1>3, <3>4
      <4>2. checked'[1] = checked[1]
        BY <1>3, <1>5, <4>1
      <4> QED
        BY <1>1, <3>1, <3>2, <3>4, <4>2 DEF StackInv
    <3> QED
      BY <3>3, <3>4
  <2>2. ASSUME NEW i \in DOMAIN checked'
        PROVE  /\ checked'[i].fun \in DOMAIN randomness_caller_cache'
               /\ callees(checked'[i].fun) \subseteq
                    checked'[i].callees \cup DOMAIN randomness_caller_cache'
               /\ RandomnessFun \in callees(checked'[i].fun) => RandomnessFun \in checked'[i].callees
               /\ checked'[i].callees \subseteq callees(checked'[i].fun)
               /\ i < Len(checked') =>
                    /\ checked'[i].callees # {}
                    /\ checked'[i + 1].fun = first_of(checked'[i].callees)
    <3>1. CASE i = n + 1
      BY <1>2, <1>3, <1>4, <1>5, <3>1
    <3>2. CASE i \in 1 .. n
      <4>1. checked'[i] = checked[i] /\ i \in DOMAIN checked /\ checked # <<>>
        BY <1>3, <1>5, <3>2
      <4>2. /\ checked[i].fun \in D /\ callees(checked[i].fun) \subseteq checked[i].callees \cup D
            /\ RandomnessFun \in callees(checked[i].fun) => RandomnessFun \in checked[i].callees
            /\ checked[i].callees \subseteq callees(checked[i].fun)
            /\ i < n => /\ checked[i].callees # {}
                        /\ checked[i + 1].fun = first_of(checked[i].callees)
        BY <1>1, <4>1 DEF StackInv
      <4>3. CASE i < n
        <5>1. checked'[i + 1] = checked[i + 1]
          BY <1>3, <1>5, <3>2, <4>3
        <5> QED
          BY <1>2, <4>1, <4>2, <4>3, <5>1
      <4>4. CASE i = n
        <5>1. checked[i] = top
          BY <4>4 DEF top
        <5> QED
          BY <1>2, <1>4, <1>5, <4>1, <4>2, <4>4, <5>1
      <4> QED
        BY <1>3, <3>2, <4>3, <4>4
    <3> QED
      BY <1>3, <1>5, <3>1, <3>2
  <2> QED
    BY <2>1, <2>2 DEF StackInv, callees, first_of, position
<1>8. FoundInv'
  BY <1>1, <1>2, FoundStays DEF known_caller
<1>9. SearchInv'
  <2>1. ~ returning
    BY DEF returning, known_caller
  <2>2. ASSUME unreported', NEW f \in DOMAIN randomness_caller_cache'
        PROVE  /\ ~randomness_caller_cache'[f]
               /\ \/ \E i \in DOMAIN checked' : checked'[i].fun = f
                  \/ callees(f) \subseteq DOMAIN randomness_caller_cache' /\ RandomnessFun \notin callees(f)
    <3>1. nothing_found
      BY <1>1, <2>1, <2>2 DEF SearchInv, unreported
    <3>2. CASE f = g
      BY <1>2, <1>3, <1>4, <1>5, <3>2
    <3>3. CASE f \in D
      <4>1. CASE \E i \in DOMAIN checked : checked[i].fun = f
        BY <1>2, <1>3, <1>5, <3>1, <3>3, <4>1 DEF nothing_found
      <4>2. CASE callees(f) \subseteq D /\ RandomnessFun \notin callees(f)
        BY <1>2, <3>1, <3>3, <4>2 DEF nothing_found
      <4> QED
        BY <3>1, <3>3, <4>1, <4>2 DEF nothing_found
    <3> QED
      BY <1>2, <3>2, <3>3
  <2>3. unreported' => nothing_found'
    BY <2>2 DEF nothing_found, callees
  <2> QED
    BY <1>1, <1>2, <2>3, CachedStays DEF SearchInv
<1>10. MarkedInv'
  BY <1>1, MarkedStays
<1> QED
  BY <1>6, <1>7, <1>8, <1>9, <1>10 DEF ExtendedInv

LEMMA CheckKeepsChecks == ASSUME ExtendedInv, check_function PROVE ExtendedInv'
<1>1. CheckerTyped
  BY DEF ExtendedInv
<1>2. todo # {} /\ todo \subseteq {FunOrder[i] : i \in DOMAIN FunOrder}
  BY <1>1, ModelTyped DEF check_function, CheckerTyped
<1>3. first_of(todo) \in DOMAIN model.funs
  BY <1>1, <1>2, FirstOf DEF CheckerTyped
<1> QED
  BY <1>2, <1>3, EnterKeepsChecks DEF check_function

\* The next callee of the frame on top is one of its callees.
LEMMA NextCallee ==
  ASSUME CheckerTyped, StackInv, checked # <<>>
  PROVE  /\ checked \in Seq(Frame) /\ Len(checked) \in Nat \ {0}
         /\ DOMAIN checked = 1 .. Len(checked)
         /\ top = checked[Len(checked)] /\ top \in Frame
         /\ top.fun \in DOMAIN model.funs /\ top.fun \in DOMAIN randomness_caller_cache
         /\ top.callees \subseteq callees(top.fun)
         /\ top.callees # {} => first_of(top.callees) \in top.callees
<1>1. checked \in Seq(Frame) /\ Len(checked) \in Nat \ {0} /\ DOMAIN checked = 1 .. Len(checked)
  BY DEF CheckerTyped
<1>2. Len(checked) \in DOMAIN checked
  BY <1>1
<1>3. top = checked[Len(checked)] /\ top \in Frame
  BY <1>1, <1>2 DEF top
<1>4. /\ top.fun \in DOMAIN model.funs
      /\ top.callees \subseteq DOMAIN model.funs \cup {RandomnessFun}
  BY <1>3 DEF Frame
<1>5. top.fun \in DOMAIN randomness_caller_cache /\ top.callees \subseteq callees(top.fun)
  BY <1>2, <1>3 DEF StackInv
<1>6. DOMAIN model.funs \cup {RandomnessFun} \subseteq {FunOrder[i] : i \in DOMAIN FunOrder}
  BY ModelTyped
<1>7. top.callees # {} => first_of(top.callees) \in top.callees
  BY <1>4, <1>6, FirstOf
<1> QED
  BY <1>1, <1>3, <1>4, <1>5, <1>7

\* A callee that does not call randomness is done with.
LEMMA SkipKeepsChecks ==
  ASSUME ExtendedInv, checked # <<>>, top.callees # {}, NEW g, g = first_of(top.callees),
         g # RandomnessFun, g \in DOMAIN randomness_caller_cache, ~randomness_caller_cache[g],
         checked' = Append(popped, [top EXCEPT !.callees = @ \ {g}]),
         UNCHANGED <<model, at, todo, randomness_caller_cache, diagnostics, output>>
  PROVE  ExtendedInv'
<1> DEFINE D == DOMAIN randomness_caller_cache
           n == Len(checked)
           rest == [top EXCEPT !.callees = @ \ {g}]
<1>1. CheckerTyped /\ StackInv /\ FoundInv /\ SearchInv /\ MarkedInv
  BY DEF ExtendedInv
<1>2. /\ checked \in Seq(Frame) /\ n \in Nat \ {0} /\ DOMAIN checked = 1 .. n
      /\ top = checked[n] /\ top \in Frame
  BY <1>1, NextCallee
<1>3. rest \in Frame /\ rest.fun = top.fun /\ rest.callees = top.callees \ {g}
  BY <1>2 DEF Frame
<1>4. popped \in Seq(Frame) /\ Len(popped) = n - 1 /\ \A i \in 1 .. n - 1 : popped[i] = checked[i]
  BY <1>2 DEF popped
<1>5. /\ checked' \in Seq(Frame) /\ Len(checked') = n /\ DOMAIN checked' = 1 .. n
      /\ checked'[n] = rest /\ \A i \in 1 .. n - 1 : checked'[i] = checked[i]
      /\ checked' # <<>>
  <2> HIDE DEF rest, n
  <2>1. checked' = Append(popped, rest)
    BY DEF rest
  <2>2. /\ checked' \in Seq(Frame) /\ Len(checked') = Len(popped) + 1
        /\ checked'[Len(popped) + 1] = rest
        /\ \A i \in 1 .. Len(popped) : checked'[i] = popped[i]
    BY <1>3, <1>4, <2>1
  <2>3. Len(popped) = n - 1 /\ Len(popped) + 1 = n
    BY <1>2, <1>4
  <2>4. Len(checked') = n /\ checked'[n] = rest /\ \A i \in 1 .. n - 1 : checked'[i] = popped[i]
    BY <2>2, <2>3
  <2>5. DOMAIN checked' = 1 .. n
    BY <2>2, <2>4
  <2>6. checked' # <<>>
    BY <1>2, <2>4
  <2> QED
    BY <1>4, <2>2, <2>4, <2>5, <2>6
<1> HIDE DEF rest, n
<1>6. ASSUME NEW i \in 1 .. n
      PROVE  checked'[i].fun = checked[i].fun
  <2>1. i = n \/ i \in 1 .. n - 1
    BY <1>2
  <2> QED
    BY <1>2, <1>3, <1>5, <2>1
<1>7. CheckerTyped'
  <2>1. Frame' = Frame
    BY DEF Frame
  <2> QED
    BY <1>1, <1>5, <2>1 DEF CheckerTyped, running
<1>8. StackInv'
  <2>1. todo' # {} /\ restricted(first_of(todo))' /\ checked'[1].fun = first_of(todo')
    <3>1. todo # {} /\ restricted(first_of(todo)) /\ checked[1].fun = first_of(todo)
      BY <1>1 DEF StackInv
    <3>2. restricted(first_of(todo))' <=> restricted(first_of(todo))
      BY DEF restricted, is_public, is_entry, is_framework_function, first_of, position
    <3> QED
      BY <1>2, <1>6, <3>1, <3>2
  <2>2. ASSUME NEW i \in DOMAIN checked'
        PROVE  /\ checked'[i].fun \in D
               /\ callees(checked'[i].fun) \subseteq checked'[i].callees \cup D
               /\ RandomnessFun \in callees(checked'[i].fun) => RandomnessFun \in checked'[i].callees
               /\ checked'[i].callees \subseteq callees(checked'[i].fun)
               /\ i < Len(checked') =>
                    /\ checked'[i].callees # {}
                    /\ checked'[i + 1].fun = first_of(checked'[i].callees)
    <3>1. /\ checked[i].fun \in D /\ callees(checked[i].fun) \subseteq checked[i].callees \cup D
          /\ RandomnessFun \in callees(checked[i].fun) => RandomnessFun \in checked[i].callees
          /\ checked[i].callees \subseteq callees(checked[i].fun)
          /\ i < n => /\ checked[i].callees # {}
                      /\ checked[i + 1].fun = first_of(checked[i].callees)
      BY <1>1, <1>2, <1>5 DEF StackInv
    <3>2. CASE i = n
      <4>1. checked'[i] = rest /\ checked[i] = top /\ ~ i < Len(checked')
        BY <1>2, <1>5, <3>2
      <4>2. g \in D
        OBVIOUS
      <4> QED
        BY <1>3, <3>1, <4>1, <4>2
    <3>3. CASE i \in 1 .. n - 1
      <4>1. i + 1 \in 1 .. n /\ i < n
        BY <1>2, <3>3
      <4>2. checked'[i] = checked[i] /\ checked'[i + 1].fun = checked[i + 1].fun
        BY <1>5, <1>6, <3>3, <4>1
      <4> QED
        BY <3>1, <4>1, <4>2
    <3>4. i = n \/ i \in 1 .. n - 1
      BY <1>2, <1>5
    <3> QED
      BY <3>2, <3>3, <3>4
  <2> QED
    BY <1>5, <2>1, <2>2 DEF StackInv, callees, first_of, position
<1>9. FoundInv'
  BY <1>1, FoundStays DEF known_caller
<1>10. SearchInv'
  <2>1. ~ returning
    BY DEF returning, known_caller
  <2>2. unreported' => nothing_found
    BY <1>1, <2>1 DEF SearchInv, unreported
  <2>3. ASSUME nothing_found PROVE nothing_found'
    <3>1. ASSUME NEW f \in D, \E i \in DOMAIN checked : checked[i].fun = f
          PROVE  \E i \in DOMAIN checked' : checked'[i].fun = f
      <4>1. PICK i \in DOMAIN checked : checked[i].fun = f
        BY <3>1
      <4>2. i \in DOMAIN checked' /\ checked'[i].fun = f
        BY <1>2, <1>5, <1>6, <4>1
      <4> QED
        BY <4>2
    <3> QED
      BY <2>3, <3>1 DEF nothing_found, callees
  <2> QED
    BY <1>1, <2>2, <2>3, CachedStays DEF SearchInv
<1>11. MarkedInv'
  BY <1>1, MarkedStays
<1> QED
  BY <1>7, <1>8, <1>9, <1>10, <1>11 DEF ExtendedInv

LEMMA CalleeKeepsChecks == ASSUME ExtendedInv, next_callee PROVE ExtendedInv'
<1> DEFINE g == first_of(top.callees)
<1>1. /\ checked # <<>> /\ top.callees # {} /\ g # RandomnessFun
      /\ UNCHANGED <<model, at, todo, diagnostics, output>>
      /\ \/ g \notin DOMAIN randomness_caller_cache /\ enter(g)
         \/ /\ g \in DOMAIN randomness_caller_cache /\ ~randomness_caller_cache[g]
            /\ checked' = Append(popped, [top EXCEPT !.callees = @ \ {g}])
            /\ UNCHANGED randomness_caller_cache
  BY DEF next_callee
<1>2. CheckerTyped /\ StackInv
  BY DEF ExtendedInv
<1>3. g \in DOMAIN model.funs
  BY <1>1, <1>2, NextCallee, ModelTyped
<1>4. todo # {}
  BY <1>1, <1>2 DEF StackInv
<1>5. CASE g \notin DOMAIN randomness_caller_cache /\ enter(g)
  BY <1>1, <1>3, <1>4, <1>5, EnterKeepsChecks
<1>6. CASE /\ g \in DOMAIN randomness_caller_cache /\ ~randomness_caller_cache[g]
           /\ checked' = Append(popped, [top EXCEPT !.callees = @ \ {g}])
           /\ UNCHANGED randomness_caller_cache
  BY <1>1, <1>6, SkipKeepsChecks
<1> QED
  BY <1>1, <1>5, <1>6

\* A frame is left: what the stack is without it, whatever the cache learns of its
\* function.
LEMMA PopKeepsStack ==
  ASSUME CheckerTyped, StackInv, checked # <<>>, checked' = popped,
         UNCHANGED <<model, todo>>,
         DOMAIN randomness_caller_cache' = DOMAIN randomness_caller_cache
  PROVE  /\ StackInv'
         /\ checked' \in Seq(Frame) /\ Len(checked') = Len(checked) - 1
         /\ DOMAIN checked' = 1 .. Len(checked) - 1
         /\ \A i \in 1 .. Len(checked) - 1 : checked'[i] = checked[i]
         /\ checked' # <<>> => top'.callees # {} /\ top.fun = first_of(top'.callees)
         /\ checked' = <<>> => todo # {} /\ restricted(first_of(todo)) /\ top.fun = first_of(todo)
<1> DEFINE D == DOMAIN randomness_caller_cache
           n == Len(checked)
<1>1. /\ checked \in Seq(Frame) /\ n \in Nat \ {0} /\ DOMAIN checked = 1 .. n
      /\ top = checked[n]
  BY NextCallee
<1>2. /\ checked' \in Seq(Frame) /\ Len(checked') = n - 1 /\ DOMAIN checked' = 1 .. n - 1
      /\ \A i \in 1 .. n - 1 : checked'[i] = checked[i]
  BY <1>1 DEF popped
<1>3. /\ todo # {} /\ restricted(first_of(todo)) /\ checked[1].fun = first_of(todo)
      /\ \A i \in 1 .. n :
           /\ checked[i].fun \in D
           /\ callees(checked[i].fun) \subseteq checked[i].callees \cup D
           /\ RandomnessFun \in callees(checked[i].fun) => RandomnessFun \in checked[i].callees
           /\ checked[i].callees \subseteq callees(checked[i].fun)
           /\ i < n => /\ checked[i].callees # {}
                       /\ checked[i + 1].fun = first_of(checked[i].callees)
  BY <1>1 DEF StackInv
<1>4. restricted(first_of(todo))' <=> restricted(first_of(todo))
  BY DEF restricted, is_public, is_entry, is_framework_function, first_of, position
<1>5. checked' # <<>> => n - 1 \in 1 .. n - 1 /\ 1 \in 1 .. n - 1
  BY <1>1, <1>2
<1>6. checked' # <<>> => checked'[1].fun = first_of(todo)
  BY <1>2, <1>3, <1>5
<1>7. ASSUME NEW i \in 1 .. n - 1
      PROVE  /\ checked'[i].fun \in D
             /\ callees(checked'[i].fun) \subseteq checked'[i].callees \cup D
             /\ RandomnessFun \in callees(checked'[i].fun) => RandomnessFun \in checked'[i].callees
             /\ checked'[i].callees \subseteq callees(checked'[i].fun)
             /\ i < n - 1 => /\ checked'[i].callees # {}
                             /\ checked'[i + 1].fun = first_of(checked'[i].callees)
  <2>1. i \in 1 .. n /\ i < n /\ checked'[i] = checked[i]
    BY <1>1, <1>2
  <2>2. i < n - 1 => checked'[i + 1] = checked[i + 1]
    BY <1>1, <1>2
  <2> QED
    BY <1>3, <2>1, <2>2
<1>8. StackInv'
  <2>1. checked' # <<>> =>
          todo' # {} /\ restricted(first_of(todo))' /\ checked'[1].fun = first_of(todo')
    BY <1>3, <1>4, <1>6
  <2>2. ASSUME NEW i \in DOMAIN checked'
        PROVE  /\ checked'[i].fun \in DOMAIN randomness_caller_cache'
               /\ callees(checked'[i].fun) \subseteq
                    checked'[i].callees \cup DOMAIN randomness_caller_cache'
               /\ RandomnessFun \in callees(checked'[i].fun) => RandomnessFun \in checked'[i].callees
               /\ checked'[i].callees \subseteq callees(checked'[i].fun)
               /\ i < Len(checked') =>
                    /\ checked'[i].callees # {}
                    /\ checked'[i + 1].fun = first_of(checked'[i].callees)
    <3>1. i \in 1 .. n - 1 /\ Len(checked') = n - 1
      BY <1>2
    <3> HIDE DEF n
    <3> QED
      BY <1>7, <3>1
  <2> QED
    BY <2>1, <2>2 DEF StackInv, callees, first_of, position
<1>9. ASSUME checked' # <<>>
      PROVE  top'.callees # {} /\ top.fun = first_of(top'.callees)
  <2>1. n - 1 \in 1 .. n /\ n - 1 < n /\ top' = checked[n - 1]
    BY <1>1, <1>2, <1>5, <1>9 DEF top
  <2>2. top'.callees # {} /\ checked[n - 1 + 1].fun = first_of(top'.callees)
    BY <1>3, <2>1
  <2>3. n - 1 + 1 = n
    BY <1>1
  <2> QED
    BY <1>1, <2>2, <2>3
<1>10. ASSUME checked' = <<>>
       PROVE  top.fun = first_of(todo)
  <2>1. Len(checked') = 0
    BY <1>10
  <2>2. n \in Nat /\ Len(checked') = n - 1
    BY <1>1, <1>2
  <2> HIDE DEF n
  <2>3. n = 1
    BY <2>1, <2>2
  <2> QED
    BY <1>1, <1>3, <2>3
<1> QED
  BY <1>2, <1>3, <1>8, <1>9, <1>10

LEMMA TrueKeepsChecks == ASSUME ExtendedInv, return_true PROVE ExtendedInv'
<1> DEFINE D == DOMAIN randomness_caller_cache
           g == first_of(top.callees)
<1>1. /\ checked # <<>> /\ top.callees # {}
      /\ g = RandomnessFun \/ known_caller(g)
      /\ randomness_caller_cache' = cache(top.fun, TRUE) /\ checked' = popped
      /\ UNCHANGED <<model, at, todo, diagnostics, output>>
  BY DEF return_true, known_caller, found
<1>2. CheckerTyped /\ StackInv /\ FoundInv /\ SearchInv /\ MarkedInv
  BY DEF ExtendedInv
<1>3. /\ top.fun \in DOMAIN model.funs /\ top.fun \in D /\ g \in callees(top.fun)
  BY <1>1, <1>2, NextCallee
<1>4. /\ DOMAIN randomness_caller_cache' = D /\ randomness_caller_cache'[top.fun] = TRUE
      /\ \A f \in D : f # top.fun => randomness_caller_cache'[f] = randomness_caller_cache[f]
  BY <1>1, <1>3 DEF cache
<1>5. /\ StackInv' /\ checked' \in Seq(Frame)
      /\ checked' # <<>> => top'.callees # {} /\ top.fun = first_of(top'.callees)
      /\ checked' = <<>> => todo # {} /\ restricted(first_of(todo)) /\ top.fun = first_of(todo)
  BY <1>1, <1>2, <1>4, PopKeepsStack
<1>6. CheckerTyped'
  <2>1. Frame' = Frame
    BY <1>1 DEF Frame
  <2> QED
    BY <1>1, <1>2, <1>4, <1>5, <2>1 DEF CheckerTyped, running
<1>7. reaches_randomness(top.fun)
  <2> SUFFICES ASSUME NEW S \in SUBSET DOMAIN model.funs, top.fun \in S, closed(S)
               PROVE  \E f \in S : RandomnessFun \in model.funs[f].callees
    BY DEF reaches_randomness
  <2>1. CASE g = RandomnessFun
    BY <1>3, <2>1 DEF callees
  <2>2. CASE g # RandomnessFun
    <3>1. g \in S
      BY <1>3, <2>2 DEF closed, callees
    <3>2. reaches_randomness(g)
      BY <1>1, <1>2, <2>2 DEF FoundInv, known_caller
    <3> QED
      BY <3>1, <3>2 DEF reaches_randomness
  <2> QED
    BY <2>1, <2>2
<1>8. FoundInv'
  BY <1>1, <1>2, <1>4, <1>7, FoundStays DEF known_caller
<1>9. SearchInv'
  <2>1. restricted(first_of(todo))' <=> restricted(first_of(todo))
    BY <1>1 DEF restricted, is_public, is_entry, is_framework_function, first_of, position
  <2>2. top.fun \in DOMAIN randomness_caller_cache' /\ randomness_caller_cache'[top.fun]
    BY <1>3, <1>4
  <2>3. CASE checked' # <<>>
    <3>1. returning'
      BY <1>5, <2>2, <2>3 DEF returning, first_of, position, known_caller
    <3> QED
      BY <1>1, <1>2, <1>4, <3>1, CachedStays DEF SearchInv
  <2>4. CASE checked' = <<>>
    <3>1. returning'
      BY <1>1, <1>5, <2>1, <2>2, <2>4 DEF returning, first_of, position, known_caller
    <3> QED
      BY <1>1, <1>2, <1>4, <3>1, CachedStays DEF SearchInv
  <2> QED
    BY <2>3, <2>4
<1>10. MarkedInv'
  BY <1>1, <1>2, MarkedStays
<1> QED
  BY <1>5, <1>6, <1>8, <1>9, <1>10 DEF ExtendedInv

LEMMA FalseKeepsChecks == ASSUME ExtendedInv, return_false PROVE ExtendedInv'
<1> DEFINE D == DOMAIN randomness_caller_cache
           n == Len(checked)
<1>1. /\ checked # <<>> /\ top.callees = {} /\ checked' = popped
      /\ UNCHANGED <<model, at, todo, randomness_caller_cache, diagnostics, output>>
  BY DEF return_false
<1>2. CheckerTyped /\ StackInv /\ FoundInv /\ SearchInv /\ MarkedInv
  BY DEF ExtendedInv
<1>3. /\ n \in Nat \ {0} /\ DOMAIN checked = 1 .. n /\ top = checked[n]
  BY <1>1, <1>2, NextCallee
<1>4. /\ StackInv' /\ checked' \in Seq(Frame) /\ DOMAIN checked' = 1 .. n - 1
      /\ \A i \in 1 .. n - 1 : checked'[i] = checked[i]
  BY <1>1, <1>2, PopKeepsStack
<1>5. CheckerTyped'
  <2>1. Frame' = Frame
    BY <1>1 DEF Frame
  <2> QED
    BY <1>1, <1>2, <1>4, <2>1 DEF CheckerTyped, running
<1>6. FoundInv'
  BY <1>1, <1>2, FoundStays DEF known_caller
<1>7. callees(top.fun) \subseteq D /\ RandomnessFun \notin callees(top.fun)
  <2>1. n \in DOMAIN checked
    BY <1>3
  <2> QED
    BY <1>1, <1>2, <1>3, <2>1 DEF StackInv
<1>8. SearchInv'
  <2>1. ~ returning
    BY <1>1 DEF returning
  <2>2. unreported' => nothing_found
    BY <1>1, <1>2, <2>1 DEF SearchInv, unreported
  <2>3. ASSUME nothing_found PROVE nothing_found'
    <3>1. ASSUME NEW f \in D
          PROVE  \/ \E i \in DOMAIN checked' : checked'[i].fun = f
                 \/ callees(f) \subseteq D /\ RandomnessFun \notin callees(f)
      <4>1. CASE \E i \in DOMAIN checked : checked[i].fun = f
        <5>1. PICK i \in DOMAIN checked : checked[i].fun = f
          BY <4>1
        <5>2. i = n \/ i \in 1 .. n - 1
          BY <1>3
        <5>3. CASE i = n
          BY <1>3, <1>7, <5>1, <5>3
        <5>4. CASE i \in 1 .. n - 1
          BY <1>4, <5>1, <5>4
        <5> QED
          BY <5>2, <5>3, <5>4
      <4> QED
        BY <2>3, <4>1 DEF nothing_found
    <3> QED
      BY <1>1, <2>3, <3>1 DEF nothing_found, callees
  <2> QED
    BY <1>1, <1>2, <2>2, <2>3, CachedStays DEF SearchInv
<1>9. MarkedInv'
  BY <1>1, <1>2, MarkedStays
<1> QED
  BY <1>4, <1>5, <1>6, <1>8, <1>9 DEF ExtendedInv

\* A caller that was found is reported before anything else is looked at.
LEMMA ConcludeKeepsChecks == ASSUME ExtendedInv, conclude_function PROVE ExtendedInv'
<1> DEFINE f == first_of(todo)
           D == DOMAIN randomness_caller_cache
<1>1. /\ todo # {} /\ checked = <<>>
      /\ ~restricted(f) \/ f \in D
      /\ todo' = todo \ {f}
      /\ diagnostics' = IF restricted(f) /\ randomness_caller_cache[f]
                        THEN diagnostics \cup {<<"randomness", f>>} ELSE diagnostics
      /\ UNCHANGED <<model, at, checked, randomness_caller_cache, output>>
  BY DEF conclude_function
<1>2. CheckerTyped /\ StackInv /\ FoundInv /\ SearchInv /\ MarkedInv
  BY DEF ExtendedInv
<1>3. f \in todo /\ f \in DOMAIN model.funs
  <2>1. todo \subseteq {FunOrder[i] : i \in DOMAIN FunOrder} /\ todo \subseteq DOMAIN model.funs
    BY <1>2, ModelTyped DEF CheckerTyped
  <2>2. todo # {}
    BY <1>1
  <2>3. first_of(todo) \in todo
    BY <2>1, <2>2, FirstOf
  <2> QED
    BY <2>1, <2>3
<1> HIDE DEF f
<1>4. CheckerTyped'
  <2>1. Frame' = Frame
    BY <1>1 DEF Frame
  <2> QED
    BY <1>1, <1>2, <2>1 DEF CheckerTyped, running
<1>5. StackInv'
  <2>1. checked' = <<>> /\ DOMAIN checked' = {}
    BY <1>1
  <2> QED
    BY <2>1 DEF StackInv
<1>6. FoundInv'
  <2>1. restricted(f) /\ randomness_caller_cache[f] => reaches_randomness(f)
    BY <1>1, <1>2 DEF FoundInv
  <2>2. ASSUME NEW g \in DOMAIN model.funs, <<"randomness", g>> \in diagnostics'
        PROVE  reaches_randomness(g) \/ <<"randomness", g>> \in diagnostics
    BY <1>1, <2>1, <2>2
  <2> QED
    BY <1>1, <1>2, <2>2, FoundStays DEF known_caller
<1>7. SearchInv'
  <2>1. ASSUME unreported'
        PROVE  nothing_found'
    <3>1. ~(restricted(f) /\ randomness_caller_cache[f])
      BY <1>1, <1>3, <2>1 DEF unreported
    <3>2. unreported
      BY <1>1, <2>1 DEF unreported
    <3>3. ~ returning
      <4>1. returning => restricted(first_of(todo)) /\ known_caller(first_of(todo))
        BY <1>1 DEF returning
      <4>2. known_caller(f) => randomness_caller_cache[f]
        BY DEF known_caller
      <4> QED
        BY <3>1, <4>1, <4>2 DEF f
    <3> QED
      BY <1>1, <1>2, <3>2, <3>3 DEF SearchInv, nothing_found, callees
  <2>2. ASSUME NEW i \in DOMAIN model.targets, NEW g \in DOMAIN model.funs,
               model.targets[i] = model.funs[g].module, restricted(g),
               behind(i, 6) \/ (behind(i, 5) /\ g \notin todo')
        PROVE  g \in D
    <3>1. CASE g = f
      BY <1>1, <2>2, <3>1
    <3>2. CASE g # f
      BY <1>1, <1>2, <2>2, <3>2 DEF SearchInv
    <3> QED
      BY <3>1, <3>2
  <2>3. \A g : restricted(g)' <=> restricted(g)
    BY <1>1 DEF restricted, is_public, is_entry, is_framework_function
  <2>4. \A i : (behind(i, 6)' <=> behind(i, 6)) /\ (behind(i, 5)' <=> behind(i, 5))
    BY <1>1 DEF behind
  <2> QED
    BY <1>1, <2>1, <2>2, <2>3, <2>4 DEF SearchInv
<1>8. MarkedInv'
  BY <1>1, <1>2, MarkedStays
<1> QED
  BY <1>4, <1>5, <1>6, <1>7, <1>8 DEF ExtendedInv

\* When the last function of a module has been checked, the pass is done.
LEMMA EndKeepsChecks == ASSUME ExtendedInv, end_randomness PROVE ExtendedInv'
<1>1. /\ running /\ pass = "randomness" /\ todo = {} /\ checked = <<>> /\ next_pass
      /\ UNCHANGED <<model, todo, checked, randomness_caller_cache, diagnostics, output>>
  BY DEF end_randomness
<1>2. CheckerTyped /\ StackInv /\ FoundInv /\ SearchInv /\ MarkedInv
  BY DEF ExtendedInv
<1>3. at.pass = 6
  BY <1>1, <1>2, PassNames DEF CheckerTyped, pass
<1>4. /\ at' \in [module : Nat \ {0}, pass : 1 .. 9] /\ at'.module <= Len(model.targets) + 1
      /\ \A i \in Int, place \in 1 .. 9 :
           behind(i, place)' <=> behind(i, place) \/ (i = at.module /\ place = at.pass)
  BY <1>1, <1>2, PassIsBehind
<1>5. \A i \in DOMAIN model.targets : i \in Int
  BY <1>2, ModelTyped
<1>6. CheckerTyped'
  <2>1. Frame' = Frame
    BY <1>1 DEF Frame
  <2> QED
    BY <1>1, <1>2, <1>4, <2>1 DEF CheckerTyped
<1>7. StackInv'
  BY <1>1, <1>2 DEF StackInv, callees
<1>8. FoundInv'
  BY <1>1, <1>2, FoundStays DEF known_caller
<1>9. SearchInv'
  <2>1. unreported' => nothing_found'
    BY <1>1, <1>2 DEF SearchInv, unreported, returning, nothing_found, callees
  <2>2. \A g : restricted(g)' <=> restricted(g)
    BY <1>1 DEF restricted, is_public, is_entry, is_framework_function
  <2>3. ASSUME NEW i \in DOMAIN model.targets
        PROVE  behind(i, 6)' \/ behind(i, 5)' => behind(i, 5)
    <3>1. behind(i, 6)' => behind(i, 6) \/ i = at.module
      BY <1>4, <1>5
    <3>2. behind(i, 5)' => behind(i, 5)
      BY <1>3, <1>4, <1>5
    <3>3. i = at.module => behind(i, 5)
      BY <1>3 DEF behind
    <3>4. behind(i, 6) => behind(i, 5)
      BY <1>3 DEF behind
    <3> QED
      BY <3>1, <3>2, <3>3, <3>4
  <2> QED
    BY <1>1, <1>2, <2>1, <2>2, <2>3 DEF SearchInv
<1>10. MarkedInv'
  <2>1. \A i \in DOMAIN model.targets : \A place \in {1, 5, 7} :
          behind(i, place)' => behind(i, place)
    BY <1>3, <1>4, <1>5
  <2>2. \A s : get_resource_group(s)' = get_resource_group(s) /\ (member_recorded(s)' <=> member_recorded(s))
    BY <1>1 DEF get_resource_group, member_recorded, bad_container, are_equal_envs
  <2> QED
    BY <1>1, <1>2, <2>1, <2>2 DEF MarkedInv
<1> QED
  BY <1>6, <1>7, <1>8, <1>9, <1>10 DEF ExtendedInv

-----------------------------------------------------------------------------
(* The other passes.                                                        *)

\* What a pass reports and records, by its place
LEMMA PassOutput ==
  ASSUME CheckerTyped, at.pass # 6
  PROVE  /\ at.pass = 1 => recorded = [output EXCEPT !.group = @ \cup {t \in structs(module) :
                                                              get_resource_group(t) # "none"}]
         /\ at.pass = 2 => recorded = [output EXCEPT !.member = @ \cup {t \in members :
                                                              member_recorded(t)}]
         /\ at.pass = 3 => recorded = [output EXCEPT !.view = @ \cup view_functions]
         /\ at.pass \in {4, 8} => recorded = output
         /\ at.pass = 5 => /\ recorded = [output EXCEPT !.randomness = @ \cup unbiasable]
                          /\ reported = unbiasable_errors
         /\ at.pass = 7 => /\ recorded = [output EXCEPT !.event = @ \cup
                                         {s \in structs(module) : model.structs[s].event}]
                          /\ reported = event_errors
         /\ at.pass = 9 => recorded = [output EXCEPT !.error_map = @ \cup error_map]
         /\ \A f : <<"randomness", f>> \notin reported
<1>1. pass = Passes[at.pass]
  BY DEF pass
<1>2. CASE at.pass = 1
  <2>1. pass = "resource_groups"
    BY <1>1, <1>2, PassNames
  <2> QED
    BY <1>2, <2>1 DEF reported, recorded
<1>3. CASE at.pass = 2
  <2>1. pass = "resource_group_members"
    BY <1>1, <1>3, PassNames
  <2> QED
    BY <1>3, <2>1 DEF reported, recorded
<1>4. CASE at.pass = 3
  <2>1. pass = "view_functions"
    BY <1>1, <1>4, PassNames
  <2> QED
    BY <1>4, <2>1 DEF reported, recorded, view_function_errors
<1>5. CASE at.pass = 4
  <2>1. pass = "entry_functions"
    BY <1>1, <1>5, PassNames
  <2> QED
    BY <1>5, <2>1 DEF reported, recorded, entry_function_errors
<1>6. CASE at.pass = 5
  <2>1. pass = "unbiasable"
    BY <1>1, <1>6, PassNames
  <2> QED
    BY <1>6, <2>1 DEF reported, recorded, unbiasable_errors
<1>7. CASE at.pass = 7
  <2>1. pass = "events"
    BY <1>1, <1>7, PassNames
  <2> QED
    BY <1>7, <2>1 DEF reported, recorded, event_errors
<1>8. CASE at.pass = 8
  <2>1. pass = "init_module"
    BY <1>1, <1>8, PassNames
  <2> QED
    BY <1>8, <2>1 DEF reported, recorded, init_module_errors
<1>9. CASE at.pass = 9
  <2>1. pass = "error_map"
    BY <1>1, <1>9, PassNames
  <2> QED
    BY <1>9, <2>1 DEF reported, recorded
<1>10. at.pass \in 1 .. 9
  BY DEF CheckerTyped
<1> QED
  BY <1>2, <1>3, <1>4, <1>5, <1>6, <1>7, <1>8, <1>9, <1>10

\* A pass takes no record back, and records members of groups that it has looked at.
LEMMA OutputGrows ==
  ASSUME CheckerTyped, at.pass # 6, output' = recorded
  PROVE  /\ DOMAIN output' = DOMAIN NoOutput
         /\ output.group \subseteq output'.group /\ output.event \subseteq output'.event
         /\ output.randomness \subseteq output'.randomness
         /\ \A s \in output'.member : s \in output.member \/ member_recorded(s)
         /\ at.pass = 1 => \A t \in structs(module) :
                             get_resource_group(t) # "none" => t \in output'.group
         /\ at.pass = 5 => unbiasable \subseteq output'.randomness
         /\ at.pass = 7 => \A t \in structs(module) : model.structs[t].event => t \in output'.event
<1>1. DOMAIN output = {"randomness", "view", "event", "group", "member", "error_map"}
  BY DEF CheckerTyped, NoOutput
<1>2. at.pass \in 1 .. 9
  BY DEF CheckerTyped
<1>3. CASE at.pass = 1
  <2> DEFINE new_ones == {t \in structs(module) : get_resource_group(t) # "none"}
  <2>1. output' = [output EXCEPT !.group = @ \cup new_ones]
    BY <1>3, PassOutput
  <2> HIDE DEF new_ones
  <2>2. DOMAIN output' = DOMAIN output /\ output'.group = output.group \cup new_ones
        /\ output'.event = output.event /\ output'.randomness = output.randomness
        /\ output'.member = output.member
    BY <1>1, <2>1
  <2> QED
    BY <1>3, <2>2 DEF new_ones, CheckerTyped
<1>4. CASE at.pass = 2
  <2> DEFINE new_ones == {t \in members : member_recorded(t)}
  <2>1. output' = [output EXCEPT !.member = @ \cup new_ones]
    BY <1>4, PassOutput
  <2> HIDE DEF new_ones
  <2>2. DOMAIN output' = DOMAIN output /\ output'.group = output.group
        /\ output'.event = output.event /\ output'.randomness = output.randomness
        /\ output'.member = output.member \cup new_ones
    BY <1>1, <2>1
  <2> QED
    BY <1>4, <2>2 DEF new_ones, CheckerTyped
<1>5. CASE at.pass = 5
  <2>1. output' = [output EXCEPT !.randomness = @ \cup unbiasable]
    BY <1>5, PassOutput
  <2>2. DOMAIN output' = DOMAIN output /\ output'.group = output.group
        /\ output'.event = output.event /\ output'.randomness = output.randomness \cup unbiasable
        /\ output'.member = output.member
    BY <1>1, <2>1
  <2> QED
    BY <1>5, <2>2 DEF CheckerTyped
<1>6. CASE at.pass = 7
  <2> DEFINE new_ones == {t \in structs(module) : model.structs[t].event}
  <2>1. output' = [output EXCEPT !.event = @ \cup new_ones]
    BY <1>6, PassOutput
  <2> HIDE DEF new_ones
  <2>2. DOMAIN output' = DOMAIN output /\ output'.group = output.group
        /\ output'.event = output.event \cup new_ones /\ output'.randomness = output.randomness
        /\ output'.member = output.member
    BY <1>1, <2>1
  <2> QED
    BY <1>6, <2>2 DEF new_ones, CheckerTyped
<1>7. CASE at.pass \in {3, 4, 8, 9}
  <2>1. \/ output' = [output EXCEPT !.view = @ \cup view_functions]
        \/ output' = output
        \/ output' = [output EXCEPT !.error_map = @ \cup error_map]
    BY <1>7, PassOutput
  <2>2. DOMAIN output' = DOMAIN output /\ output'.group = output.group
        /\ output'.event = output.event /\ output'.randomness = output.randomness
        /\ output'.member = output.member
    BY <1>1, <2>1
  <2> QED
    BY <1>7, <2>2 DEF CheckerTyped
<1> QED
  BY <1>2, <1>3, <1>4, <1>5, <1>6, <1>7

LEMMA PassKeepsMarked ==
  ASSUME CheckerTyped, MarkedInv, running, at.pass # 6, next_pass,
         diagnostics' = diagnostics \cup reported, output' = recorded, UNCHANGED model
  PROVE  MarkedInv'
<1>1. /\ \A i \in Int, place \in 1 .. 9 :
           behind(i, place)' <=> behind(i, place) \/ (i = at.module /\ place = at.pass)
  BY PassIsBehind
<1>2. /\ output.group \subseteq output'.group /\ output.event \subseteq output'.event
      /\ output.randomness \subseteq output'.randomness
      /\ \A s \in output'.member : s \in output.member \/ member_recorded(s)
      /\ at.pass = 1 => \A t \in structs(module) :
                          get_resource_group(t) # "none" => t \in output'.group
      /\ at.pass = 5 => unbiasable \subseteq output'.randomness
      /\ at.pass = 7 => \A t \in structs(module) : model.structs[t].event => t \in output'.event
  BY OutputGrows
<1>3. \A s : get_resource_group(s)' = get_resource_group(s) /\ (member_recorded(s)' <=> member_recorded(s))
  BY DEF get_resource_group, member_recorded, bad_container, are_equal_envs
<1>4. \A i \in DOMAIN model.targets : i \in Int
  BY ModelTyped
<1>5. ASSUME NEW i \in DOMAIN model.targets, behind(i, 1)',
             NEW s \in DOMAIN model.structs, model.structs[s].module = model.targets[i],
             get_resource_group(s) # "none"
      PROVE  s \in output'.group
  <2>1. CASE behind(i, 1)
    BY <1>2, <1>5, <2>1 DEF MarkedInv
  <2>2. CASE i = at.module /\ at.pass = 1
    BY <1>2, <1>5, <2>2 DEF structs, module
  <2> QED
    BY <1>1, <1>4, <1>5, <2>1, <2>2
<1>6. ASSUME NEW i \in DOMAIN model.targets, behind(i, 5)',
             NEW f \in DOMAIN model.funs, model.funs[f].module = model.targets[i]
      PROVE  /\ model.funs[f].randomness = "malformed" => <<"unbiasable", f>> \in diagnostics'
             /\ model.funs[f].randomness \in {"default", "max_gas"} => f \in output'.randomness
  <2>1. CASE behind(i, 5)
    BY <1>2, <1>6, <2>1 DEF MarkedInv
  <2>2. CASE i = at.module /\ at.pass = 5
    <3>1. reported = unbiasable_errors /\ unbiasable \subseteq output'.randomness
      BY <1>2, <2>2, PassOutput
    <3>2. f \in funs(module)
      BY <1>6, <2>2 DEF funs, module
    <3>3. model.funs[f].randomness = "malformed" => <<"unbiasable", f>> \in unbiasable_errors
      BY <3>2 DEF unbiasable_errors, get_randomness_max_gas_declaration
    <3>4. model.funs[f].randomness \in {"default", "max_gas"} => f \in unbiasable
      BY <3>2 DEF unbiasable, get_randomness_max_gas_declaration
    <3> QED
      BY <3>1, <3>3, <3>4
  <2> QED
    BY <1>1, <1>4, <1>6, <2>1, <2>2
<1>7. ASSUME NEW i \in DOMAIN model.targets, behind(i, 7)'
      PROVE  /\ \A f \in DOMAIN model.funs : model.funs[f].module = model.targets[i] =>
                  \/ <<"event", f>> \in diagnostics'
                  \/ \A s \in model.funs[f].emits :
                       model.structs[s].event /\ model.structs[s].module = model.targets[i]
             /\ \A s \in DOMAIN model.structs :
                  model.structs[s].module = model.targets[i] /\ model.structs[s].event
                    => s \in output'.event
  <2>1. CASE behind(i, 7)
    BY <1>2, <1>7, <2>1 DEF MarkedInv
  <2>2. CASE i = at.module /\ at.pass = 7
    <3>1. reported = event_errors
      BY <2>2, PassOutput
    <3>2. module = model.targets[i]
      BY <2>2 DEF module
    <3>3. ASSUME NEW f \in DOMAIN model.funs, model.funs[f].module = model.targets[i],
                 NEW s \in model.funs[f].emits,
                 ~(model.structs[s].event /\ model.structs[s].module = model.targets[i])
          PROVE  <<"event", f>> \in event_errors
      BY <3>2, <3>3 DEF event_errors, funs, check_emit_event_call
    <3>4. \A s \in DOMAIN model.structs :
            model.structs[s].module = model.targets[i] /\ model.structs[s].event => s \in output'.event
      BY <1>2, <2>2, <3>2 DEF structs
    <3> QED
      BY <3>1, <3>3, <3>4
  <2> QED
    BY <1>1, <1>4, <1>7, <2>1, <2>2
<1>8. \A s \in output'.member : member_recorded(s)
  BY <1>2 DEF MarkedInv
<1> QED
  BY <1>3, <1>5, <1>6, <1>7, <1>8 DEF MarkedInv

LEMMA PassKeepsChecks == ASSUME ExtendedInv, run_pass PROVE ExtendedInv'
<1>1. /\ running /\ pass # "randomness"
      /\ diagnostics' = diagnostics \cup reported /\ output' = recorded /\ next_pass
      /\ todo' = IF Passes[at'.pass] = "randomness" THEN funs(module) ELSE {}
      /\ UNCHANGED <<model, checked, randomness_caller_cache>>
  BY DEF run_pass
<1>2. CheckerTyped /\ StackInv /\ FoundInv /\ SearchInv /\ MarkedInv
  BY DEF ExtendedInv
<1>3. at.pass # 6 /\ at \in [module : Nat \ {0}, pass : 1 .. 9]
  BY <1>1, <1>2, PassNames DEF CheckerTyped, pass
<1>4. /\ at' \in [module : Nat \ {0}, pass : 1 .. 9] /\ at'.module <= Len(model.targets) + 1
      /\ \A i \in Int, place \in 1 .. 9 :
           behind(i, place)' <=> behind(i, place) \/ (i = at.module /\ place = at.pass)
  BY <1>1, <1>2, PassIsBehind
<1>5. todo = {} /\ checked = <<>>
  BY <1>2, <1>3 DEF CheckerTyped, StackInv
<1>6. todo' # {} => at'.pass = 6 /\ at.pass = 5 /\ at'.module = at.module /\ todo' = funs(module)
  <2>1. todo' # {} => at'.pass = 6 /\ todo' = funs(module)
    BY <1>1, <1>4, PassNames
  <2>2. at'.pass = 6 => at.pass = 5 /\ at'.module = at.module
    <3>1. at' = IF at.pass < 9 THEN [at EXCEPT !.pass = @ + 1]
                ELSE [module |-> at.module + 1, pass |-> 1]
      BY <1>1, PassNames DEF next_pass
    <3> QED
      BY <1>3, <3>1
  <2> QED
    BY <2>1, <2>2
<1>7. \A f : <<"randomness", f>> \in diagnostics' => <<"randomness", f>> \in diagnostics
  BY <1>1, <1>2, <1>3, PassOutput
<1>8. CheckerTyped'
  <2>1. Frame' = Frame
    BY <1>1 DEF Frame
  <2>2. todo' \subseteq DOMAIN model.funs
    BY <1>6 DEF funs
  <2>3. todo' # {} => running' /\ at'.pass = 6
    BY <1>1, <1>6 DEF running
  <2>4. DOMAIN output' = DOMAIN NoOutput
    BY <1>1, <1>2, <1>3, OutputGrows
  <2> QED
    BY <1>1, <1>2, <1>4, <2>1, <2>2, <2>3, <2>4 DEF CheckerTyped
<1>9. StackInv'
  <2>1. checked' = <<>> /\ DOMAIN checked' = {}
    BY <1>1, <1>5
  <2> QED
    BY <2>1 DEF StackInv
<1>10. FoundInv'
  BY <1>1, <1>2, <1>7, FoundStays DEF known_caller
<1>11. SearchInv'
  <2>1. ASSUME unreported' PROVE nothing_found'
    <3>1. unreported
      BY <1>1, <2>1, <1>2 DEF unreported
    <3>2. ~ returning
      BY <1>5 DEF returning
    <3>3. nothing_found
      BY <1>2, <3>1, <3>2 DEF SearchInv
    <3> QED
      BY <1>1, <3>3 DEF nothing_found, callees
  <2>2. \A g : restricted(g)' <=> restricted(g)
    BY <1>1 DEF restricted, is_public, is_entry, is_framework_function
  <2>3. ASSUME NEW i \in DOMAIN model.targets, NEW f \in DOMAIN model.funs,
               model.targets[i] = model.funs[f].module, restricted(f),
               behind(i, 6)' \/ (behind(i, 5)' /\ f \notin todo')
        PROVE  f \in DOMAIN randomness_caller_cache
    <3>1. i \in Int
      BY <1>2, ModelTyped
    <3>2. behind(i, 6) \/ behind(i, 5) => f \in DOMAIN randomness_caller_cache
      BY <1>2, <1>5, <2>3 DEF SearchInv
    <3>3. behind(i, 6)' => behind(i, 6)
      BY <1>3, <1>4, <3>1
    <3>4. CASE behind(i, 5)' /\ ~behind(i, 5)
      <4>1. i = at.module /\ at.pass = 5
        BY <1>4, <3>1, <3>4
      <4>2. at'.pass = 6
        BY <1>1, <1>3, <4>1, PassNames DEF next_pass
      <4>3. todo' = funs(module)
        BY <1>1, <4>2, PassNames
      <4>4. f \in todo'
        BY <2>3, <4>1, <4>3 DEF funs, module
      <4> QED
        BY <2>3, <3>2, <3>3, <4>4
    <3> QED
      BY <2>3, <3>2, <3>3, <3>4
  <2> QED
    BY <1>1, <2>1, <2>2, <2>3 DEF SearchInv
<1>12. MarkedInv'
  BY <1>1, <1>2, <1>3, PassKeepsMarked
<1> QED
  BY <1>8, <1>9, <1>10, <1>11, <1>12 DEF ExtendedInv

LEMMA StepKeepsChecks == ExtendedInv /\ [ExtendedNext]_checkVars => ExtendedInv'
<1> SUFFICES ASSUME ExtendedInv, [ExtendedNext]_checkVars PROVE ExtendedInv'
  OBVIOUS
<1>1. CASE ExtendedNext
  BY <1>1, PassKeepsChecks, ConcludeKeepsChecks, CheckKeepsChecks, CalleeKeepsChecks,
     TrueKeepsChecks, FalseKeepsChecks, EndKeepsChecks DEF ExtendedNext
<1>2. CASE UNCHANGED checkVars
  <2>1. CheckerTyped /\ StackInv /\ FoundInv /\ SearchInv /\ MarkedInv
    BY DEF ExtendedInv
  <2>2. /\ UNCHANGED <<model, at, todo, checked, randomness_caller_cache, diagnostics, output>>
    BY <1>2 DEF checkVars
  <2>3. \A f : restricted(f)' <=> restricted(f)
    BY <2>2 DEF restricted, is_public, is_entry, is_framework_function
  <2>4. CheckerTyped'
    BY <2>1, <2>2 DEF CheckerTyped, running, Frame
  <2>5. StackInv'
    BY <2>1, <2>2 DEF StackInv, callees, first_of, position, restricted, is_public, is_entry,
                      is_framework_function
  <2>6. FoundInv'
    BY <2>1, <2>2, FoundStays DEF known_caller
  <2>7. SearchInv'
    <3>1. (unreported' <=> unreported) /\ (nothing_found' <=> nothing_found)
      BY <2>2 DEF unreported, nothing_found, callees
    <3>2. returning' <=> returning
      BY <2>2, <2>3 DEF returning, known_caller, top, first_of, position
    <3> QED
      BY <2>1, <2>2, <3>1, <3>2, CachedStays DEF SearchInv
  <2>8. MarkedInv'
    BY <2>1, <2>2, MarkedStays
  <2> QED
    BY <2>4, <2>5, <2>6, <2>7, <2>8 DEF ExtendedInv
<1> QED
  BY <1>1, <1>2

LEMMA ChecksInvariant == ExtendedSpec => []ExtendedInv
<1>1. ExtendedInit => ExtendedInv
  BY ChecksInitially
<1>2. ExtendedInv /\ [ExtendedNext]_checkVars => ExtendedInv'
  BY StepKeepsChecks
<1> QED
  BY <1>1, <1>2, PTL DEF ExtendedSpec

\* At the end no function that must not use randomness reaches it, unless an error
\* was reported: the functions in the cache are closed under calls.
LEMMA CacheIsClosed ==
  ASSUME ExtendedInv, ~running, unreported,
         NEW f \in checked_functions, restricted(f)
  PROVE  ~reaches_randomness(f)
<1> DEFINE D == DOMAIN randomness_caller_cache
<1>1. CheckerTyped /\ StackInv /\ SearchInv
  BY DEF ExtendedInv
<1>2. todo = {} /\ checked = <<>>
  BY <1>1 DEF CheckerTyped, StackInv
<1>3. nothing_found /\ DOMAIN checked = {}
  BY <1>1, <1>2 DEF SearchInv, returning
<1>4. D \in SUBSET DOMAIN model.funs /\ closed(D)
  BY <1>1, <1>3 DEF CheckerTyped, closed, nothing_found, callees
<1>5. \A g \in D : RandomnessFun \notin model.funs[g].callees
  BY <1>3 DEF nothing_found, callees
<1>6. f \in D
  <2>1. PICK i \in 1 .. at.module - 1 : model.targets[i] = model.funs[f].module
    BY DEF checked_functions
  <2>2. /\ at.module \in Nat /\ at.module <= Len(model.targets) + 1 /\ f \in DOMAIN model.funs
        /\ DOMAIN model.targets = 1 .. Len(model.targets) /\ Len(model.targets) \in Nat
    BY <1>1, ModelTyped DEF CheckerTyped, checked_functions
  <2>3. i \in DOMAIN model.targets /\ i < at.module
    BY <2>1, <2>2
  <2> QED
    BY <1>1, <1>2, <2>1, <2>2, <2>3 DEF SearchInv, behind
<1> QED
  BY <1>4, <1>5, <1>6 DEF reaches_randomness

(* When the checker ends without an error about randomness, no function that *)
(* must not use it reaches it through any number of calls, whatever the call  *)
(* graph and its cycles are; and an error tells of a call that is there.      *)
THEOREM RandomnessIsChecked == ExtendedSpec => []RandomnessChecked
<1>1. ExtendedInv => RandomnessChecked
  <2> SUFFICES ASSUME ExtendedInv PROVE RandomnessChecked
    OBVIOUS
  <2>1. \A f \in DOMAIN model.funs : <<"randomness", f>> \in diagnostics => reaches_randomness(f)
    BY DEF ExtendedInv, FoundInv
  <2> QED
    BY <2>1, CacheIsClosed DEF RandomnessChecked, unreported
<1> QED
  BY <1>1, ChecksInvariant, PTL

(* A build without errors leaves the VM what it goes by: entry functions that *)
(* use randomness are marked, the groups of members are groups, and what is   *)
(* emitted is an event of the module that emits it.                           *)
THEOREM AcceptedIsAlwaysMarked == ExtendedSpec => []AcceptedIsMarked
<1>1. ExtendedInv => AcceptedIsMarked
  <2> SUFFICES ASSUME ExtendedInv, ~running, ~has_errors PROVE AcceptedIsMarked
    BY DEF AcceptedIsMarked
  <2>1. CheckerTyped /\ MarkedInv
    BY DEF ExtendedInv
  <2>2. /\ at.module \in Nat /\ at.module <= Len(model.targets) + 1
        /\ DOMAIN model.targets = 1 .. Len(model.targets) /\ Len(model.targets) \in Nat
    BY <2>1, ModelTyped DEF CheckerTyped
  <2>3. \A i \in DOMAIN model.targets : behind(i, 1) /\ behind(i, 5) /\ behind(i, 7)
    BY <2>2 DEF behind, running
  <2>4. /\ unreported
        /\ \A f : <<"unbiasable", f>> \notin diagnostics /\ <<"event", f>> \notin diagnostics
    <3>1. \A d \in diagnostics : d[1] = "warning"
      BY DEF has_errors
    <3>2. \A f : /\ <<"randomness", f>>[1] = "randomness" /\ <<"unbiasable", f>>[1] = "unbiasable"
                /\ <<"event", f>>[1] = "event"
      OBVIOUS
    <3> QED
      BY <3>1, <3>2 DEF unreported
  <2>5. ASSUME NEW f \in checked_functions
        PROVE  /\ f \in DOMAIN model.funs
               /\ \E i \in DOMAIN model.targets : model.targets[i] = model.funs[f].module
    <3>1. PICK i \in 1 .. at.module - 1 : model.targets[i] = model.funs[f].module
      BY DEF checked_functions
    <3>2. i \in DOMAIN model.targets
      BY <2>2, <3>1
    <3> QED
      BY <3>1, <3>2 DEF checked_functions
  <2>6. ASSUME NEW f \in checked_functions, is_entry(f), ~is_public(f), reaches_randomness(f)
        PROVE  f \in output.randomness
    <3>1. ~restricted(f)
      BY <2>4, <2>6, CacheIsClosed
    <3>2. model.funs[f].randomness # "absent"
      BY <2>6, <3>1 DEF restricted
    <3>3. model.funs[f].randomness \in {"malformed", "default", "max_gas"}
      BY <2>1, <2>5, <3>2, ModelTyped
    <3> QED
      BY <2>1, <2>3, <2>4, <2>5, <3>3 DEF MarkedInv
  <2>7. ASSUME NEW f \in checked_functions, NEW s \in model.funs[f].emits
        PROVE  s \in output.event /\ model.structs[s].module = model.funs[f].module
    <3>1. PICK i \in DOMAIN model.targets : model.targets[i] = model.funs[f].module
      BY <2>5
    <3>2. s \in DOMAIN model.structs
      BY <2>1, <2>5, ModelTyped
    <3>3. model.structs[s].event /\ model.structs[s].module = model.targets[i]
      BY <2>1, <2>3, <2>4, <2>5, <3>1 DEF MarkedInv
    <3> QED
      BY <2>1, <2>3, <3>1, <3>2, <3>3 DEF MarkedInv
  <2>8. ASSUME NEW s \in output.member, NEW i \in DOMAIN model.targets,
               model.targets[i] = model.structs[model.structs[s].member_of].module
        PROVE  model.structs[s].member_of \in output.group
    <3>1. /\ model.structs[s].member_of \in DOMAIN model.structs
          /\ get_resource_group(model.structs[s].member_of) # "none"
      BY <2>1 DEF MarkedInv, member_recorded
    <3> QED
      BY <2>1, <2>3, <2>8, <3>1 DEF MarkedInv
  <2> QED
    BY <2>6, <2>7, <2>8 DEF AcceptedIsMarked
<1> QED
  BY <1>1, ChecksInvariant, PTL

-----------------------------------------------------------------------------
(* Loops over a sequence are functions of how far they are.                *)

\* A set with 0 and the number after each of its numbers, up to n
LEMMA UpToLast ==
  ASSUME NEW n \in Nat, NEW S, 0 \in S, \A i \in 1 .. n : i - 1 \in S => i \in S
  PROVE  0 .. n \subseteq S
<1> SUFFICES ASSUME (0 .. n) \ S # {}
             PROVE  FALSE
  OBVIOUS
<1> DEFINE Rest == (0 .. n) \ S
<1>0. Rest \subseteq Nat /\ Rest # {}
  OBVIOUS
<1>1. PICK i \in Rest : \A j \in Rest : i <= j
  BY ONLY <1>0, LeastPosition
<1>2. i # 0 /\ i \in 1 .. n /\ i - 1 \in 0 .. n
  BY <1>1
<1>3. i - 1 \in S
  BY <1>1, <1>2
<1> QED
  BY <1>1, <1>2, <1>3

\* What a loop has after each step
HasLoop(V, n, start, step) ==
  \E after \in [0 .. n -> V] : \A i \in 0 .. n :
    after[i] = IF i = 0 THEN start ELSE step[i][after[i - 1]]

\* It has it when a step leaves values in V
LEMMA LoopIsFunction ==
  ASSUME NEW V, NEW n \in Nat, NEW start \in V, NEW step,
         \A i \in 1 .. n : \A v \in V : step[i][v] \in V
  PROVE  HasLoop(V, n, start, step)
<1> DEFINE Runs(k, after) ==
      after = [i \in 0 .. k |-> IF i = 0 THEN start ELSE step[i][after[i - 1]]]
           S == {k \in 0 .. n : \E after \in [0 .. k -> V] : Runs(k, after)}
<1>1. 0 \in S
  <2> DEFINE after == [i \in 0 .. 0 |-> start]
  <2>1. after \in [0 .. 0 -> V]
    OBVIOUS
  <2>2. Runs(0, after)
    OBVIOUS
  <2>3. 0 \in 0 .. n
    OBVIOUS
  <2> QED
    BY <2>1, <2>2, <2>3
<1>2. ASSUME NEW k \in 1 .. n, k - 1 \in S
      PROVE  k \in S
  <2>1. PICK before \in [0 .. k - 1 -> V] : Runs(k - 1, before)
    BY <1>2
  <2> DEFINE after == [i \in 0 .. k |-> IF i = k THEN step[k][before[k - 1]] ELSE before[i]]
  <2>2. k \in Nat /\ k # 0 /\ k - 1 \in 0 .. k - 1
    OBVIOUS
  <2>3. step[k][before[k - 1]] \in V
    BY <2>2
  <2>4. \A i \in 0 .. k : i # k => i \in 0 .. k - 1
    BY <2>2
  <2>5. after \in [0 .. k -> V]
    BY <2>3, <2>4
  <2>6. ASSUME NEW i \in 0 .. k
        PROVE  after[i] = IF i = 0 THEN start ELSE step[i][after[i - 1]]
    <3>1. CASE i = k
      <4>1. after[i - 1] = before[k - 1]
        BY <3>1, <2>2
      <4>2. after[i] = step[k][before[k - 1]]
        BY <3>1
      <4> QED
        BY <3>1, <4>1, <4>2, <2>2
    <3>2. CASE i = 0
      BY <3>2, <2>1, <2>2
    <3>3. CASE i # k /\ i # 0
      <4>1. i \in 0 .. k - 1 /\ i - 1 \in 0 .. k - 1 /\ i - 1 \in 0 .. k /\ i - 1 # k
        BY <3>3, <2>2
      <4>2. after[i] = before[i] /\ after[i - 1] = before[i - 1]
        BY <3>3, <4>1
      <4>3. before[i] = step[i][before[i - 1]]
        BY <2>1, <3>3, <4>1
      <4> QED
        BY <3>3, <4>2, <4>3
    <3> QED
      BY <3>1, <3>2, <3>3
  <2> HIDE DEF after
  <2>7. Runs(k, after)
    <3>1. after = [i \in 0 .. k |-> after[i]]
      BY <2>5
    <3> QED
      BY <3>1, <2>6
  <2> QED
    BY <2>5, <2>7
<1> HIDE DEF S
<1>3. 0 .. n \subseteq S
  BY <1>1, <1>2, UpToLast
<1>4. n \in S
  BY <1>3
<1> QED
  BY <1>4 DEF S, HasLoop

-----------------------------------------------------------------------------
(* The chunks of the metadata, put together again.                          *)

\* Appending goes on from what has been appended.
LEMMA AppendedInOrder ==
  ASSUME NEW S, NEW chunks \in Seq(Seq(S)), NEW whole,
         whole = [k \in 0 .. Len(chunks) |-> IF k = 0 THEN <<>> ELSE whole[k - 1] \o chunks[k]]
  PROVE  appended(chunks) = whole[Len(chunks)]
<1> DEFINE n == Len(chunks)
           Appends(f) == f = [k \in 0 .. Len(chunks) |->
                                IF k = 0 THEN <<>> ELSE f[k - 1] \o chunks[k]]
           first == CHOOSE f : Appends(f)
           Same == {k \in 0 .. n : first[k] = whole[k]}
<1>1. n \in Nat
  OBVIOUS
<1>2. appended(chunks) = first[n]
  BY DEF appended
<1>3. Appends(first)
  <2>1. Appends(whole)
    OBVIOUS
  <2> HIDE DEF Appends
  <2> QED
    BY <2>1
<1> HIDE DEF first
<1>4. 0 \in Same
  BY <1>1, <1>3
<1>5. ASSUME NEW k \in 1 .. n, k - 1 \in Same
      PROVE  k \in Same
  <2>1. k \in 0 .. n /\ k # 0
    BY <1>1
  <2>2. first[k] = first[k - 1] \o chunks[k] /\ whole[k] = whole[k - 1] \o chunks[k]
    BY <1>3, <2>1
  <2> QED
    BY <1>5, <2>1, <2>2
<1> HIDE DEF Same
<1>6. 0 .. n \subseteq Same
  BY <1>1, <1>4, <1>5, UpToLast
<1>7. n \in Same
  BY <1>1, <1>6
<1> QED
  BY <1>2, <1>7 DEF Same

\* The constants of a script are small enough, and are the metadata together.
LEMMA ChunksAreTheData ==
  ASSUME NEW S, NEW data \in Seq(S)
  PROVE  /\ appended(metadata_chunks(data)) = data
         /\ \A k \in DOMAIN metadata_chunks(data) : Len(metadata_chunks(data)[k]) <= ChunkSize
<1> DEFINE len == Len(data)
           last == len \div ChunkSize + 1
           start(k) == (k - 1) * ChunkSize
           stop(k) == IF k = last THEN len ELSE k * ChunkSize
           chunks == metadata_chunks(data)
<1>1. /\ len \in Nat /\ ChunkSize \in Nat /\ ChunkSize > 0
  BY ReleaseConstants
<1>2. last \in Nat /\ 1 <= last /\ (last - 1) * ChunkSize <= len /\ len < last * ChunkSize
  <2>1. ASSUME NEW l \in Nat, NEW c \in Nat, c > 0
        PROVE  /\ l \div c \in Nat
               /\ (l \div c + 1 - 1) * c <= l /\ l < (l \div c + 1) * c
    BY <2>1
  <2> QED
    BY <1>1, <2>1
<1> HIDE DEF len, last
<1>3. chunks = [k \in 1 .. last |-> SubSeq(data, start(k) + 1, stop(k))]
  BY DEF metadata_chunks, len, last
<1>4. ASSUME NEW k \in 1 .. last
      PROVE  /\ start(k) \in 0 .. len /\ stop(k) \in start(k) .. len
             /\ stop(k) - start(k) <= ChunkSize
             /\ k < last => stop(k) = start(k + 1)
  <2>1. k \in Nat /\ 1 <= k /\ k <= last
    BY <1>2
  <2>2. k * ChunkSize = (k - 1) * ChunkSize + ChunkSize /\ (k - 1) * ChunkSize \in Nat
    BY <1>1, <2>1
  <2>3. CASE k = last
    BY <1>1, <1>2, <2>1, <2>2, <2>3
  <2>4. CASE k # last
    <3>1. k <= last - 1 /\ last - 1 \in Nat
      BY <1>2, <2>1, <2>4
    <3>2. k * ChunkSize <= (last - 1) * ChunkSize /\ (last - 1) * ChunkSize \in Nat
      BY <1>1, <2>1, <3>1
    <3>3. (k + 1) - 1 = k
      BY <2>1
    <3> QED
      BY <1>1, <1>2, <2>1, <2>2, <2>4, <3>2, <3>3
  <2> QED
    BY <2>3, <2>4
<1>5. ASSUME NEW k \in 1 .. last
      PROVE  chunks[k] \in Seq(S) /\ Len(chunks[k]) = stop(k) - start(k)
  <2>1. chunks[k] = SubSeq(data, start(k) + 1, stop(k))
    BY <1>3
  <2>2. start(k) \in Int /\ stop(k) \in Int /\ 0 <= start(k) /\ stop(k) <= len
        /\ start(k) <= stop(k)
    BY <1>1, <1>4
  <2> HIDE DEF start, stop
  <2>3. \A i \in start(k) + 1 .. stop(k) : data[i] \in S
    BY <1>1, <2>2 DEF len
  <2>4. /\ SubSeq(data, start(k) + 1, stop(k)) \in Seq(S)
        /\ Len(SubSeq(data, start(k) + 1, stop(k))) =
             IF start(k) + 1 <= stop(k) THEN stop(k) - (start(k) + 1) + 1 ELSE 0
    BY <2>2, <2>3, SubSeqProperties
  <2> QED
    BY <2>1, <2>2, <2>4
<1>6. chunks \in Seq(Seq(S)) /\ Len(chunks) = last /\ DOMAIN chunks = 1 .. last
  <2>1. DOMAIN chunks = 1 .. last /\ chunks = [k \in 1 .. last |-> chunks[k]]
    BY <1>3
  <2> HIDE DEF chunks, start, stop
  <2>2. chunks \in [1 .. last -> Seq(S)]
    BY <1>5, <2>1
  <2> QED
    BY <1>2, <2>1, <2>2
<1>70. start(1) = 0
  BY <1>1
<1> HIDE DEF start, stop
<1> DEFINE front(k) == IF k = 0 THEN <<>> ELSE SubSeq(data, 1, stop(k))
           whole == [k \in 0 .. last |-> front(k)]
<1>71. whole[0] = <<>> /\ \A k \in 1 .. last : whole[k] = SubSeq(data, 1, stop(k))
  <2>1. front(0) = <<>> /\ \A k \in 1 .. last : front(k) = SubSeq(data, 1, stop(k))
    <3>1. \A k \in 1 .. last : k # 0
      BY <1>2
    <3> QED
      BY ONLY <3>1, Zenon
  <2> HIDE DEF front
  <2>2. \A k \in 0 .. last : whole[k] = front(k)
    OBVIOUS
  <2>3. 0 \in 0 .. last /\ \A k \in 1 .. last : k \in 0 .. last
    BY <1>2
  <2> HIDE DEF whole
  <2> QED
    BY <2>1, <2>2, <2>3
<1>7. ASSUME NEW k \in 0 .. last
      PROVE  whole[k] = IF k = 0 THEN <<>> ELSE whole[k - 1] \o chunks[k]
  <2>1. CASE k = 0
    BY ONLY <1>71, <2>1
  <2>2. CASE k = 1
    <3>0. 1 \in 1 .. last
      BY <1>2
    <3>1. whole[0] = <<>> /\ whole[1] = SubSeq(data, 1, stop(1)) /\ 1 \in 1 .. last
      BY ONLY <1>71, <3>0
    <3>3. chunks[1] = SubSeq(data, 1, stop(1))
      <4>1. chunks[1] = SubSeq(data, start(1) + 1, stop(1))
        BY ONLY <1>3, <3>1
      <4>2. start(1) + 1 = 1
        BY <1>70
      <4> QED
        BY ONLY <4>1, <4>2
    <3>2. whole[k - 1] = whole[0]
      BY <2>2
    <3> HIDE DEF chunks, whole
    <3>4. <<>> \o chunks[1] = chunks[1]
      BY <1>5, <3>1, ConcatEmptySeq
    <3> QED
      BY ONLY <2>2, <3>1, <3>2, <3>3, <3>4
  <2>3. CASE k # 0 /\ k # 1
    <3>1. k \in 1 .. last /\ k - 1 \in 1 .. last /\ k - 1 < last /\ (k - 1) + 1 = k
          /\ k - 1 \in 0 .. last /\ k - 1 # 0
      BY <1>2, <2>3
    <3>2. stop(k - 1) = start(k) /\ start(k) \in 0 .. len /\ stop(k) \in start(k) .. len
      BY <1>4, <3>1
    <3>3. whole[k] = SubSeq(data, 1, stop(k)) /\ whole[k - 1] = SubSeq(data, 1, stop(k - 1))
      BY <1>71, <3>1
    <3>4. chunks[k] = SubSeq(data, start(k) + 1, stop(k))
      BY <1>3, <3>1
    <3> HIDE DEF whole, chunks, front
    <3>5. /\ 1 \in 1 .. Len(data) + 1 /\ start(k) \in 1 - 1 .. Len(data)
          /\ stop(k) \in start(k) .. Len(data)
      BY <1>1, <3>2 DEF len
    <3>6. SubSeq(data, 1, start(k)) \o SubSeq(data, start(k) + 1, stop(k))
            = SubSeq(data, 1, stop(k))
      BY ONLY data \in Seq(S), <3>5, ConcatAdjacentSubSeq
    <3> QED
      BY <2>3, <3>2, <3>3, <3>4, <3>6
  <2> QED
    BY <2>1, <2>2, <2>3
<1>8. whole[last] = data
  <2>1. whole[last] = SubSeq(data, 1, stop(last)) /\ stop(last) = Len(data)
    BY <1>2, <1>71 DEF len, stop
  <2>2. SubSeq(data, 1, Len(data)) = data
    OBVIOUS
  <2> QED
    BY <2>1, <2>2
<1>9. whole = [k \in 0 .. Len(chunks) |-> IF k = 0 THEN <<>> ELSE whole[k - 1] \o chunks[k]]
  <2>1. whole = [k \in 0 .. last |-> whole[k]]
    OBVIOUS
  <2> HIDE DEF whole, chunks
  <2> QED
    BY <1>6, <1>7, <2>1
<1> HIDE DEF whole, chunks, front
<1>10. appended(chunks) = whole[Len(chunks)]
  BY <1>6, <1>9, AppendedInOrder
<1>11. \A k \in DOMAIN chunks : Len(chunks[k]) <= ChunkSize
  BY <1>4, <1>5, <1>6
<1> QED
  BY <1>6, <1>8, <1>10, <1>11 DEF chunks

-----------------------------------------------------------------------------
(* What is released (ReleaseBundle).                                       *)

\* One package of a release, as ReleasedAsBuilt has it
AsBuilt(pack) ==
  /\ pack.metadata.modules = [k \in DOMAIN pack.code |-> pack.code[k].unit.name]
  /\ \A k \in DOMAIN pack.code :
       /\ pack.code[k].unit.metadata # "none" =>
            (pack.code[k].unit.metadata = "APTOS_METADATA_KEY_V1"
               <=> pack.code[k].version >= METADATA_V1_MIN_FILE_FORMAT_VERSION)
       /\ \A id \in pack.code[k].unit.imports \ ids_of(pack) :
            \E dep \in pack.metadata.deps : dep.account = id[1]

\* A package that is still to be built
Item(B, L) == [package : DOMAIN Sources, binding : B, latest : L]

\* What a release starts with
AskedFor(options) ==
  /\ DOMAIN options.build_options = DOMAIN DefaultOptions
  /\ options.packages \in Seq(DOMAIN Sources)
  /\ \E B : options.rust_bindings \in Seq(B)
  /\ \E L : options.package_use_latest_language \in Seq(L)

\* The package is the one that the options have at place i.
AsAsked(options, pack, i) ==
  /\ pack.metadata.name = Sources[options.packages[i]].name
  /\ \A k \in DOMAIN pack.code : pack.code[k].version =
       IF options.package_use_latest_language[i] THEN VERSION_MAX
       ELSE inferred_bytecode_version(options.build_options)

\* What was released and what is still to be released is what the lists have, zipped;
\* a failure leaves at most the bindings of the package at which it happened.
AskedInv ==
  LET items == zipped(release.options)
      done == Len(release.released)
  IN  /\ AskedFor(release.options)
      /\ done <= Len(items)
      /\ release.todo = SubSeq(items, done + 1, Len(items))
      /\ \A i \in 1 .. done : AsAsked(release.options, release.released[i], i)
      /\ release.status = "written" => done = Len(items)
      /\ bound(done) \subseteq bindings
      /\ bindings \subseteq bound(IF release.status = "failed" THEN done + 1 ELSE done)

\* A bundle is what was released, and scripts are made of a bundle.
ReleaseInv ==
  /\ DOMAIN release = {"status", "options", "todo", "released"}
  /\ DOMAIN deployment = DOMAIN NoDeployment
  /\ \E S : release.released \in Seq(S)
  /\ \A i \in DOMAIN release.released :
       AsBuilt(release.released[i]) /\ release.released[i].metadata.size \in Nat
  /\ bundle # NoBundle => release.status = "written" /\ bundle = release.released
  /\ AskedInv
  /\ \A i \in DOMAIN deployment.scripts :
       /\ bundle # NoBundle /\ i \in DOMAIN bundle
       /\ deployment.scripts[i].metadata = metadata_chunks(metadata_bytes(bundle[i]))

\* What a build makes of a source that compiles is released as ReleasedAsBuilt says.
LEMMA BuiltAsCompiled ==
  ASSUME NEW src, Compiles(src), NEW options, build(src, options) # NoPackage
  PROVE  LET pack == release_package(build(src, options))
         IN  /\ AsBuilt(pack) /\ pack.metadata.size \in Nat
             /\ pack.metadata.name = src.name /\ build(src, options).source = src
             /\ \A k \in DOMAIN pack.code :
                  pack.code[k].version = inferred_bytecode_version(options)
<1> DEFINE version == inferred_bytecode_version(options)
           units == inject_runtime_metadata(src, version)
           built == build(src, options)
           pack == release_package(built)
<1>1. built = [options |-> options, source |-> src, root_modules |-> units,
               compiled_abis |-> options.with_abis]
  BY DEF build, create_build_config
<1>2. /\ DOMAIN units = DOMAIN src.modules
      /\ \A k \in DOMAIN units :
           units[k] = [name |-> src.modules[k], imports |-> src.imports[src.modules[k]],
                       metadata |-> IF src.modules[k] \in src.marked
                                      THEN metadata_key(version) ELSE "none"]
  BY DEF inject_runtime_metadata
<1> HIDE DEF units, built, version
<1>3. /\ pack.address = src.address
      /\ pack.code = [k \in DOMAIN units |-> [unit |-> units[k], version |-> version]]
      /\ pack.metadata.name = src.name
      /\ pack.metadata.modules = [k \in DOMAIN units |-> units[k].name]
      /\ pack.metadata.deps = src.dep_units \cup src.bytecode_deps
      /\ pack.metadata.size
           = src.metadata_size + IF options.with_srcs THEN src.source_size ELSE 0
  BY <1>1 DEF release_package, extract_metadata, extract_code, package_deps, version
<1> HIDE DEF pack
<1>4. pack.metadata.size \in Nat
  BY <1>3 DEF Compiles
<1>5. DOMAIN pack.code = DOMAIN units /\ \A k \in DOMAIN units :
        pack.code[k].unit = units[k] /\ pack.code[k].version = version
  BY <1>3
<1>6. ids_of(pack) = {<<src.address, src.modules[k]>> : k \in DOMAIN src.modules}
  <2>1. \A k \in DOMAIN units : id_of(pack, k) = <<src.address, src.modules[k]>>
    <3>1. ASSUME NEW k \in DOMAIN units
          PROVE  units[k].name = src.modules[k]
      <4>1. units[k] = [name |-> src.modules[k], imports |-> src.imports[src.modules[k]],
                        metadata |-> IF src.modules[k] \in src.marked
                                       THEN metadata_key(version) ELSE "none"]
        BY <1>2
      <4> QED
        BY ONLY <4>1
    <3> QED
      BY <1>3, <1>5, <3>1 DEF id_of
  <2>2. ids_of(pack) = {id_of(pack, k) : k \in DOMAIN units}
    BY <1>5 DEF ids_of
  <2> QED
    BY <1>2, <2>1, <2>2
<1>7. ASSUME NEW k \in DOMAIN units
      PROVE  /\ units[k].metadata # "none" =>
                  (units[k].metadata = "APTOS_METADATA_KEY_V1"
                     <=> version >= METADATA_V1_MIN_FILE_FORMAT_VERSION)
             /\ \A id \in units[k].imports \ ids_of(pack) :
                  \E dep \in pack.metadata.deps : dep.account = id[1]
  <2>0. units[k] = [name |-> src.modules[k], imports |-> src.imports[src.modules[k]],
                    metadata |-> IF src.modules[k] \in src.marked
                                   THEN metadata_key(version) ELSE "none"]
    BY <1>2
  <2>1. units[k].metadata \in {"none", metadata_key(version)}
    BY ONLY <2>0
  <2>2. /\ version >= METADATA_V1_MIN_FILE_FORMAT_VERSION
             => metadata_key(version) = "APTOS_METADATA_KEY_V1"
        /\ ~(version >= METADATA_V1_MIN_FILE_FORMAT_VERSION)
             => metadata_key(version) = "APTOS_METADATA_KEY"
    BY DEF metadata_key
  <2>3. ASSUME NEW id \in units[k].imports \ ids_of(pack)
        PROVE  \E dep \in pack.metadata.deps : dep.account = id[1]
    <3>0. units[k].imports = src.imports[src.modules[k]]
      BY ONLY <2>0
    <3>1. id \in src.imports[src.modules[k]] /\ k \in DOMAIN src.modules
      BY <1>2, <2>3, <3>0
    <3>2. ~\E j \in DOMAIN src.modules : id = <<src.address, src.modules[j]>>
      BY <1>6
    <3> QED
      BY <1>3, <3>1, <3>2 DEF Compiles
  <2> HIDE DEF METADATA_V1_MIN_FILE_FORMAT_VERSION
  <2>4. "APTOS_METADATA_KEY_V1" # "APTOS_METADATA_KEY"
    OBVIOUS
  <2> QED
    BY <2>1, <2>2, <2>3, <2>4
<1>8. pack.metadata.modules = [k \in DOMAIN pack.code |-> pack.code[k].unit.name]
  BY <1>3, <1>5
<1>9. AsBuilt(pack)
  BY <1>5, <1>7, <1>8 DEF AsBuilt
<1>10. pack.metadata.name = src.name /\ built.source = src
  BY <1>1, <1>3
<1> QED
  BY <1>4, <1>5, <1>9, <1>10 DEF pack, built, version

\* zip takes as many elements as the shortest list has.
LEMMA ZippedItems ==
  ASSUME NEW options, AskedFor(options)
  PROVE  LET items == zipped(options)
             lengths == {Len(options.packages), Len(options.rust_bindings),
                         Len(options.package_use_latest_language)}
         IN  /\ \E B, L : items \in Seq(Item(B, L))
             /\ Len(items) \in lengths /\ \A k \in lengths : Len(items) <= k
             /\ \A i \in 1 .. Len(items) :
                  items[i] = [package |-> options.packages[i],
                              binding |-> options.rust_bindings[i],
                              latest |-> options.package_use_latest_language[i]]
<1>0. PICK B, L : /\ options.packages \in Seq(DOMAIN Sources)
                  /\ options.rust_bindings \in Seq(B)
                  /\ options.package_use_latest_language \in Seq(L)
  BY DEF AskedFor
<1> DEFINE lengths == {Len(options.packages), Len(options.rust_bindings),
                       Len(options.package_use_latest_language)}
           n == CHOOSE m \in lengths : \A k \in lengths : m <= k
<1>1. lengths \subseteq Nat /\ lengths # {}
  BY <1>0
<1>2. n \in lengths /\ \A k \in lengths : n <= k
  <2>1. \E m \in lengths : \A k \in lengths : m <= k
    BY <1>1, LeastPosition
  <2> HIDE DEF lengths
  <2> QED
    BY <2>1
<1> HIDE DEF n
<1>3. /\ n \in Nat /\ n <= Len(options.packages) /\ n <= Len(options.rust_bindings)
      /\ n <= Len(options.package_use_latest_language)
  BY <1>1, <1>2
<1>4. zipped(options) = [i \in 1 .. n |->
        [package |-> options.packages[i], binding |-> options.rust_bindings[i],
         latest |-> options.package_use_latest_language[i]]]
  BY DEF zipped, n
<1>5. ASSUME NEW i \in 1 .. n
      PROVE  [package |-> options.packages[i], binding |-> options.rust_bindings[i],
              latest |-> options.package_use_latest_language[i]] \in Item(B, L)
  <2>1. /\ i \in 1 .. Len(options.packages) /\ i \in 1 .. Len(options.rust_bindings)
        /\ i \in 1 .. Len(options.package_use_latest_language)
    BY <1>0, <1>3
  <2>2. /\ options.packages[i] \in DOMAIN Sources /\ options.rust_bindings[i] \in B
        /\ options.package_use_latest_language[i] \in L
    BY <1>0, <2>1, ElementOfSeq
  <2> QED
    BY <2>2 DEF Item
<1>6. zipped(options) \in [1 .. n -> Item(B, L)]
  BY <1>4, <1>5
<1>7. zipped(options) \in Seq(Item(B, L)) /\ Len(zipped(options)) = n
  BY <1>3, <1>6
<1>8. \A i \in 1 .. n :
        zipped(options)[i] = [package |-> options.packages[i],
                              binding |-> options.rust_bindings[i],
                              latest |-> options.package_use_latest_language[i]]
  BY <1>4
<1> QED
  BY <1>2, <1>7, <1>8

\* All options that a release starts with are lists for packages that there are.
LEMMA OptionsAskFor ==
  ASSUME NEW options \in {create_release_options(with_srcs) : with_srcs \in BOOLEAN}
                           \cup CustomOptions
  PROVE  AskedFor(options)
<1>1. CASE options \in CustomOptions
  BY <1>1, ReleaseConstants DEF AskedFor
<1>2. ASSUME NEW with_srcs \in BOOLEAN, options = create_release_options(with_srcs)
      PROVE  AskedFor(options)
  <2>1. /\ DOMAIN target_packages = 1 .. 6
        /\ \A i \in 1 .. 6 : target_packages[i][1] \in DOMAIN Sources
    <3>1. DOMAIN target_packages = 1 .. 6
      BY DEF target_packages
    <3> QED
      BY <3>1, ReleaseConstants
  <2> DEFINE first == column(target_packages, 1)
             second == column(target_packages, 2)
             third == column(target_packages, 3)
             B == {target_packages[i][2] : i \in 1 .. 6}
             L == {target_packages[i][3] : i \in 1 .. 6}
  <2>2. /\ first \in [1 .. 6 -> DOMAIN Sources] /\ second \in [1 .. 6 -> B]
        /\ third \in [1 .. 6 -> L]
    BY <2>1 DEF column
  <2> HIDE DEF first, second, third, B, L
  <2>3. first \in Seq(DOMAIN Sources) /\ second \in Seq(B) /\ third \in Seq(L)
    <3>1. ASSUME NEW S, NEW f \in [1 .. 6 -> S]
          PROVE  f \in Seq(S)
      <4>1. \A len \in Nat : f \in [1 .. len -> S] => f \in Seq(S)
        OBVIOUS
      <4> QED
        BY <4>1
    <3> QED
      BY <2>2, <3>1
  <2>4. /\ options.packages = first /\ options.rust_bindings = second
        /\ options.package_use_latest_language = third
    BY <1>2 DEF create_release_options, first, second, third
  <2>5. DOMAIN options.build_options = DOMAIN DefaultOptions
    BY <1>2 DEF create_release_options, DefaultOptions
  <2> QED
    BY <2>3, <2>4, <2>5 DEF AskedFor
<1> QED
  BY <1>1, <1>2

LEMMA ReleaseInvInitially == ReleaseInit => ReleaseInv
<1> SUFFICES ASSUME ReleaseInit
             PROVE  ReleaseInv
  OBVIOUS
<1>1. PICK options \in {create_release_options(with_srcs) : with_srcs \in BOOLEAN}
                         \cup CustomOptions :
        release = [status |-> "building", options |-> options, todo |-> zipped(options),
                   released |-> <<>>]
  BY DEF ReleaseInit
<1>2. AskedFor(options)
  BY OptionsAskFor
<1>3. /\ DOMAIN release = {"status", "options", "todo", "released"}
      /\ release.released = <<>> /\ release.options = options
      /\ release.status = "building" /\ release.todo = zipped(options)
  BY <1>1
<1>4. deployment = NoDeployment /\ DOMAIN deployment.scripts = {}
  BY DEF ReleaseInit, NoDeployment
<1>5. bundle = NoBundle /\ bindings = {}
  BY DEF ReleaseInit
<1>6. release.released \in Seq({}) /\ Len(release.released) = 0
  BY <1>3
<1>7. AskedInv
  <2> DEFINE items == zipped(options)
  <2>1. PICK B, L : items \in Seq(Item(B, L))
    BY <1>2, ZippedItems
  <2>2. 0 <= Len(items) /\ items = SubSeq(items, 1, Len(items))
    BY <2>1
  <2>3. bound(0) = {}
    BY DEF bound
  <2> HIDE DEF items
  <2>4. zipped(release.options) = items /\ release.todo = items
    BY <1>3 DEF items
  <2> QED
    BY <1>2, <1>3, <1>5, <1>6, <2>2, <2>3, <2>4 DEF AskedInv
<1> QED
  BY <1>3, <1>4, <1>5, <1>6, <1>7 DEF ReleaseInv

\* While there is something to do, it begins with the item behind those that are done.
LEMMA NextItem ==
  ASSUME ReleaseInv, release.todo # <<>>
  PROVE  LET options == release.options
             done == Len(release.released)
             n == Len(zipped(options))
         IN  /\ done \in Nat /\ n \in Nat /\ done + 1 <= n
             /\ Head(release.todo) = [package |-> options.packages[done + 1],
                                      binding |-> options.rust_bindings[done + 1],
                                      latest |-> options.package_use_latest_language[done + 1]]
             /\ Head(release.todo).binding = options.rust_bindings[done + 1]
             /\ Head(release.todo).package \in DOMAIN Sources
             /\ Tail(release.todo) = SubSeq(zipped(options), done + 2, n)
<1> DEFINE options == release.options
           done == Len(release.released)
           items == zipped(options)
           n == Len(items)
<1>1. AskedFor(options) /\ done <= n /\ release.todo = SubSeq(items, done + 1, n)
  BY DEF ReleaseInv, AskedInv
<1>2. done \in Nat
  BY DEF ReleaseInv
<1>3. PICK B, L : items \in Seq(Item(B, L))
  BY <1>1, ZippedItems
<1>4. \A i \in 1 .. n :
        items[i] = [package |-> options.packages[i], binding |-> options.rust_bindings[i],
                    latest |-> options.package_use_latest_language[i]]
  BY <1>1, ZippedItems
<1> HIDE DEF items, done
<1>5. n \in Nat
  BY <1>3
<1>6. done + 1 <= n
  <2>1. done + 1 > n => SubSeq(items, done + 1, n) = <<>>
    BY <1>2, <1>3, <1>5
  <2> QED
    BY <1>1, <1>2, <1>5, <2>1
<1>7. /\ Head(release.todo) = items[done + 1]
      /\ Tail(release.todo) = SubSeq(items, done + 2, n)
  <2>1. /\ release.todo \in Seq(Item(B, L)) /\ Len(release.todo) = n - done
        /\ \A i \in 1 .. n - done : release.todo[i] = items[done + i]
    BY <1>1, <1>2, <1>3, <1>5, <1>6, SubSeqProperties
  <2>2. Head(release.todo) = items[done + 1]
    BY <1>2, <1>5, <1>6, <2>1
  <2>3. /\ Tail(release.todo) \in Seq(Item(B, L)) /\ Len(Tail(release.todo)) = n - done - 1
        /\ \A i \in 1 .. n - done - 1 : Tail(release.todo)[i] = release.todo[i + 1]
    BY <1>2, <1>5, <1>6, <2>1, HeadTailProperties
  <2>4. /\ SubSeq(items, done + 2, n) \in Seq(Item(B, L))
        /\ Len(SubSeq(items, done + 2, n)) = n - done - 1
        /\ \A i \in 1 .. n - done - 1 : SubSeq(items, done + 2, n)[i] = items[done + 1 + i]
    BY <1>2, <1>3, <1>5, <1>6, SubSeqProperties
  <2>5. \A i \in 1 .. n - done - 1 : Tail(release.todo)[i] = SubSeq(items, done + 2, n)[i]
    <3>1. ASSUME NEW i \in 1 .. n - done - 1
          PROVE  Tail(release.todo)[i] = SubSeq(items, done + 2, n)[i]
      <4>1. i + 1 \in 1 .. n - done /\ done + (i + 1) = done + 1 + i
        BY <1>2, <1>5, <1>6
      <4> QED
        BY <2>1, <2>3, <2>4, <4>1
    <3> QED
      BY <3>1
  <2>6. n - done - 1 \in Nat
    BY <1>2, <1>5, <1>6
  <2> QED
    BY <2>2, <2>3, <2>4, <2>5, <2>6, SeqEqual
<1>8. done + 1 \in 1 .. n
  BY <1>2, <1>5, <1>6
<1>9. Head(release.todo).package \in DOMAIN Sources
  <2>1. items[done + 1] \in Item(B, L)
    BY <1>3, <1>8, ElementOfSeq
  <2> QED
    BY <1>7, <2>1 DEF Item
<1>10. /\ Head(release.todo) = [package |-> options.packages[done + 1],
                                binding |-> options.rust_bindings[done + 1],
                                latest |-> options.package_use_latest_language[done + 1]]
       /\ Head(release.todo).binding = options.rust_bindings[done + 1]
  BY <1>4, <1>7, <1>8
<1> QED
  BY <1>2, <1>5, <1>6, <1>7, <1>9, <1>10 DEF items, done

\* One more package that was asked for
LEMMA BoundNext ==
  ASSUME NEW n \in Nat
  PROVE  bound(n + 1) =
           bound(n) \cup IF release.options.rust_bindings[n + 1] = "" THEN {}
                         ELSE {Sources[release.options.packages[n + 1]].name}
<1>1. 1 .. n + 1 = (1 .. n) \cup {n + 1}
  OBVIOUS
<1>2. {j \in 1 .. n + 1 : release.options.rust_bindings[j] # ""} =
        {j \in 1 .. n : release.options.rust_bindings[j] # ""}
          \cup {j \in {n + 1} : release.options.rust_bindings[j] # ""}
  BY <1>1
<1> QED
  BY <1>2 DEF bound

\* The package that comes next, when it is built, is as it was compiled and asked for.
LEMMA NextIsBuilt ==
  ASSUME ReleaseInv, release.todo # <<>>, built_next # NoPackage
  PROVE  LET pack == release_package(built_next)
         IN  /\ AsBuilt(pack) /\ pack.metadata.size \in Nat
             /\ AsAsked(release.options, pack, Len(release.released) + 1)
             /\ built_next.source.name = pack.metadata.name
<1> DEFINE options == release.options
           next == Len(release.released) + 1
           item == Head(release.todo)
           src == Sources[item.package]
           pack == release_package(built_next)
<1>1. /\ item = [package |-> options.packages[next], binding |-> options.rust_bindings[next],
                 latest |-> options.package_use_latest_language[next]]
      /\ item.package \in DOMAIN Sources
  BY NextItem
<1>2. item.package = options.packages[next]
      /\ item.latest = options.package_use_latest_language[next]
  BY <1>1
<1>3. Compiles(src)
  BY <1>1, ReleaseConstants
<1>4. built_next = build(src, package_options(item))
  BY DEF built_next
<1> HIDE DEF item, src
<1>5. /\ AsBuilt(pack) /\ pack.metadata.size \in Nat
      /\ pack.metadata.name = src.name /\ built_next.source = src
      /\ \A k \in DOMAIN pack.code :
           pack.code[k].version = inferred_bytecode_version(package_options(item))
  BY <1>3, <1>4, BuiltAsCompiled
<1>6. inferred_bytecode_version(package_options(item)) =
        IF options.package_use_latest_language[next] THEN VERSION_MAX
        ELSE inferred_bytecode_version(options.build_options)
  <2>1. CASE item.latest
    <3> DEFINE set == set_latest_language(options.build_options)
    <3>1. DOMAIN options.build_options = DOMAIN DefaultOptions
      BY DEF ReleaseInv, AskedInv, AskedFor
    <3>2. "bytecode_version" \in DOMAIN options.build_options
      BY <3>1 DEF DefaultOptions
    <3>3. set.bytecode_version = VERSION_MAX
      BY <3>2 DEF set_latest_language
    <3>4. package_options(item) = set
      BY <2>1 DEF package_options
    <3> HIDE DEF set
    <3>5. inferred_bytecode_version(set) = VERSION_MAX
      BY <3>3, ReleaseConstants DEF inferred_bytecode_version, infer_bytecode_version
    <3> QED
      BY <1>2, <2>1, <3>4, <3>5
  <2>2. CASE ~item.latest
    BY <1>2, <2>2 DEF package_options
  <2> QED
    BY <2>1, <2>2
<1> QED
  BY <1>2, <1>5, <1>6 DEF AsAsked, src

LEMMA BuildKeepsRelease == ASSUME ReleaseInv, build_package PROVE ReleaseInv'
<1> DEFINE pack == release_package(built_next)
           done == Len(release.released)
           items == zipped(release.options)
<1>0. /\ release.status = "building" /\ release.todo # <<>>
      /\ release' = [release EXCEPT !.todo = Tail(@), !.released = Append(@, pack)]
      /\ bindings' = IF Head(release.todo).binding = "" THEN bindings
                     ELSE bindings \cup {built_next.source.name}
      /\ UNCHANGED <<bundle, deployment>>
      /\ built_next # NoPackage
  BY DEF build_package, release_fails
<1>1. /\ AsBuilt(pack) /\ pack.metadata.size \in Nat
      /\ AsAsked(release.options, pack, done + 1)
      /\ built_next.source.name = pack.metadata.name
  BY <1>0, NextIsBuilt
<1>2. /\ done \in Nat /\ Len(items) \in Nat /\ done + 1 <= Len(items)
      /\ Head(release.todo).binding = release.options.rust_bindings[done + 1]
      /\ Tail(release.todo) = SubSeq(items, done + 2, Len(items))
  BY <1>0, NextItem
<1> HIDE DEF pack, items
<1>3. /\ DOMAIN release' = {"status", "options", "todo", "released"}
      /\ release'.status = "building" /\ release'.todo = Tail(release.todo)
      /\ release'.released = Append(release.released, pack)
      /\ release'.options = release.options
  BY <1>0 DEF ReleaseInv
<1>5. PICK S : release.released \in Seq(S)
  BY DEF ReleaseInv
<1>6. release.released \in Seq(S \cup {pack})
  BY <1>5
<1>7. /\ release'.released \in Seq(S \cup {pack}) /\ Len(release'.released) = done + 1
      /\ \A i \in 1 .. done : release'.released[i] = release.released[i]
      /\ release'.released[done + 1] = pack
  BY <1>3, <1>6, AppendProperties
<1>8. DOMAIN release.released = 1 .. done /\ DOMAIN release'.released = 1 .. done + 1
  BY <1>6, <1>7
<1>9. \A i \in 1 .. done + 1 : i \in 1 .. done \/ i = done + 1
  BY <1>2
<1>10. \A i \in DOMAIN release'.released :
         AsBuilt(release'.released[i]) /\ release'.released[i].metadata.size \in Nat
  BY <1>1, <1>7, <1>8, <1>9 DEF ReleaseInv
<1>11. AskedInv'
  <2>1. AskedFor(release.options)
    BY DEF ReleaseInv, AskedInv
  <2>2. \A i \in 1 .. done + 1 : AsAsked(release.options, release'.released[i], i)
    <3>1. \A i \in 1 .. done : AsAsked(release.options, release.released[i], i)
      BY DEF ReleaseInv, AskedInv
    <3> QED
      BY <1>1, <1>7, <1>9, <3>1
  <2>3. bindings' = bound(done + 1)
    <3>1. bindings = bound(done)
      <4>1. /\ bound(done) \subseteq bindings /\ bindings \subseteq bound(done)
        BY <1>0 DEF ReleaseInv, AskedInv
      <4> QED
        BY <4>1
    <3>2. built_next.source.name = Sources[release.options.packages[done + 1]].name
      BY <1>1 DEF AsAsked
    <3> HIDE DEF done
    <3> QED
      BY <1>0, <1>2, <3>1, <3>2, BoundNext
  <2>4. bound(Len(release.released))' = bound(done + 1)
    BY <1>3, <1>7 DEF bound
  <2>5. zipped(release.options)' = items
    BY <1>3 DEF items
  <2>6. done + 1 + 1 = done + 2
    BY <1>2
  <2>7. release'.todo = SubSeq(items, (done + 1) + 1, Len(items))
    BY <1>2, <1>3, <2>6
  <2> HIDE DEF done
  <2>8. release'.status # "failed" /\ release'.status # "written"
    BY <1>3
  <2>9. /\ bound(Len(release.released))' = bindings'
        /\ Len(release'.released) = done + 1 /\ release'.options = release.options
    BY <1>3, <1>7, <2>3, <2>4
  <2> QED
    BY <1>2, <2>1, <2>2, <2>5, <2>7, <2>8, <2>9 DEF AskedInv
<1>12. bundle' = NoBundle /\ DOMAIN deployment'.scripts = {}
  BY <1>0 DEF ReleaseInv
<1>13. DOMAIN deployment' = DOMAIN NoDeployment
  BY <1>0 DEF ReleaseInv
<1> QED
  BY <1>3, <1>7, <1>10, <1>11, <1>12, <1>13 DEF ReleaseInv, NoDeployment

LEMMA FailKeepsRelease == ASSUME ReleaseInv, fail_release PROVE ReleaseInv'
<1> DEFINE done == Len(release.released)
<1>1. /\ release.status = "building" /\ release.todo # <<>>
      /\ release' = [release EXCEPT !.status = "failed"]
      /\ UNCHANGED <<bundle, deployment>>
  BY DEF fail_release
<1>2. /\ DOMAIN release' = {"status", "options", "todo", "released"}
      /\ release'.status = "failed" /\ release'.todo = release.todo
      /\ release'.released = release.released /\ release'.options = release.options
  BY <1>1 DEF ReleaseInv
<1>3. bundle' = NoBundle /\ DOMAIN deployment'.scripts = {}
  BY <1>1 DEF ReleaseInv
<1>4. deployment' = deployment
  BY <1>1
<1>5. /\ done \in Nat
      /\ Head(release.todo).binding = release.options.rust_bindings[done + 1]
  BY <1>1, NextItem
<1>6. bound(done) = bindings
  <2>1. bound(done) \subseteq bindings /\ bindings \subseteq bound(done)
    BY <1>1 DEF ReleaseInv, AskedInv
  <2> QED
    BY <2>1
<1>7. \/ bindings' = bindings
      \/ /\ built_next # NoPackage /\ Head(release.todo).binding # ""
         /\ bindings' = bindings \cup {built_next.source.name}
  BY DEF fail_release
<1>8. built_next # NoPackage =>
        built_next.source.name = Sources[release.options.packages[done + 1]].name
  BY <1>1, NextIsBuilt DEF AsAsked
<1>9. bound(done) \subseteq bindings' /\ bindings' \subseteq bound(done + 1)
  <2> HIDE DEF done
  <2> QED
    BY <1>5, <1>6, <1>7, <1>8, BoundNext
<1>10. bound(done)' = bound(done) /\ bound(done + 1)' = bound(done + 1)
  BY <1>2 DEF bound
<1>11. AskedInv'
  BY <1>1, <1>2, <1>9, <1>10 DEF ReleaseInv, AskedInv
<1> QED
  BY <1>2, <1>3, <1>4, <1>11 DEF ReleaseInv

LEMMA WriteKeepsRelease == ASSUME ReleaseInv, write_bundle PROVE ReleaseInv'
<1> DEFINE done == Len(release.released)
           n == Len(zipped(release.options))
<1>1. /\ release.status = "building" /\ release.todo = <<>> /\ bundle' = release.released
      /\ release' = [release EXCEPT !.status = "written"]
      /\ UNCHANGED <<bindings, deployment>>
  BY DEF write_bundle
<1>2. /\ DOMAIN release' = {"status", "options", "todo", "released"}
      /\ release'.status = "written" /\ release'.todo = release.todo
      /\ release'.released = release.released /\ release'.options = release.options
  BY <1>1 DEF ReleaseInv
<1>3. DOMAIN deployment'.scripts = {} /\ deployment' = deployment
  BY <1>1 DEF ReleaseInv
<1>4. done = n
  <2>1. /\ done <= n /\ SubSeq(zipped(release.options), done + 1, n) = <<>>
        /\ done \in Nat /\ AskedFor(release.options)
    BY <1>1 DEF ReleaseInv, AskedInv
  <2>2. PICK B, L : zipped(release.options) \in Seq(Item(B, L))
    BY <2>1, ZippedItems
  <2> DEFINE items == zipped(release.options)
  <2> HIDE DEF items, done
  <2>3. Len(items) \in Nat /\ \A i \in done + 1 .. Len(items) : items[i] \in Item(B, L)
    BY <2>1, <2>2, ElementOfSeq DEF items
  <2>4. done + 1 <= Len(items) => Len(SubSeq(items, done + 1, Len(items))) = Len(items) - done
    BY <2>1, <2>3, SubSeqProperties
  <2>5. SubSeq(items, done + 1, Len(items)) = <<>> /\ done <= Len(items)
    BY <2>1 DEF items
  <2>6. ~(done + 1 <= Len(items))
    <3>0. Len(<<>>) = 0
      OBVIOUS
    <3>1. Len(SubSeq(items, done + 1, Len(items))) = 0
      BY ONLY <2>5, <3>0, Zenon
    <3> QED
      BY <2>1, <2>3, <2>4, <3>1
  <2>7. done = Len(items)
    <3>1. done \in Nat
      BY <2>1
    <3> QED
      BY <2>3, <2>5, <2>6, <3>1
  <2> QED
    BY <2>7 DEF items
<1>5. bound(done)' = bound(done) /\ bindings' = bindings
  BY <1>1, <1>2 DEF bound
<1>6. AskedInv'
  BY <1>1, <1>2, <1>4, <1>5 DEF ReleaseInv, AskedInv
<1> QED
  BY <1>1, <1>2, <1>3, <1>6 DEF ReleaseInv

\* AskedInv is about the release and its bindings alone.
LEMMA AskedUnchanged ==
  ASSUME AskedInv, release' = release, bindings' = bindings
  PROVE  AskedInv'
<1> DEFINE done == Len(release.released)
           last == IF release.status = "failed" THEN done + 1 ELSE done
<1>1. bound(done)' = bound(done) /\ bound(last)' = bound(last)
  BY DEF bound
<1> QED
  BY <1>1 DEF AskedInv

LEMMA ProposingKeepsRelease ==
  ASSUME ReleaseInv, NEW mode, generate_proposals(mode)
  PROVE  ReleaseInv'
<1> DEFINE script(i) ==
      generate_script_proposal(bundle[i],
        IF mode = "multi_step" /\ i < Len(bundle) THEN i + 1 ELSE NoHash)
           scripts == [i \in DOMAIN bundle |-> script(i)]
<1>1. /\ bundle # NoBundle /\ UNCHANGED <<release, bindings, bundle>>
      /\ deployment' = [deployment EXCEPT !.mode = mode, !.next = 1, !.scripts = scripts]
  BY DEF generate_proposals
<1>2. \A i \in DOMAIN bundle : script(i).metadata = metadata_chunks(metadata_bytes(bundle[i]))
  BY DEF generate_script_proposal
<1> HIDE DEF script
<1>3. DOMAIN deployment = {"mode", "scripts", "next", "modules", "done"}
  BY DEF ReleaseInv, NoDeployment
<1>4. DOMAIN deployment' = DOMAIN deployment /\ deployment'.scripts = scripts
  BY <1>1, <1>3
<1>5. \A i \in DOMAIN deployment'.scripts :
        /\ bundle' # NoBundle /\ i \in DOMAIN bundle'
        /\ deployment'.scripts[i].metadata = metadata_chunks(metadata_bytes(bundle'[i]))
  BY <1>1, <1>2, <1>4
<1>6. UNCHANGED release /\ UNCHANGED bindings /\ UNCHANGED bundle
  BY <1>1
<1>7. DOMAIN deployment' = DOMAIN NoDeployment
  BY <1>4 DEF ReleaseInv
<1> QED
  BY <1>5, <1>6, <1>7, AskedUnchanged DEF ReleaseInv, AsBuilt, ids_of, id_of

\* The steps of a deployment leave the scripts as they are.
LEMMA DeployKeepsRelease ==
  ASSUME ReleaseInv,
         \/ start_genesis \/ genesis_module
         \/ \E i : execute_proposal(i) \/ genesis_initialize(i)
  PROVE  ReleaseInv'
<1>1. /\ UNCHANGED release /\ UNCHANGED bindings /\ UNCHANGED bundle
      /\ DOMAIN deployment' = DOMAIN deployment /\ deployment'.scripts = deployment.scripts
  <2>1. DOMAIN deployment = {"mode", "scripts", "next", "modules", "done"}
    BY DEF ReleaseInv, NoDeployment
  <2>2. CASE start_genesis
    BY <2>1, <2>2 DEF start_genesis
  <2>3. CASE genesis_module
    BY <2>1, <2>3 DEF genesis_module
  <2>4. ASSUME NEW i, execute_proposal(i)
        PROVE  /\ UNCHANGED release /\ UNCHANGED bindings /\ UNCHANGED bundle
               /\ DOMAIN deployment' = DOMAIN deployment
               /\ deployment'.scripts = deployment.scripts
    BY <2>1, <2>4 DEF execute_proposal
  <2>5. ASSUME NEW i, genesis_initialize(i)
        PROVE  /\ UNCHANGED release /\ UNCHANGED bindings /\ UNCHANGED bundle
               /\ DOMAIN deployment' = DOMAIN deployment
               /\ deployment'.scripts = deployment.scripts
    BY <2>1, <2>5 DEF genesis_initialize
  <2> QED
    BY <2>2, <2>3, <2>4, <2>5
<1> QED
  BY <1>1, AskedUnchanged DEF ReleaseInv, AsBuilt, ids_of, id_of

LEMMA StepKeepsRelease == ReleaseInv /\ [ReleaseNext]_allReleaseVars => ReleaseInv'
<1> SUFFICES ASSUME ReleaseInv, [ReleaseNext]_allReleaseVars
             PROVE  ReleaseInv'
  OBVIOUS
<1>1. CASE build_package
  BY <1>1, BuildKeepsRelease
<1>2. CASE fail_release
  BY <1>2, FailKeepsRelease
<1>3. CASE write_bundle
  BY <1>3, WriteKeepsRelease
<1>4. CASE \E mode \in {"testnet", "single", "multi_step"} : generate_proposals(mode)
  BY <1>4, ProposingKeepsRelease
<1>5. CASE start_genesis \/ Deploy
  BY <1>5, DeployKeepsRelease DEF Deploy
<1>6. CASE UNCHANGED allReleaseVars
  BY <1>6, AskedUnchanged DEF allReleaseVars, releaseVars, ReleaseInv, AsBuilt, ids_of, id_of
<1> QED
  BY <1>1, <1>2, <1>3, <1>4, <1>5, <1>6 DEF ReleaseNext

LEMMA AsBuiltFromInv == ReleaseInv => ReleasedAsBuilt
<1> SUFFICES ASSUME ReleaseInv
             PROVE  ReleasedAsBuilt
  OBVIOUS
<1>1. \A i \in DOMAIN release.released : AsBuilt(release.released[i])
  BY DEF ReleaseInv
<1>2. ASSUME NEW i \in DOMAIN deployment.scripts
      PROVE  LET chunks == deployment.scripts[i].metadata
             IN  /\ appended(chunks) = metadata_bytes(bundle[i])
                 /\ \A k \in DOMAIN chunks : Len(chunks[k]) <= ChunkSize
  <2> DEFINE size == bundle[i].metadata.size
             data == metadata_bytes(bundle[i])
             Bytes == {<<bundle[i].metadata.name, j>> : j \in 1 .. size}
  <2>1. size \in Nat /\ deployment.scripts[i].metadata = metadata_chunks(data)
    BY DEF ReleaseInv
  <2>2. data \in Seq(Bytes)
    <3>1. data \in [1 .. size -> Bytes]
      BY DEF metadata_bytes
    <3> HIDE DEF data, Bytes, size
    <3> QED
      BY <2>1, <3>1
  <2> HIDE DEF data, Bytes
  <2>3. /\ appended(metadata_chunks(data)) = data
        /\ \A k \in DOMAIN metadata_chunks(data) : Len(metadata_chunks(data)[k]) <= ChunkSize
    BY <2>2, ChunksAreTheData
  <2> QED
    BY <2>1, <2>3 DEF data
<1>3. ReleasedAsAsked
  <2> DEFINE items == zipped(release.options)
             done == Len(release.released)
  <2>1. /\ Len(items) \in {Len(release.options.packages), Len(release.options.rust_bindings),
                           Len(release.options.package_use_latest_language)}
        /\ \A k \in {Len(release.options.packages), Len(release.options.rust_bindings),
                     Len(release.options.package_use_latest_language)} : Len(items) <= k
    BY ZippedItems DEF ReleaseInv, AskedInv
  <2>2. bundle # NoBundle => bundle = release.released /\ done = Len(items)
    BY DEF ReleaseInv, AskedInv
  <2>3. \A i \in 1 .. done : AsAsked(release.options, release.released[i], i)
    BY DEF ReleaseInv, AskedInv
  <2>4. /\ bound(done) \subseteq bindings
        /\ bindings \subseteq bound(IF release.status = "failed" THEN done + 1 ELSE done)
    BY DEF ReleaseInv, AskedInv
  <2> HIDE DEF items
  <2> QED
    BY <2>1, <2>2, <2>3, <2>4 DEF ReleasedAsAsked, AsAsked
<1> QED
  BY <1>1, <1>2, <1>3 DEF ReleasedAsBuilt, AsBuilt

\* A released package is what was built: its metadata tells of its modules and of
\* what they import, the VM finds the runtime metadata, and the scripts hold the
\* metadata, whatever its size, in constants that Move allows; packages, their
\* languages and bindings are those asked for, wherever a release ended.
THEOREM ReleasedIsBuilt == ReleaseSpec => []ReleasedAsBuilt
<1>1. ReleaseInv /\ [ReleaseNext]_allReleaseVars => ReleaseInv'
  BY StepKeepsRelease
<1> QED
  BY <1>1, ReleaseInvInitially, AsBuiltFromInv, PTL DEF ReleaseSpec

-----------------------------------------------------------------------------
(* What is uploaded (ChunkedPublish).                                      *)

Counts == [Parts -> Nat]
CodeChunk == [index : Nat, chunk : Seq(Byte)]
Payload == [function : {"stage", "publish"}, metadata_chunk : Seq(Byte),
            code_chunks : Seq(CodeChunk)]

\* The first bytes of a part of a build
first_bytes(b, sizes, part, n) == SubSeq(bytes(b, sizes, part), 1, n)

\* A chunk has the bytes of its module from those that were sent before it on, and
\* goes from one count of what is sent to the next.
Carries(b, sizes, c, from, to) ==
  LET k == c.index + 1
  IN  /\ k \in 1 .. Len(ModuleOrder)
      /\ from[k] <= to[k] /\ to[k] <= sizes[k]
      /\ c.chunk = SubSeq(bytes(b, sizes, k), from[k] + 1, to[k])
      /\ \A part \in Parts \ {k} : to[part] = from[part]

\* Counts go from one to another with the members of s: R has the steps.
Path(s, R, from, to) ==
  \E counts \in [0 .. Len(s) -> Counts] :
    /\ counts[0] = from /\ counts[Len(s)] = to
    /\ \A i \in 1 .. Len(s) : <<s[i], counts[i - 1], counts[i]>> \in R

CarryingChunk(b, sizes) ==
  {t \in CodeChunk \X Counts \X Counts : Carries(b, sizes, t[1], t[2], t[3])}

\* A payload has bytes of the metadata, and code chunks.
PayloadCarries(b, sizes, p, from, to) ==
  \E between \in Counts :
    /\ from[0] <= between[0] /\ between[0] <= sizes[0]
    /\ p.metadata_chunk = SubSeq(bytes(b, sizes, 0), from[0] + 1, between[0])
    /\ \A part \in Parts \ {0} : between[part] = from[part]
    /\ Path(p.code_chunks, CarryingChunk(b, sizes), between, to)

CarryingPayload(b, sizes) ==
  {t \in Payload \X Counts \X Counts : PayloadCarries(b, sizes, t[1], t[2], t[3])}

\* What a staging area has of a part
content(area, part) ==
  IF area = NoStagingArea THEN <<>>
  ELSE IF part = 0 THEN area.metadata_serialized
  ELSE IF part - 1 \in DOMAIN area.modules THEN area.modules[part - 1] ELSE <<>>

Ends(s, end) == \E front \in Seq(Byte) : s = front \o end

\* The area ends in what was sent of the build, whatever comes before it.
EndsIn(b, sizes, area, sent) ==
  \A part \in Parts : Ends(content(area, part), first_bytes(b, sizes, part, sent[part]))

-----------------------------------------------------------------------------
LEMMA BytesTyped ==
  ASSUME NEW b \in Build, NEW sizes \in Sizes, NEW part \in Parts
  PROVE  /\ bytes(b, sizes, part) \in Seq(Byte)
         /\ Len(bytes(b, sizes, part)) = sizes[part]
         /\ sizes[part] \in Nat /\ sizes[part] > 0
         /\ bytes(b, sizes, part)[1] = <<b, part, 1>>
<1>1. sizes[part] \in Nat /\ sizes[part] > 0
  BY UploadAssumption DEF Sizes
<1>2. bytes(b, sizes, part) = [i \in 1 .. sizes[part] |-> <<b, part, i>>]
  BY DEF bytes
<1>3. \A i \in 1 .. sizes[part] : <<b, part, i>> \in Byte
  BY <1>1 DEF Byte
<1>4. bytes(b, sizes, part) \in [1 .. sizes[part] -> Byte]
  BY <1>2, <1>3
<1>5. bytes(b, sizes, part) \in Seq(Byte) /\ Len(bytes(b, sizes, part)) = sizes[part]
  BY <1>1, <1>2, <1>4
<1>6. bytes(b, sizes, part)[1] = <<b, part, 1>>
  BY <1>1, <1>2
<1> QED
  BY <1>1, <1>5, <1>6

\* The bytes from one count to another, when they are counts of a part
LEMMA PieceTyped ==
  ASSUME NEW b \in Build, NEW sizes \in Sizes, NEW part \in Parts,
         NEW from \in Nat, NEW to \in Nat, to <= sizes[part]
  PROVE  /\ SubSeq(bytes(b, sizes, part), from + 1, to) \in Seq(Byte)
         /\ from <= to => Len(SubSeq(bytes(b, sizes, part), from + 1, to)) = to - from
<1> DEFINE whole == bytes(b, sizes, part)
<1>1. whole \in Seq(Byte) /\ Len(whole) = sizes[part] /\ sizes[part] \in Nat
  BY BytesTyped
<1> HIDE DEF whole
<1>2. \A i \in from + 1 .. to : whole[i] \in Byte
  BY <1>1
<1>3. /\ SubSeq(whole, from + 1, to) \in Seq(Byte)
      /\ Len(SubSeq(whole, from + 1, to)) = IF from + 1 <= to THEN to - (from + 1) + 1 ELSE 0
  BY <1>2, SubSeqProperties
<1> QED
  BY <1>3 DEF whole

\* What comes behind an end is an end with it.
LEMMA EndGrows ==
  ASSUME NEW b \in Build, NEW sizes \in Sizes, NEW part \in Parts,
         NEW from \in Nat, NEW to \in Nat, from <= to, to <= sizes[part],
         NEW s, Ends(s, first_bytes(b, sizes, part, from))
  PROVE  LET piece == SubSeq(bytes(b, sizes, part), from + 1, to)
         IN  Ends(s \o piece, first_bytes(b, sizes, part, to))
<1> DEFINE whole == bytes(b, sizes, part)
           begin == SubSeq(whole, 1, from)
           piece == SubSeq(whole, from + 1, to)
<1>1. whole \in Seq(Byte) /\ Len(whole) = sizes[part] /\ sizes[part] \in Nat
  BY BytesTyped
<1>2. piece \in Seq(Byte)
  BY PieceTyped
<1>3. begin \in Seq(Byte)
  <2>1. SubSeq(bytes(b, sizes, part), 0 + 1, from) \in Seq(Byte) /\ 0 + 1 = 1
    BY PieceTyped
  <2> QED
    BY <2>1
<1>4. PICK front \in Seq(Byte) : s = front \o begin
  BY DEF Ends, first_bytes
<1> HIDE DEF whole
<1>5. begin \o piece = SubSeq(whole, 1, to)
  <2>1. 1 \in 1 .. Len(whole) + 1 /\ from \in 1 - 1 .. Len(whole) /\ to \in from .. Len(whole)
    BY <1>1
  <2> QED
    BY <1>1, <2>1, ConcatAdjacentSubSeq
<1> HIDE DEF begin, piece
<1>6. (front \o begin) \o piece = front \o (begin \o piece)
  BY <1>2, <1>3, ConcatAssociative
<1> QED
  BY <1>4, <1>5, <1>6 DEF Ends, first_bytes, whole, piece

\* An end that is as long as the whole is the whole.
LEMMA EndIsWhole ==
  ASSUME NEW s \in Seq(Byte), NEW end \in Seq(Byte), Ends(s, end), Len(s) = Len(end)
  PROVE  s = end
<1>1. PICK front \in Seq(Byte) : s = front \o end
  BY DEF Ends
<1>2. Len(s) = Len(front) + Len(end) /\ Len(front) \in Nat /\ Len(end) \in Nat
  BY <1>1
<1>3. front = <<>>
  BY <1>2
<1> QED
  BY <1>1, <1>3

\* Everything ends in nothing.
LEMMA EndsInNothing ==
  ASSUME NEW b \in Build, NEW sizes \in Sizes, NEW part \in Parts, NEW s \in Seq(Byte)
  PROVE  Ends(s, first_bytes(b, sizes, part, 0))
<1>1. first_bytes(b, sizes, part, 0) = <<>>
  BY SubSeqEmpty DEF first_bytes
<1>2. s \o <<>> = s
  BY ConcatEmptySeq
<1> QED
  BY <1>1, <1>2 DEF Ends

-----------------------------------------------------------------------------
(* Staging on chain.                                                       *)

LEMMA LengthOfOrder == Len(ModuleOrder) \in Nat /\ Parts = 0 .. Len(ModuleOrder)
                       /\ DOMAIN ModuleOrder = 1 .. Len(ModuleOrder)
  BY UploadAssumption DEF Parts

\* A set of one value has that value.
LEMMA OnlyOne == \A v : (CHOOSE w \in {v} : TRUE) = v
  OBVIOUS

\* What a module has with one more chunk
with_chunk(modules, c) ==
  IF c.index \in DOMAIN modules THEN modules[c.index] \o c.chunk ELSE c.chunk

\* A staging area with other metadata
LEMMA AreaBegun ==
  ASSUME NEW S, NEW T, NEW U,
         NEW r \in [metadata_serialized : S, modules : T, last_module_idx : U], NEW z \in S
  PROVE  /\ [r EXCEPT !.metadata_serialized = z]
              \in [metadata_serialized : S, modules : T, last_module_idx : U]
         /\ [r EXCEPT !.metadata_serialized = z].metadata_serialized = z
         /\ [r EXCEPT !.metadata_serialized = z].modules = r.modules
  OBVIOUS

\* A chunk of a module of the package goes to a staging area.
LEMMA StagedTyped ==
  ASSUME NEW area \in StagingArea, NEW c \in CodeChunk, c.index + 1 \in 1 .. Len(ModuleOrder)
  PROVE  /\ staged_chunk(area, c) \in StagingArea
         /\ staged_chunk(area, c).metadata_serialized = area.metadata_serialized
         /\ staged_chunk(area, c).modules
              = set_entry(area.modules, c.index, with_chunk(area.modules, c))
         /\ DOMAIN staged_chunk(area, c).modules = DOMAIN area.modules \cup {c.index}
<1>1. /\ c.index \in Nat /\ c.chunk \in Seq(Byte) /\ c.index \in 0 .. Len(ModuleOrder) - 1
  <2>1. c.index \in Nat /\ c.chunk \in Seq(Byte)
    BY DEF CodeChunk
  <2> QED
    BY <2>1, LengthOfOrder
<1>2. PICK D \in SUBSET (0 .. Len(ModuleOrder) - 1) : area.modules \in [D -> Seq(Byte)]
  BY DEF StagingArea
<1> DEFINE new == with_chunk(area.modules, c)
<1>3. new \in Seq(Byte)
  BY <1>1, <1>2 DEF with_chunk
<1> DEFINE idx == IF c.index > area.last_module_idx THEN c.index ELSE area.last_module_idx
           changed == set_entry(area.modules, c.index, new)
<1>4. staged_chunk(area, c) = [area EXCEPT !.modules = changed, !.last_module_idx = idx]
  BY DEF staged_chunk, with_chunk
<1> HIDE DEF new, idx, changed
<1>7. changed \in [D \cup {c.index} -> Seq(Byte)]
  BY <1>2, <1>3 DEF set_entry, changed
<1>8. D \cup {c.index} \in SUBSET (0 .. Len(ModuleOrder) - 1)
  BY <1>1
<1>9. changed \in UNION {[E -> Seq(Byte)] : E \in SUBSET (0 .. Len(ModuleOrder) - 1)}
  BY <1>7, <1>8
<1>10. area.metadata_serialized \in Seq(Byte) /\ idx \in Nat
  BY <1>1 DEF StagingArea, idx
<1> DEFINE Modules == UNION {[E -> Seq(Byte)] : E \in SUBSET (0 .. Len(ModuleOrder) - 1)}
<1>11. StagingArea
         = [metadata_serialized : Seq(Byte), modules : Modules, last_module_idx : Nat]
  BY DEF StagingArea
<1>12. changed \in Modules
  BY <1>9
<1> HIDE DEF Modules
<1>13. /\ staged_chunk(area, c) \in StagingArea
       /\ staged_chunk(area, c).modules = changed
       /\ staged_chunk(area, c).metadata_serialized = area.metadata_serialized
  <2>1. area \in [metadata_serialized : Seq(Byte), modules : Modules, last_module_idx : Nat]
    BY <1>11
  <2> QED
    BY <1>4, <1>10, <1>11, <1>12, <2>1
<1>14. DOMAIN changed = DOMAIN area.modules \cup {c.index}
  BY DEF set_entry, changed
<1> QED
  BY <1>13, <1>14 DEF new, changed

\* The area ends in one more chunk.
LEMMA StageOne ==
  ASSUME NEW b \in Build, NEW sizes \in Sizes, NEW c \in CodeChunk,
         NEW from \in Counts, NEW to \in Counts, Carries(b, sizes, c, from, to),
         NEW area \in StagingArea, EndsIn(b, sizes, area, from)
  PROVE  /\ staged_chunk(area, c) \in StagingArea
         /\ EndsIn(b, sizes, staged_chunk(area, c), to)
<1> DEFINE next == staged_chunk(area, c)
           k == c.index + 1
           modules == area.modules
           new == with_chunk(modules, c)
<1>1. k \in 1 .. Len(ModuleOrder) /\ k - 1 = c.index /\ k \in Parts /\ k # 0
  <2>1. k \in 1 .. Len(ModuleOrder) /\ c.index \in Nat
    BY DEF Carries, CodeChunk
  <2> QED
    BY <2>1, LengthOfOrder
<1>2. /\ next \in StagingArea
      /\ next.metadata_serialized = area.metadata_serialized
      /\ next.modules = set_entry(modules, c.index, new)
      /\ DOMAIN next.modules = DOMAIN modules \cup {c.index}
  BY <1>1, StagedTyped
<1>3. area # NoStagingArea /\ next # NoStagingArea
  BY <1>2, UploadAssumption
<1> HIDE DEF next, new
<1>4. /\ next.modules[c.index] = new
      /\ \A i \in DOMAIN modules \ {c.index} : next.modules[i] = modules[i]
  BY <1>2 DEF set_entry
<1>5. ASSUME NEW part \in Parts \ {k}
      PROVE  Ends(content(next, part), first_bytes(b, sizes, part, to[part]))
  <2>1. content(next, part) = content(area, part)
    <3>1. part - 1 # c.index
      BY <1>1, LengthOfOrder
    <3> QED
      BY <1>2, <1>3, <1>4, <3>1 DEF content
  <2>2. to[part] = from[part]
    BY DEF Carries
  <2> QED
    BY <2>1, <2>2 DEF EndsIn
<1>6. Ends(content(next, k), first_bytes(b, sizes, k, to[k]))
  <2> DEFINE piece == SubSeq(bytes(b, sizes, k), from[k] + 1, to[k])
  <2>1. /\ c.chunk = piece /\ c.chunk \in Seq(Byte)
        /\ from[k] \in Nat /\ to[k] \in Nat /\ from[k] <= to[k] /\ to[k] <= sizes[k]
    BY <1>1 DEF Carries, Counts, CodeChunk
  <2>2. Ends(content(area, k), first_bytes(b, sizes, k, from[k]))
    BY <1>1 DEF EndsIn
  <2> HIDE DEF piece, k
  <2>3. Ends(content(area, k) \o piece, first_bytes(b, sizes, k, to[k]))
    BY <1>1, <2>1, <2>2, EndGrows DEF piece
  <2>4. content(next, k) = new
    BY <1>1, <1>2, <1>3, <1>4 DEF content
  <2>5. CASE c.index \in DOMAIN modules
    <3>1. content(area, k) = modules[c.index] /\ new = modules[c.index] \o c.chunk
      BY <1>1, <1>3, <2>5 DEF content, new, with_chunk
    <3> QED
      BY <2>1, <2>3, <2>4, <3>1
  <2>6. CASE c.index \notin DOMAIN modules
    <3>1. content(area, k) = <<>> /\ new = c.chunk
      BY <1>1, <1>3, <2>6 DEF content, new, with_chunk
    <3>2. <<>> \o piece = piece
      BY <2>1, ConcatEmptySeq
    <3> QED
      BY <2>1, <2>3, <2>4, <3>1, <3>2
  <2> QED
    BY <2>5, <2>6
<1> QED
  BY <1>2, <1>5, <1>6 DEF EndsIn, next

\* The loop over the chunks of a call, as a function
LEMMA StagingLoop ==
  ASSUME NEW chunks \in Seq(CodeChunk),
         \A i \in 1 .. Len(chunks) : chunks[i].index + 1 \in 1 .. Len(ModuleOrder),
         NEW area \in StagingArea
  PROVE  \E after : /\ after = [i \in 0 .. Len(chunks) |->
                                 IF i = 0 THEN area ELSE staged_chunk(after[i - 1], chunks[i])]
                    /\ staged_chunks(area, chunks) = after[Len(chunks)]
<1> DEFINE n == Len(chunks)
           Stages(f) == f = [i \in 0 .. Len(chunks) |->
                               IF i = 0 THEN area ELSE staged_chunk(f[i - 1], chunks[i])]
           step == [i \in 1 .. n |-> [v \in StagingArea |-> staged_chunk(v, chunks[i])]]
<1>0. n \in Nat
  OBVIOUS
<1>1. ASSUME NEW i \in 1 .. n, NEW v \in StagingArea
      PROVE  step[i][v] = staged_chunk(v, chunks[i]) /\ step[i][v] \in StagingArea
  <2>1. chunks[i] \in CodeChunk
    BY ElementOfSeq
  <2> QED
    BY <2>1, StagedTyped
<1> HIDE DEF step
<1>2. \A i \in 1 .. n : \A v \in StagingArea : step[i][v] \in StagingArea
  BY <1>1
<1>2a. area \in StagingArea
  OBVIOUS
<1> HIDE DEF n
<1>2b. HasLoop(StagingArea, n, area, step)
  BY <1>0, <1>2, <1>2a, LoopIsFunction
<1>3. PICK loop \in [0 .. n -> StagingArea] : \A i \in 0 .. n :
        loop[i] = IF i = 0 THEN area ELSE step[i][loop[i - 1]]
  BY <1>2b DEF HasLoop
<1>4. ASSUME NEW i \in 0 .. n
      PROVE  loop[i] = IF i = 0 THEN area ELSE staged_chunk(loop[i - 1], chunks[i])
  <2>1. CASE i = 0
    BY <1>3, <2>1
  <2>2. CASE i # 0
    <3>1. i \in 1 .. n /\ i - 1 \in 0 .. n
      BY <1>0, <2>2
    <3>2. loop[i] = step[i][loop[i - 1]] /\ loop[i - 1] \in StagingArea
      BY <1>3, <2>2, <3>1
    <3> QED
      BY <1>1, <2>2, <3>1, <3>2
  <2> QED
    BY <2>1, <2>2
<1>5. Stages(loop)
  <2>1. loop = [i \in 0 .. n |-> loop[i]]
    BY <1>3
  <2> QED
    BY <1>4, <2>1 DEF n
<1> DEFINE after == CHOOSE f : Stages(f)
<1>6. staged_chunks(area, chunks) = after[n]
  BY DEF staged_chunks, n
<1> HIDE DEF Stages
<1>7. Stages(after)
  BY <1>5
<1> HIDE DEF after
<1> QED
  BY <1>6, <1>7 DEF Stages, n

\* All chunks of a call are staged.
LEMMA StageAll ==
  ASSUME NEW b \in Build, NEW sizes \in Sizes, NEW chunks \in Seq(CodeChunk),
         NEW from \in Counts, NEW to \in Counts,
         Path(chunks, CarryingChunk(b, sizes), from, to),
         NEW area \in StagingArea, EndsIn(b, sizes, area, from)
  PROVE  /\ staged_chunks(area, chunks) \in StagingArea
         /\ EndsIn(b, sizes, staged_chunks(area, chunks), to)
<1> DEFINE n == Len(chunks)
<1>0. n \in Nat
  OBVIOUS
<1>1. PICK counts \in [0 .. n -> Counts] :
        /\ counts[0] = from /\ counts[n] = to
        /\ \A i \in 1 .. n : Carries(b, sizes, chunks[i], counts[i - 1], counts[i])
  <2>1. PICK counts \in [0 .. n -> Counts] :
          /\ counts[0] = from /\ counts[n] = to
          /\ \A i \in 1 .. n : <<chunks[i], counts[i - 1], counts[i]>> \in CarryingChunk(b, sizes)
    BY DEF Path
  <2>2. ASSUME NEW i \in 1 .. n
        PROVE  Carries(b, sizes, chunks[i], counts[i - 1], counts[i])
    BY <2>1 DEF CarryingChunk
  <2> QED
    BY <2>1, <2>2
<1>2. \A i \in 1 .. n : chunks[i].index + 1 \in 1 .. Len(ModuleOrder)
  BY <1>1 DEF Carries
<1>3. PICK after :
        /\ after = [i \in 0 .. n |->
                      IF i = 0 THEN area ELSE staged_chunk(after[i - 1], chunks[i])]
        /\ staged_chunks(area, chunks) = after[n]
  BY <1>2, StagingLoop
<1> DEFINE S == {i \in 0 .. n : after[i] \in StagingArea /\ EndsIn(b, sizes, after[i], counts[i])}
<1>4. 0 \in S
  <2>1. after[0] = area /\ 0 \in 0 .. n
    BY <1>0, <1>3
  <2> QED
    BY <1>1, <2>1
<1>5. ASSUME NEW i \in 1 .. n, i - 1 \in S
      PROVE  i \in S
  <2>1. i \in 0 .. n /\ i # 0 /\ i - 1 \in 0 .. n
    BY <1>0
  <2>2. after[i] = staged_chunk(after[i - 1], chunks[i])
    BY <1>3, <2>1
  <2>3. after[i - 1] \in StagingArea /\ EndsIn(b, sizes, after[i - 1], counts[i - 1])
    BY <1>5
  <2>4. chunks[i] \in CodeChunk /\ counts[i - 1] \in Counts /\ counts[i] \in Counts
    BY <1>1, <2>1, ElementOfSeq
  <2> HIDE DEF n, S
  <2>5. after[i] \in StagingArea /\ EndsIn(b, sizes, after[i], counts[i])
    BY <1>1, <2>2, <2>3, <2>4, StageOne
  <2> QED
    BY <2>1, <2>5 DEF S
<1> HIDE DEF S
<1>6. 0 .. n \subseteq S
  BY ONLY <1>0, <1>4, <1>5, UpToLast
<1>7. n \in S
  BY <1>0, <1>6
<1> QED
  BY <1>1, <1>3, <1>7 DEF S

\* A call stages what its payload carries.
LEMMA StageCall ==
  ASSUME NEW b \in Build, NEW sizes \in Sizes, NEW p \in Payload,
         NEW from \in Counts, NEW to \in Counts, PayloadCarries(b, sizes, p, from, to),
         NEW area \in StagingArea \cup {NoStagingArea}, EndsIn(b, sizes, area, from)
  PROVE  /\ stage_code_chunk(area, p) \in StagingArea
         /\ EndsIn(b, sizes, stage_code_chunk(area, p), to)
<1> DEFINE there == IF area = NoStagingArea THEN new_staging_area ELSE area
           begun == [there EXCEPT !.metadata_serialized = @ \o p.metadata_chunk]
<1>1. PICK between \in Counts :
        /\ from[0] <= between[0] /\ between[0] <= sizes[0]
        /\ p.metadata_chunk = SubSeq(bytes(b, sizes, 0), from[0] + 1, between[0])
        /\ \A part \in Parts \ {0} : between[part] = from[part]
        /\ Path(p.code_chunks, CarryingChunk(b, sizes), between, to)
  BY DEF PayloadCarries
<1>2. new_staging_area \in StagingArea
  <2>1. {} \in SUBSET (0 .. Len(ModuleOrder) - 1) /\ [i \in {} |-> i] \in [{} -> Seq(Byte)]
    OBVIOUS
  <2>2. [i \in {} |-> i] \in UNION {[D -> Seq(Byte)] : D \in SUBSET (0 .. Len(ModuleOrder) - 1)}
    BY <2>1
  <2> QED
    BY <2>2 DEF new_staging_area, StagingArea
<1>3. there \in StagingArea
  BY <1>2
<1>4. \A part \in Parts : content(there, part) = content(area, part)
  <2>1. new_staging_area # NoStagingArea
    BY <1>2, UploadAssumption
  <2>2. /\ new_staging_area.metadata_serialized = <<>>
        /\ DOMAIN new_staging_area.modules = {}
    BY DEF new_staging_area
  <2> QED
    BY <2>1, <2>2 DEF content
<1>5. 0 \in Parts /\ from[0] \in Nat /\ between[0] \in Nat
  BY LengthOfOrder DEF Counts
<1> HIDE DEF there
<1>6. p.metadata_chunk \in Seq(Byte) /\ p.code_chunks \in Seq(CodeChunk)
  BY DEF Payload
<1>7. /\ begun \in StagingArea
      /\ begun.metadata_serialized = there.metadata_serialized \o p.metadata_chunk
      /\ begun.modules = there.modules
  <2> DEFINE Modules == UNION {[E -> Seq(Byte)] : E \in SUBSET (0 .. Len(ModuleOrder) - 1)}
             longer == there.metadata_serialized \o p.metadata_chunk
  <2>1. StagingArea
          = [metadata_serialized : Seq(Byte), modules : Modules, last_module_idx : Nat]
    BY DEF StagingArea
  <2> HIDE DEF Modules
  <2>2. there.metadata_serialized \in Seq(Byte) /\ there.modules \in Modules
        /\ there.last_module_idx \in Nat
    BY <1>3, <2>1
  <2>3. longer \in Seq(Byte)
    BY <1>6, <2>2
  <2>4. begun = [there EXCEPT !.metadata_serialized = longer]
    OBVIOUS
  <2> HIDE DEF longer, begun
  <2>5. /\ begun \in StagingArea
        /\ begun.metadata_serialized = longer /\ begun.modules = there.modules
    BY <1>3, <2>1, <2>2, <2>3, <2>4, AreaBegun
  <2> QED
    BY <2>5 DEF longer
<1> HIDE DEF begun
<1>8. there # NoStagingArea /\ begun # NoStagingArea
  BY <1>3, <1>7, UploadAssumption
<1>9. EndsIn(b, sizes, begun, between)
  <2>1. Ends(content(begun, 0), first_bytes(b, sizes, 0, between[0]))
    <3>1. Ends(there.metadata_serialized, first_bytes(b, sizes, 0, from[0]))
      <4>1. content(there, 0) = there.metadata_serialized
        BY <1>8 DEF content
      <4> QED
        BY <1>4, <1>5, <4>1 DEF EndsIn
    <3>2. Ends(there.metadata_serialized \o p.metadata_chunk,
               first_bytes(b, sizes, 0, between[0]))
      BY <1>1, <1>5, <3>1, EndGrows
    <3>3. content(begun, 0) = there.metadata_serialized \o p.metadata_chunk
      BY <1>7, <1>8 DEF content
    <3> QED
      BY <3>2, <3>3
  <2>2. ASSUME NEW part \in Parts \ {0}
        PROVE  Ends(content(begun, part), first_bytes(b, sizes, part, between[part]))
    <3>1. content(begun, part) = content(there, part)
      BY <1>7, <1>8 DEF content
    <3> QED
      BY <1>1, <1>4, <3>1 DEF EndsIn
  <2> QED
    BY <2>1, <2>2 DEF EndsIn
<1>10. stage_code_chunk(area, p) = staged_chunks(begun, p.code_chunks)
  BY DEF stage_code_chunk, begun, there
<1> QED
  BY <1>1, <1>6, <1>7, <1>9, <1>10, StageAll
-----------------------------------------------------------------------------
(* Paths.                                                                  *)

LEMMA PathOfNone == ASSUME NEW R, NEW from \in Counts PROVE Path(<<>>, R, from, from)
<1> DEFINE counts == [i \in 0 .. 0 |-> from]
<1>1. Len(<<>>) = 0 /\ counts \in [0 .. 0 -> Counts] /\ counts[0] = from
  OBVIOUS
<1>2. \A i \in 1 .. 0 : FALSE
  OBVIOUS
<1> HIDE DEF counts
<1> QED
  BY <1>1, <1>2 DEF Path

LEMMA PathOfOne ==
  ASSUME NEW R, NEW v, NEW from \in Counts, NEW to \in Counts, <<v, from, to>> \in R
  PROVE  Path(<<v>>, R, from, to)
<1> DEFINE counts == [i \in 0 .. 1 |-> IF i = 0 THEN from ELSE to]
<1>1. Len(<<v>>) = 1 /\ counts \in [0 .. 1 -> Counts] /\ counts[0] = from /\ counts[1] = to
  OBVIOUS
<1> HIDE DEF counts
<1>2. \A i \in 1 .. 1 : i = 1 /\ i - 1 = 0 /\ <<v>>[i] = v
  OBVIOUS
<1>3. \A i \in 1 .. 1 : <<<<v>>[i], counts[i - 1], counts[i]>> \in R
  BY <1>1, <1>2
<1> QED
  BY <1>1, <1>3 DEF Path

\* A path goes on with another.
LEMMA PathGoesOn ==
  ASSUME NEW R, NEW T, NEW s \in Seq(T), NEW t \in Seq(T), NEW from, NEW mid, NEW to,
         Path(s, R, from, mid), Path(t, R, mid, to)
  PROVE  Path(s \o t, R, from, to)
<1> DEFINE n == Len(s)
           m == Len(t)
<1>1. n \in Nat /\ m \in Nat
  OBVIOUS
<1>2. PICK first \in [0 .. n -> Counts] :
        /\ first[0] = from /\ first[n] = mid
        /\ \A i \in 1 .. n : <<s[i], first[i - 1], first[i]>> \in R
  BY DEF Path
<1>3. PICK second \in [0 .. m -> Counts] :
        /\ second[0] = mid /\ second[m] = to
        /\ \A i \in 1 .. m : <<t[i], second[i - 1], second[i]>> \in R
  BY DEF Path
<1>4. /\ Len(s \o t) = n + m
      /\ \A i \in 1 .. n + m : (s \o t)[i] = IF i <= n THEN s[i] ELSE t[i - n]
  BY ConcatProperties
<1> DEFINE counts == [i \in 0 .. n + m |-> IF i <= n THEN first[i] ELSE second[i - n]]
<1> HIDE DEF n, m
<1>5. counts \in [0 .. n + m -> Counts]
  <2>1. \A i \in 0 .. n + m : IF i <= n THEN i \in 0 .. n ELSE i - n \in 0 .. m
    BY <1>1
  <2> QED
    BY <1>2, <1>3, <2>1
<1>6. counts[0] = from /\ counts[n + m] = to
  <2>1. 0 \in 0 .. n + m /\ n + m \in 0 .. n + m /\ 0 <= n /\ (n + m <= n => m = 0)
        /\ n + m - n = m /\ n + 0 = n /\ n <= n
    BY <1>1
  <2>2. counts[0] = from
    BY <1>2, <2>1
  <2>3. CASE m = 0
    <3>1. counts[n + m] = first[n]
      BY <1>1, <2>1, <2>3
    <3> QED
      BY <1>2, <1>3, <2>2, <2>3, <3>1
  <2>4. CASE m # 0
    <3>1. counts[n + m] = second[m]
      BY <1>1, <2>1, <2>4
    <3> QED
      BY <1>3, <2>2, <3>1
  <2> QED
    BY <2>3, <2>4
<1>7. ASSUME NEW i \in 1 .. n + m
      PROVE  <<(s \o t)[i], counts[i - 1], counts[i]>> \in R
  <2>1. i \in 0 .. n + m /\ i - 1 \in 0 .. n + m
    BY <1>1
  <2>2. CASE i <= n
    <3>1. i \in 1 .. n /\ i - 1 <= n
      BY <1>1, <2>2
    <3>2. counts[i - 1] = first[i - 1] /\ counts[i] = first[i] /\ (s \o t)[i] = s[i]
      BY <1>4, <2>1, <2>2, <3>1
    <3> QED
      BY <1>2, <3>1, <3>2
  <2>3. CASE ~ (i <= n)
    <3>1. i - n \in 1 .. m /\ i - 1 - n = (i - n) - 1
      BY <1>1, <2>3
    <3>2. counts[i] = second[i - n] /\ (s \o t)[i] = t[i - n]
      BY <1>4, <2>1, <2>3
    <3>3. counts[i - 1] = second[(i - n) - 1]
      <4>1. CASE i - 1 <= n
        <5>1. i - 1 = n /\ (i - n) - 1 = 0
          BY <1>1, <2>3, <4>1
        <5> QED
          BY <1>2, <1>3, <2>1, <4>1, <5>1
      <4>2. CASE ~ (i - 1 <= n)
        BY <2>1, <3>1, <4>2
      <4> QED
        BY <4>1, <4>2
    <3> QED
      BY <1>3, <3>1, <3>2, <3>3
  <2> QED
    BY <2>2, <2>3
<1> HIDE DEF counts
<1> QED
  BY <1>4, <1>5, <1>6, <1>7 DEF Path

LEMMA PathWithOneMore ==
  ASSUME NEW R, NEW T, NEW s \in Seq(T), NEW v \in T, NEW from,
         NEW mid \in Counts, NEW to \in Counts, Path(s, R, from, mid), <<v, mid, to>> \in R
  PROVE  Path(Append(s, v), R, from, to)
<1>1. Path(<<v>>, R, mid, to) /\ <<v>> \in Seq(T)
  BY PathOfOne
<1>2. Append(s, v) = s \o <<v>>
  OBVIOUS
<1> QED
  BY <1>1, <1>2, PathGoesOn

\* The first step of a path, and what is left of it
LEMMA PathStep ==
  ASSUME NEW R, NEW T, NEW s \in Seq(T), s # <<>>, NEW from, NEW to, Path(s, R, from, to)
  PROVE  \E mid \in Counts : <<Head(s), from, mid>> \in R /\ Path(Tail(s), R, mid, to)
<1> DEFINE n == Len(s)
<1>1. /\ n \in Nat /\ n > 0 /\ Head(s) = s[1] /\ Len(Tail(s)) = n - 1
      /\ \A i \in 1 .. n - 1 : Tail(s)[i] = s[i + 1]
  BY HeadTailProperties
<1>2. PICK counts \in [0 .. n -> Counts] :
        /\ counts[0] = from /\ counts[n] = to
        /\ \A i \in 1 .. n : <<s[i], counts[i - 1], counts[i]>> \in R
  BY DEF Path
<1> DEFINE rest == [i \in 0 .. n - 1 |-> counts[i + 1]]
<1> HIDE DEF n
<1>3. rest \in [0 .. n - 1 -> Counts] /\ rest[0] = counts[1] /\ rest[n - 1] = to
  <2>1. \A i \in 0 .. n - 1 : i + 1 \in 0 .. n
    BY <1>1
  <2>2. 0 \in 0 .. n - 1 /\ n - 1 \in 0 .. n - 1 /\ n - 1 + 1 = n /\ 0 + 1 = 1
    BY <1>1
  <2> QED
    BY <1>2, <2>1, <2>2
<1>4. ASSUME NEW i \in 1 .. n - 1
      PROVE  <<Tail(s)[i], rest[i - 1], rest[i]>> \in R
  <2>1. /\ i + 1 \in 1 .. n /\ i - 1 \in 0 .. n - 1 /\ i \in 0 .. n - 1
        /\ i - 1 + 1 = i /\ (i + 1) - 1 = i
    BY <1>1
  <2>2. rest[i - 1] = counts[(i + 1) - 1] /\ rest[i] = counts[i + 1]
    BY <2>1
  <2> QED
    BY <1>1, <1>2, <2>1, <2>2
<1> HIDE DEF rest
<1>5. counts[1] \in Counts
  BY <1>1, <1>2
<1>6. <<Head(s), from, counts[1]>> \in R
  <2>1. 1 \in 1 .. n /\ 1 - 1 = 0
    BY <1>1
  <2> QED
    BY <1>1, <1>2, <2>1
<1>7. Path(Tail(s), R, counts[1], to)
  BY <1>1, <1>3, <1>4 DEF Path
<1> QED
  BY <1>5, <1>6, <1>7

-----------------------------------------------------------------------------
(* The chunks of the client.                                               *)

\* Chunks that are small enough and go on where the one before stops
CutFrom(chunks, data, size) ==
  \E stop \in [0 .. Len(chunks) -> 0 .. Len(data)] :
    /\ stop[0] = 0 /\ stop[Len(chunks)] = Len(data)
    /\ \A j \in 1 .. Len(chunks) :
         /\ stop[j - 1] <= stop[j] /\ stop[j] <= stop[j - 1] + size
         /\ chunks[j] = SubSeq(data, stop[j - 1] + 1, stop[j])

LEMMA CutInOrder ==
  ASSUME NEW S, NEW data \in Seq(S), NEW size \in Nat \ {0}
  PROVE  /\ Len(create_chunks(data, size)) \in Nat
         /\ DOMAIN create_chunks(data, size) = 1 .. Len(create_chunks(data, size))
         /\ Len(data) > 0 => Len(create_chunks(data, size)) > 0
         /\ CutFrom(create_chunks(data, size), data, size)
<1> DEFINE len == Len(data)
           n == (len + size - 1) \div size
           chunks == create_chunks(data, size)
           stop == [j \in 0 .. n |-> IF j * size < len THEN j * size ELSE len]
<1>1. len \in Nat /\ size \in Nat /\ size > 0
  OBVIOUS
<1>2. n \in Nat /\ len <= n * size /\ n * size < len + size /\ (len > 0 => n > 0)
  <2>1. ASSUME NEW l \in Nat, NEW c \in Nat, c > 0
        PROVE  LET m == (l + c - 1) \div c
               IN  m \in Nat /\ l <= m * c /\ m * c < l + c /\ (l > 0 => m > 0)
    <3> DEFINE m == (l + c - 1) \div c
    <3>1. l + c - 1 \in Nat
      BY <2>1
    <3>2. m \in Nat /\ m * c <= l + c - 1 /\ l + c - 1 < (m + 1) * c
      BY <2>1, <3>1
    <3> HIDE DEF m
    <3>3. (m + 1) * c = m * c + c /\ m * c \in Nat
      BY <2>1, <3>2
    <3>4. m = 0 => m * c = 0
      BY <2>1
    <3>5. l <= m * c
      BY <2>1, <3>2, <3>3
    <3>6. l > 0 => m > 0
      BY <3>2, <3>4, <3>5
    <3> QED
      BY <2>1, <3>2, <3>3, <3>5, <3>6 DEF m
  <2> QED
    BY <1>1, <2>1
<1> HIDE DEF n, len
<1>3. chunks = [k \in 1 .. n |-> SubSeq(data, (k - 1) * size + 1,
                                        IF k * size < len THEN k * size ELSE len)]
  BY DEF create_chunks, n, len
<1>4. Len(chunks) = n /\ DOMAIN chunks = 1 .. n
  BY <1>2, <1>3
<1>5. \A j \in 0 .. n : j * size \in Nat
  BY <1>1, <1>2
<1>6. stop \in [0 .. n -> 0 .. len] /\ stop[0] = 0 /\ stop[n] = len
  <2>1. stop \in [0 .. n -> 0 .. len]
    BY <1>1, <1>5
  <2>2. 0 \in 0 .. n /\ n \in 0 .. n /\ 0 * size = 0
    BY <1>1, <1>2
  <2>3. stop[0] = 0
    BY <1>1, <2>2
  <2>4. stop[n] = len
    BY <1>1, <1>2, <1>5, <2>2
  <2> QED
    BY <2>1, <2>3, <2>4
<1>7. ASSUME NEW j \in 1 .. n
      PROVE  /\ stop[j - 1] <= stop[j] /\ stop[j] <= stop[j - 1] + size
             /\ chunks[j] = SubSeq(data, stop[j - 1] + 1, stop[j])
  <2>1. j \in Nat /\ 1 <= j /\ j <= n /\ j \in 0 .. n /\ j - 1 \in 0 .. n
    BY <1>2
  <2>2. j * size = (j - 1) * size + size /\ (j - 1) * size \in Nat
    BY <1>1, <1>5, <2>1
  <2>3. (j - 1) * size < len
    <3>1. j * size <= n * size
      BY <1>1, <1>2, <2>1
    <3>2. j * size \in Nat /\ n * size \in Nat
      BY <1>1, <1>2, <2>1
    <3> QED
      BY <1>1, <1>2, <2>2, <3>1, <3>2
  <2>4. stop[j - 1] = (j - 1) * size
    BY <2>1, <2>3
  <2>5. stop[j] = IF j * size < len THEN j * size ELSE len
    BY <2>1
  <2>6. chunks[j] = SubSeq(data, stop[j - 1] + 1, stop[j])
    <3> HIDE DEF stop, chunks
    <3>1. chunks[j] = SubSeq(data, (j - 1) * size + 1,
                             IF j * size < len THEN j * size ELSE len)
      BY <1>3
    <3> QED
      BY <2>4, <2>5, <3>1
  <2> HIDE DEF stop
  <2>7. stop[j - 1] <= stop[j] /\ stop[j] <= stop[j - 1] + size
    BY <1>1, <1>5, <2>1, <2>2, <2>3, <2>4, <2>5
  <2> QED
    BY <2>6, <2>7
<1> HIDE DEF stop, chunks
<1>8. CutFrom(chunks, data, size)
  BY <1>4, <1>6, <1>7 DEF CutFrom, len
<1> QED
  BY <1>2, <1>4, <1>8 DEF chunks, len

\* The sum over the chunks of a call
LEMMA SumIsFunction ==
  ASSUME NEW s \in Seq(CodeChunk)
  PROVE  \E upto \in [0 .. Len(s) -> Nat] :
           /\ \A i \in 0 .. Len(s) :
                upto[i] = IF i = 0 THEN 0 ELSE upto[i - 1] + Len(s[i].chunk)
           /\ size_of_chunks(s) = upto[Len(s)]
<1> DEFINE n == Len(s)
           Sums(f) == f = [i \in 0 .. Len(s) |-> IF i = 0 THEN 0 ELSE f[i - 1] + Len(s[i].chunk)]
           step == [i \in 1 .. n |-> [v \in Nat |-> v + Len(s[i].chunk)]]
<1>0. n \in Nat
  OBVIOUS
<1>1. ASSUME NEW i \in 1 .. n, NEW v \in Nat
      PROVE  step[i][v] = v + Len(s[i].chunk) /\ step[i][v] \in Nat
  <2>0. s[i] \in CodeChunk
    BY ElementOfSeq
  <2>1. s[i].chunk \in Seq(Byte)
    BY <2>0 DEF CodeChunk
  <2>2. Len(s[i].chunk) \in Nat
    BY <2>1
  <2> QED
    BY <2>2
<1> HIDE DEF step, n
<1>2. HasLoop(Nat, n, 0, step)
  <2>1. \A i \in 1 .. n : \A v \in Nat : step[i][v] \in Nat
    BY <1>1
  <2> QED
    BY <1>0, <2>1, LoopIsFunction
<1>3. PICK loop \in [0 .. n -> Nat] : \A i \in 0 .. n :
        loop[i] = IF i = 0 THEN 0 ELSE step[i][loop[i - 1]]
  BY <1>2 DEF HasLoop
<1>4. ASSUME NEW i \in 0 .. n
      PROVE  loop[i] = IF i = 0 THEN 0 ELSE loop[i - 1] + Len(s[i].chunk)
  <2>1. CASE i = 0
    BY <1>3, <2>1
  <2>2. CASE i # 0
    <3>1. i \in 1 .. n /\ i - 1 \in 0 .. n
      BY <1>0, <2>2
    <3>2. loop[i] = step[i][loop[i - 1]] /\ loop[i - 1] \in Nat
      BY <1>3, <2>2, <3>1
    <3> QED
      BY <1>1, <2>2, <3>1, <3>2
  <2> QED
    BY <2>1, <2>2
<1>5. Sums(loop)
  <2>1. loop = [i \in 0 .. n |-> loop[i]]
    BY <1>3
  <2> QED
    BY <1>4, <2>1 DEF n
<1> DEFINE upto == CHOOSE f : Sums(f)
<1>6. size_of_chunks(s) = upto[n]
  BY DEF size_of_chunks, n
<1> HIDE DEF Sums
<1>7. Sums(upto)
  BY <1>5
<1> HIDE DEF upto
<1>8. \A i \in 0 .. n : upto[i] = IF i = 0 THEN 0 ELSE upto[i - 1] + Len(s[i].chunk)
  BY <1>7 DEF Sums, n
<1>9. upto = loop
  <2> DEFINE S == {i \in 0 .. n : upto[i] = loop[i]}
  <2>1. 0 \in S
    BY <1>0, <1>4, <1>8
  <2>2. ASSUME NEW i \in 1 .. n, i - 1 \in S
        PROVE  i \in S
    <3>1. i \in 0 .. n /\ i # 0
      BY <1>0
    <3> QED
      BY <1>4, <1>8, <2>2, <3>1
  <2> HIDE DEF S
  <2>3. 0 .. n \subseteq S
    BY <1>0, <2>1, <2>2, UpToLast
  <2>4. DOMAIN upto = 0 .. n /\ DOMAIN loop = 0 .. n
    BY <1>3, <1>7 DEF Sums, n
  <2>5. upto = [i \in 0 .. n |-> upto[i]] /\ loop = [i \in 0 .. n |-> loop[i]]
    BY <1>3, <1>7 DEF Sums, n
  <2> QED
    BY <2>3, <2>5 DEF S
<1> QED
  BY <1>3, <1>4, <1>6, <1>9 DEF n

LEMMA SumOfNone == size_of_chunks(<<>>) = 0
<1>1. <<>> \in Seq(CodeChunk) /\ Len(<<>>) = 0
  OBVIOUS
<1>2. PICK upto \in [0 .. 0 -> Nat] :
        /\ \A i \in 0 .. 0 : upto[i] = IF i = 0 THEN 0 ELSE upto[i - 1] + Len(<<>>[i].chunk)
        /\ size_of_chunks(<<>>) = upto[0]
  BY <1>1, SumIsFunction
<1> QED
  BY <1>2

LEMMA SumWithOneMore ==
  ASSUME NEW s \in Seq(CodeChunk), NEW c \in CodeChunk
  PROVE  /\ size_of_chunks(s) \in Nat
         /\ size_of_chunks(Append(s, c)) = size_of_chunks(s) + Len(c.chunk)
<1> DEFINE n == Len(s)
           t == Append(s, c)
<1>1. n \in Nat /\ t \in Seq(CodeChunk) /\ Len(t) = n + 1 /\ t[n + 1] = c
      /\ \A i \in 1 .. n : t[i] = s[i]
  BY AppendProperties
<1>2. PICK first \in [0 .. n -> Nat] :
        /\ \A i \in 0 .. n : first[i] = IF i = 0 THEN 0 ELSE first[i - 1] + Len(s[i].chunk)
        /\ size_of_chunks(s) = first[n]
  BY SumIsFunction
<1> HIDE DEF n, t
<1>3. PICK second \in [0 .. n + 1 -> Nat] :
        /\ \A i \in 0 .. n + 1 : second[i] = IF i = 0 THEN 0 ELSE second[i - 1] + Len(t[i].chunk)
        /\ size_of_chunks(t) = second[n + 1]
  BY <1>1, SumIsFunction
<1> DEFINE S == {i \in 0 .. n : first[i] = second[i]}
<1>4. 0 \in S
  <2>1. 0 \in 0 .. n /\ 0 \in 0 .. n + 1
    BY <1>1
  <2> QED
    BY <1>2, <1>3, <2>1
<1>5. ASSUME NEW i \in 1 .. n, i - 1 \in S
      PROVE  i \in S
  <2>1. i \in 0 .. n /\ i \in 0 .. n + 1 /\ i # 0
    BY <1>1
  <2> QED
    BY <1>1, <1>2, <1>3, <1>5, <2>1
<1> HIDE DEF S
<1>6. n \in S
  <2>1. 0 .. n \subseteq S
    BY <1>1, <1>4, <1>5, UpToLast
  <2> QED
    BY <1>1, <2>1
<1>7. second[n + 1] = second[n] + Len(c.chunk)
  <2>1. n + 1 \in 0 .. n + 1 /\ n + 1 # 0 /\ n + 1 - 1 = n
    BY <1>1
  <2> QED
    BY <1>1, <1>3, <2>1
<1>8. first[n] \in Nat
  BY <1>1, <1>2
<1> QED
  BY <1>2, <1>3, <1>6, <1>7, <1>8 DEF S, t

-----------------------------------------------------------------------------
(* The code chunks, module after module.                                   *)

SmallChunk(size) == {c \in CodeChunk : Len(c.chunk) <= size}

\* All of the parts up to k and nothing of the others
full(sizes, k) == [part \in Parts |-> IF part <= k THEN sizes[part] ELSE 0]

LEMMA FullTyped ==
  ASSUME NEW sizes \in Sizes
  PROVE  /\ sizes \in Counts /\ full(sizes, Len(ModuleOrder)) = sizes
         /\ \A k \in Parts : full(sizes, k) \in Counts
<1>1. sizes \in [Parts -> 1 .. MaxPartSize] /\ 1 .. MaxPartSize \subseteq Nat
  BY UploadAssumption DEF Sizes
<1>2. \A part \in Parts : part <= Len(ModuleOrder)
  BY LengthOfOrder
<1> QED
  BY <1>1, <1>2 DEF full, Counts

LEMMA ChunksOfModule ==
  ASSUME NEW b \in Build, NEW sizes \in Sizes, NEW size \in Nat \ {0},
         NEW k \in 1 .. Len(ModuleOrder)
  PROVE  /\ chunks_of(b, sizes, size, k) \in Seq(SmallChunk(size))
         /\ Path(chunks_of(b, sizes, size, k), CarryingChunk(b, sizes),
                 full(sizes, k - 1), full(sizes, k))
<1> DEFINE data == bytes(b, sizes, k)
           chunks == create_chunks(data, size)
           n == Len(chunks)
           indexed == chunks_of(b, sizes, size, k)
<1>1. k \in Parts /\ k # 0 /\ k \in Nat /\ k - 1 \in Nat /\ k - 1 \in Parts /\ (k - 1) + 1 = k
  BY LengthOfOrder
<1>2. data \in Seq(Byte) /\ Len(data) = sizes[k] /\ sizes[k] \in Nat
  BY <1>1, BytesTyped
<1> HIDE DEF data
<1>3. n \in Nat /\ DOMAIN chunks = 1 .. n
  BY <1>2, CutInOrder
<1>4. PICK stop \in [0 .. n -> 0 .. sizes[k]] :
        /\ stop[0] = 0 /\ stop[n] = sizes[k]
        /\ \A j \in 1 .. n :
             /\ stop[j - 1] <= stop[j] /\ stop[j] <= stop[j - 1] + size
             /\ chunks[j] = SubSeq(data, stop[j - 1] + 1, stop[j])
  <2>1. CutFrom(chunks, data, size)
    BY <1>2, CutInOrder
  <2> QED
    BY <1>2, <2>1 DEF CutFrom
<1>5. indexed = [i \in DOMAIN chunks |-> [index |-> k - 1, chunk |-> chunks[i]]]
  BY DEF chunks_of, data
<1> HIDE DEF chunks, n, indexed
<1> DEFINE counts == [j \in 0 .. n |-> [full(sizes, k - 1) EXCEPT ![k] = stop[j]]]
<1>6. ASSUME NEW j \in 0 .. n
      PROVE  /\ counts[j] \in Counts /\ counts[j][k] = stop[j] /\ stop[j] \in 0 .. sizes[k]
             /\ stop[j] \in Nat
             /\ \A part \in Parts \ {k} : counts[j][part] = full(sizes, k - 1)[part]
  <2>1. full(sizes, k - 1) \in [Parts -> Nat]
    BY <1>1, FullTyped DEF Counts
  <2>2. stop[j] \in 0 .. sizes[k] /\ stop[j] \in Nat
    BY <1>2, <1>4
  <2>3. counts[j] = [full(sizes, k - 1) EXCEPT ![k] = stop[j]]
    OBVIOUS
  <2> HIDE DEF counts
  <2> QED
    BY <1>1, <2>1, <2>2, <2>3 DEF Counts
<1>7. counts[0] = full(sizes, k - 1) /\ counts[n] = full(sizes, k)
  <2>1. 0 \in 0 .. n /\ n \in 0 .. n
    BY <1>3
  <2>2. \A part \in Parts : full(sizes, k - 1)[part] = IF part <= k - 1 THEN sizes[part] ELSE 0
    BY DEF full
  <2>3. \A part \in Parts : full(sizes, k)[part] = IF part <= k THEN sizes[part] ELSE 0
    BY DEF full
  <2>4. \A part \in Parts \ {k} : part <= k - 1 <=> part <= k
    BY <1>1, LengthOfOrder
  <2>5. ~ (k <= k - 1) /\ k <= k
    BY <1>1
  <2>6. /\ counts[0] \in [Parts -> Nat] /\ counts[n] \in [Parts -> Nat]
        /\ full(sizes, k - 1) \in [Parts -> Nat] /\ full(sizes, k) \in [Parts -> Nat]
    BY <1>1, <1>6, <2>1, FullTyped DEF Counts
  <2>7. counts[0][k] = full(sizes, k - 1)[k] /\ counts[n][k] = full(sizes, k)[k]
    BY <1>1, <1>4, <1>6, <2>1, <2>2, <2>3, <2>5
  <2> HIDE DEF counts
  <2>8. \A part \in Parts : counts[0][part] = full(sizes, k - 1)[part]
    BY <1>6, <2>1, <2>7
  <2>9. \A part \in Parts : counts[n][part] = full(sizes, k)[part]
    BY <1>6, <2>1, <2>2, <2>3, <2>4, <2>7
  <2> QED
    BY <2>6, <2>8, <2>9
<1> HIDE DEF counts
<1>8. ASSUME NEW j \in 1 .. n
      PROVE  /\ indexed[j] \in SmallChunk(size)
             /\ <<indexed[j], counts[j - 1], counts[j]>> \in CarryingChunk(b, sizes)
  <2>1. j \in 0 .. n /\ j - 1 \in 0 .. n
    BY <1>3
  <2>2. indexed[j] = [index |-> k - 1, chunk |-> chunks[j]]
    BY <1>3, <1>5
  <2>3. /\ stop[j - 1] \in Nat /\ stop[j] \in Nat /\ stop[j] <= sizes[k]
        /\ stop[j - 1] <= stop[j] /\ stop[j] <= stop[j - 1] + size
        /\ chunks[j] = SubSeq(data, stop[j - 1] + 1, stop[j])
    <3>1. stop[j - 1] \in Nat /\ stop[j] \in Nat /\ stop[j] \in 0 .. sizes[k]
      BY <1>6, <2>1
    <3>2. stop[j] <= sizes[k]
      BY <1>2, <3>1
    <3> QED
      BY <1>4, <3>1, <3>2
  <2>4. chunks[j] \in Seq(Byte) /\ Len(chunks[j]) = stop[j] - stop[j - 1]
    <3>1. \A from, to \in Nat : to <= sizes[k] =>
             /\ SubSeq(data, from + 1, to) \in Seq(Byte)
             /\ from <= to => Len(SubSeq(data, from + 1, to)) = to - from
      BY <1>1, PieceTyped DEF data
    <3> QED
      BY <2>3, <3>1
  <2>5. indexed[j] \in CodeChunk /\ Len(indexed[j].chunk) <= size
        /\ indexed[j].index + 1 = k
    <3>1. indexed[j].index = k - 1 /\ indexed[j].chunk = chunks[j]
      BY <2>2
    <3>2. indexed[j] \in CodeChunk
      BY <1>1, <2>2, <2>4 DEF CodeChunk
    <3>3. stop[j] - stop[j - 1] <= size
      BY <2>3
    <3> QED
      BY <1>1, <2>4, <3>1, <3>2, <3>3
  <2>6. \A part \in Parts \ {k} : counts[j][part] = counts[j - 1][part]
    BY <1>6, <2>1
  <2>7. Carries(b, sizes, indexed[j], counts[j - 1], counts[j])
    <3>1. counts[j - 1][k] = stop[j - 1] /\ counts[j][k] = stop[j]
      BY <1>6, <2>1
    <3>2. indexed[j].chunk = SubSeq(bytes(b, sizes, k), counts[j - 1][k] + 1, counts[j][k])
      <4>1. indexed[j].chunk = chunks[j] /\ bytes(b, sizes, k) = data
        BY <2>2 DEF data
      <4> QED
        BY <2>3, <3>1, <4>1
    <3> QED
      BY <2>3, <2>5, <2>6, <3>1, <3>2 DEF Carries
  <2>8. counts[j - 1] \in Counts /\ counts[j] \in Counts
    BY <1>6, <2>1
  <2> QED
    BY <2>5, <2>7, <2>8 DEF SmallChunk, CarryingChunk
<1>9. Len(indexed) = n /\ indexed \in Seq(SmallChunk(size))
  <2>1. DOMAIN indexed = 1 .. n /\ indexed = [j \in 1 .. n |-> indexed[j]]
    BY <1>3, <1>5
  <2>2. indexed \in [1 .. n -> SmallChunk(size)]
    BY <1>8, <2>1
  <2> QED
    BY <1>3, <2>1, <2>2
<1>10. counts \in [0 .. n -> Counts]
  BY <1>6 DEF counts
<1> QED
  BY <1>7, <1>8, <1>9, <1>10 DEF Path, indexed

LEMMA ChunksOfBundle ==
  ASSUME NEW b \in Build, NEW sizes \in Sizes, NEW size \in Nat \ {0}
  PROVE  /\ indexed_chunks(b, sizes, size) \in Seq(SmallChunk(size))
         /\ Path(indexed_chunks(b, sizes, size), CarryingChunk(b, sizes), full(sizes, 0), sizes)
<1> DEFINE n == Len(ModuleOrder)
           Chunks == Seq(SmallChunk(size))
           Indexes(f) == f = [k \in 0 .. Len(ModuleOrder) |->
                                IF k = 0 THEN <<>> ELSE f[k - 1] \o chunks_of(b, sizes, size, k)]
           step == [k \in 1 .. n |-> [v \in Chunks |-> v \o chunks_of(b, sizes, size, k)]]
<1>0. n \in Nat /\ Parts = 0 .. n
  BY LengthOfOrder
<1>1. ASSUME NEW k \in 1 .. n, NEW v \in Chunks
      PROVE  step[k][v] = v \o chunks_of(b, sizes, size, k) /\ step[k][v] \in Chunks
  <2>1. chunks_of(b, sizes, size, k) \in Chunks
    BY ChunksOfModule
  <2> QED
    BY <2>1
<1> HIDE DEF step, n
<1>2. HasLoop(Chunks, n, <<>>, step)
  <2>1. \A k \in 1 .. n : \A v \in Chunks : step[k][v] \in Chunks
    BY <1>1
  <2>2. <<>> \in Chunks
    OBVIOUS
  <2> HIDE DEF Chunks
  <2> QED
    BY <1>0, <2>1, <2>2, LoopIsFunction
<1>3. PICK loop \in [0 .. n -> Chunks] : \A k \in 0 .. n :
        loop[k] = IF k = 0 THEN <<>> ELSE step[k][loop[k - 1]]
  BY <1>2 DEF HasLoop
<1>4. ASSUME NEW k \in 0 .. n
      PROVE  loop[k] = IF k = 0 THEN <<>> ELSE loop[k - 1] \o chunks_of(b, sizes, size, k)
  <2>1. CASE k = 0
    BY <1>3, <2>1
  <2>2. CASE k # 0
    <3>1. k \in 1 .. n /\ k - 1 \in 0 .. n
      BY <1>0, <2>2
    <3>2. loop[k] = step[k][loop[k - 1]] /\ loop[k - 1] \in Chunks
      BY <1>3, <2>2, <3>1
    <3> QED
      BY <1>1, <2>2, <3>1, <3>2
  <2> QED
    BY <2>1, <2>2
<1>5. Indexes(loop)
  <2>1. loop = [k \in 0 .. n |-> loop[k]]
    BY <1>3
  <2> QED
    BY <1>4, <2>1 DEF n
<1> DEFINE first == CHOOSE f : Indexes(f)
<1>6. indexed_chunks(b, sizes, size) = first[n]
  BY DEF indexed_chunks, n
<1> HIDE DEF Indexes
<1>7. Indexes(first)
  BY <1>5
<1> HIDE DEF first
<1>8. \A k \in 0 .. n : first[k] = IF k = 0 THEN <<>>
                                    ELSE first[k - 1] \o chunks_of(b, sizes, size, k)
  BY <1>7 DEF Indexes, n
<1> DEFINE S == {k \in 0 .. n : /\ first[k] \in Chunks
                                /\ Path(first[k], CarryingChunk(b, sizes),
                                        full(sizes, 0), full(sizes, k))}
<1>9. 0 \in S
  <2>1. 0 \in 0 .. n /\ 0 \in Parts
    BY <1>0
  <2>2. first[0] = <<>> /\ <<>> \in Chunks
    BY <1>8, <2>1
  <2>3. Path(<<>>, CarryingChunk(b, sizes), full(sizes, 0), full(sizes, 0))
    BY <2>1, FullTyped, PathOfNone
  <2> QED
    BY <2>1, <2>2, <2>3
<1>10. ASSUME NEW k \in 1 .. n, k - 1 \in S
       PROVE  k \in S
  <2>1. k \in 0 .. n /\ k # 0
    BY <1>0
  <2>2. first[k] = first[k - 1] \o chunks_of(b, sizes, size, k)
    BY <1>8, <2>1
  <2>3. first[k - 1] \in Chunks
        /\ Path(first[k - 1], CarryingChunk(b, sizes), full(sizes, 0), full(sizes, k - 1))
    BY <1>10
  <2>4. /\ chunks_of(b, sizes, size, k) \in Chunks
        /\ Path(chunks_of(b, sizes, size, k), CarryingChunk(b, sizes),
                full(sizes, k - 1), full(sizes, k))
    BY ChunksOfModule DEF n
  <2>5. first[k] \in Chunks
    BY <2>2, <2>3, <2>4
  <2>6. Path(first[k], CarryingChunk(b, sizes), full(sizes, 0), full(sizes, k))
    BY <2>2, <2>3, <2>4, PathGoesOn
  <2> QED
    BY <2>1, <2>5, <2>6
<1> HIDE DEF S
<1>11. n \in S
  <2>1. 0 .. n \subseteq S
    BY <1>0, <1>9, <1>10, UpToLast
  <2> QED
    BY <1>0, <2>1
<1>12. full(sizes, n) = sizes
  BY FullTyped DEF n
<1> QED
  BY <1>6, <1>11, <1>12 DEF S

-----------------------------------------------------------------------------
(* The chunks are put into payloads.                                       *)

Nothing == [part \in Parts |-> 0]

SmallPayload(size) == {p \in Payload : size_of_payload(p) <= size}

StagePayload(size) == {p \in SmallPayload(size) : p.function = "stage"}

\* What the loop has: whole payloads and the chunks of the next one, as many as fit in
Gathered(size) ==
  {acc \in [payloads : Seq(StagePayload(size)), metadata_chunk : Seq(Byte),
            code_chunks : Seq(CodeChunk), taken_size : Nat] :
     /\ acc.taken_size = Len(acc.metadata_chunk) + size_of_chunks(acc.code_chunks)
     /\ acc.taken_size <= size}

\* They carry what was sent of the build.
Holds(acc, b, sizes, sent) ==
  /\ sent[0] = sizes[0]
  /\ \E mid \in Counts :
       /\ Path(acc.payloads, CarryingPayload(b, sizes), Nothing, mid)
       /\ PayloadCarries(b, sizes, payload("stage", acc.metadata_chunk, acc.code_chunks),
                         mid, sent)

LEMMA PayloadTyped ==
  ASSUME NEW f \in {"stage", "publish"}, NEW metadata \in Seq(Byte), NEW chunks \in Seq(CodeChunk)
  PROVE  /\ payload(f, metadata, chunks) \in Payload
         /\ payload(f, metadata, chunks).function = f
         /\ payload(f, metadata, chunks).metadata_chunk = metadata
         /\ payload(f, metadata, chunks).code_chunks = chunks
         /\ size_of_payload(payload(f, metadata, chunks)) = Len(metadata) + size_of_chunks(chunks)
  BY DEF payload, Payload, size_of_payload

\* A payload carries the same whatever function it calls.
LEMMA CallsCarryTheSame ==
  ASSUME NEW b, NEW sizes, NEW f, NEW g, NEW metadata, NEW chunks, NEW from, NEW to,
         PayloadCarries(b, sizes, payload(f, metadata, chunks), from, to)
  PROVE  PayloadCarries(b, sizes, payload(g, metadata, chunks), from, to)
<1>1. /\ payload(f, metadata, chunks).metadata_chunk = metadata
      /\ payload(f, metadata, chunks).code_chunks = chunks
      /\ payload(g, metadata, chunks).metadata_chunk = metadata
      /\ payload(g, metadata, chunks).code_chunks = chunks
  BY DEF payload
<1> QED
  BY <1>1 DEF PayloadCarries

\* The next chunk goes to the next payload, or it still fits into this one.
LEMMA Accumulated ==
  ASSUME NEW size \in Nat, NEW acc \in Gathered(size), NEW c \in SmallChunk(size)
  PROVE  LET next == accumulate(acc, c, size)
             whole == payload("stage", acc.metadata_chunk, acc.code_chunks)
         IN  /\ next \in Gathered(size)
             /\ \/ /\ next.payloads = Append(acc.payloads, whole) /\ whole \in StagePayload(size)
                   /\ next.metadata_chunk = <<>> /\ next.code_chunks = <<c>>
                \/ /\ next.payloads = acc.payloads
                   /\ next.metadata_chunk = acc.metadata_chunk
                   /\ next.code_chunks = Append(acc.code_chunks, c)
<1> DEFINE next == accumulate(acc, c, size)
           whole == payload("stage", acc.metadata_chunk, acc.code_chunks)
           P == Seq(StagePayload(size))
           M == Seq(Byte)
           C == Seq(CodeChunk)
<1>1. /\ acc \in [payloads : P, metadata_chunk : M, code_chunks : C, taken_size : Nat]
      /\ acc.taken_size = Len(acc.metadata_chunk) + size_of_chunks(acc.code_chunks)
      /\ acc.taken_size <= size
  BY DEF Gathered
<1>2. /\ acc.payloads \in P /\ acc.metadata_chunk \in M /\ acc.code_chunks \in C
      /\ acc.taken_size \in Nat
  BY <1>1
<1>3. c \in CodeChunk /\ Len(c.chunk) <= size /\ Len(c.chunk) \in Nat
  <2>1. c \in CodeChunk /\ Len(c.chunk) <= size
    BY DEF SmallChunk
  <2>2. c.chunk \in Seq(Byte)
    BY <2>1 DEF CodeChunk
  <2> QED
    BY <2>1, <2>2
<1>4. whole \in StagePayload(size)
  <2>1. /\ whole \in Payload /\ whole.function = "stage"
        /\ size_of_payload(whole) = Len(acc.metadata_chunk) + size_of_chunks(acc.code_chunks)
    BY <1>2, PayloadTyped
  <2> QED
    BY <1>1, <2>1 DEF StagePayload, SmallPayload
<1> HIDE DEF whole
<1>5. CASE acc.taken_size + Len(c.chunk) > size
  <2>1. next = [payloads |-> Append(acc.payloads, whole), metadata_chunk |-> <<>>,
                code_chunks |-> <<c>>, taken_size |-> Len(c.chunk)]
    BY <1>5 DEF accumulate, whole
  <2> HIDE DEF next
  <2>2. Append(acc.payloads, whole) \in P /\ <<>> \in M /\ <<c>> \in C
    BY <1>2, <1>3, <1>4
  <2>3. Len(<<>>) + size_of_chunks(<<c>>) = Len(c.chunk)
    <3>1. <<c>> = Append(<<>>, c) /\ <<>> \in Seq(CodeChunk) /\ Len(<<>>) = 0
      OBVIOUS
    <3>2. size_of_chunks(Append(<<>>, c)) = 0 + Len(c.chunk)
      BY <1>3, <3>1, SumOfNone, SumWithOneMore
    <3> QED
      BY <1>3, <3>1, <3>2
  <2>4. next \in [payloads : P, metadata_chunk : M, code_chunks : C, taken_size : Nat]
    <3> HIDE DEF P, M, C
    <3> QED
      BY <1>3, <2>1, <2>2
  <2>5. next \in Gathered(size)
    BY <1>3, <2>1, <2>3, <2>4 DEF Gathered
  <2> QED
    BY <1>4, <2>1, <2>5 DEF next, whole
<1>6. CASE ~ (acc.taken_size + Len(c.chunk) > size)
  <2> DEFINE chunks == Append(acc.code_chunks, c)
             taken == acc.taken_size + Len(c.chunk)
  <2>1. next = [acc EXCEPT !.code_chunks = chunks, !.taken_size = taken]
    BY <1>6 DEF accumulate
  <2>2. chunks \in C /\ taken \in Nat /\ taken <= size
    BY <1>2, <1>3, <1>6
  <2>3. taken = Len(acc.metadata_chunk) + size_of_chunks(chunks)
    <3>1. size_of_chunks(chunks) = size_of_chunks(acc.code_chunks) + Len(c.chunk)
          /\ size_of_chunks(acc.code_chunks) \in Nat
      BY <1>2, <1>3, SumWithOneMore
    <3>2. Len(acc.metadata_chunk) \in Nat
      BY <1>2
    <3> QED
      BY <1>1, <1>3, <3>1, <3>2
  <2> HIDE DEF chunks, taken, next, P, M, C
  <2>4. /\ next \in [payloads : P, metadata_chunk : M, code_chunks : C, taken_size : Nat]
        /\ next.payloads = acc.payloads /\ next.metadata_chunk = acc.metadata_chunk
        /\ next.code_chunks = chunks /\ next.taken_size = taken
    BY <1>1, <2>1, <2>2
  <2>5. next \in Gathered(size)
    BY <2>2, <2>3, <2>4 DEF Gathered, P, M, C
  <2> QED
    BY <2>4, <2>5 DEF next, chunks
<1> QED
  BY <1>5, <1>6

\* With it, what was sent goes on.
LEMMA AccumulatedHolds ==
  ASSUME NEW size \in Nat, NEW acc \in Gathered(size), NEW c \in SmallChunk(size),
         NEW b \in Build, NEW sizes \in Sizes, NEW sent \in Counts, NEW to \in Counts,
         Holds(acc, b, sizes, sent), <<c, sent, to>> \in CarryingChunk(b, sizes)
  PROVE  Holds(accumulate(acc, c, size), b, sizes, to)
<1> DEFINE next == accumulate(acc, c, size)
           whole == payload("stage", acc.metadata_chunk, acc.code_chunks)
<1>1. PICK mid \in Counts :
        /\ Path(acc.payloads, CarryingPayload(b, sizes), Nothing, mid)
        /\ PayloadCarries(b, sizes, whole, mid, sent)
  BY DEF Holds
<1>2. acc.payloads \in Seq(StagePayload(size)) /\ acc.metadata_chunk \in Seq(Byte)
      /\ acc.code_chunks \in Seq(CodeChunk)
  BY DEF Gathered
<1>3. sent[0] = sizes[0] /\ c \in CodeChunk /\ Carries(b, sizes, c, sent, to)
  BY DEF Holds, CarryingChunk
<1>4. to[0] = sizes[0] /\ 0 \in Parts
  <2>1. 0 \in Parts \ {c.index + 1}
    BY <1>3, LengthOfOrder DEF Carries
  <2> QED
    BY <1>3, <2>1 DEF Carries
<1>5. sizes[0] \in Nat
  BY <1>4, BytesTyped
<1>6. CASE /\ next.payloads = Append(acc.payloads, whole) /\ whole \in StagePayload(size)
           /\ next.metadata_chunk = <<>> /\ next.code_chunks = <<c>>
  <2>1. <<whole, mid, sent>> \in CarryingPayload(b, sizes)
    <3>1. whole \in Payload
      BY <1>6 DEF StagePayload, SmallPayload
    <3> HIDE DEF whole
    <3> QED
      BY <1>1, <3>1 DEF CarryingPayload
  <2> HIDE DEF whole, next
  <2>2. Path(next.payloads, CarryingPayload(b, sizes), Nothing, sent)
    BY <1>1, <1>2, <1>6, <2>1, PathWithOneMore
  <2>3. Path(<<c>>, CarryingChunk(b, sizes), sent, to)
    BY PathOfOne
  <2>4. <<>> = SubSeq(bytes(b, sizes, 0), sent[0] + 1, sent[0])
    BY <1>3, <1>5, SubSeqEmpty
  <2>5. PayloadCarries(b, sizes, payload("stage", <<>>, <<c>>), sent, to)
    <3>1. payload("stage", <<>>, <<c>>).metadata_chunk = <<>>
          /\ payload("stage", <<>>, <<c>>).code_chunks = <<c>>
      BY DEF payload
    <3>2. sent[0] <= sent[0] /\ sent[0] <= sizes[0]
      BY <1>3, <1>5
    <3> QED
      BY <2>3, <2>4, <3>1, <3>2 DEF PayloadCarries
  <2>6. Holds(next, b, sizes, to)
    BY <1>4, <1>6, <2>2, <2>5 DEF Holds
  <2> QED
    BY <2>6 DEF next
<1>7. CASE /\ next.payloads = acc.payloads
           /\ next.metadata_chunk = acc.metadata_chunk
           /\ next.code_chunks = Append(acc.code_chunks, c)
  <2>1. PICK between \in Counts :
          /\ mid[0] <= between[0] /\ between[0] <= sizes[0]
          /\ whole.metadata_chunk = SubSeq(bytes(b, sizes, 0), mid[0] + 1, between[0])
          /\ \A part \in Parts \ {0} : between[part] = mid[part]
          /\ Path(whole.code_chunks, CarryingChunk(b, sizes), between, sent)
    BY <1>1 DEF PayloadCarries
  <2>2. whole.metadata_chunk = acc.metadata_chunk /\ whole.code_chunks = acc.code_chunks
    BY DEF payload
  <2> HIDE DEF whole, next
  <2>3. Path(next.code_chunks, CarryingChunk(b, sizes), between, to)
    BY <1>2, <1>3, <1>7, <2>1, <2>2, PathWithOneMore
  <2> DEFINE more == payload("stage", next.metadata_chunk, next.code_chunks)
  <2>4. more.metadata_chunk = next.metadata_chunk /\ more.code_chunks = next.code_chunks
    BY DEF payload
  <2> HIDE DEF more
  <2>5. PayloadCarries(b, sizes, more, mid, to)
    BY <1>7, <2>1, <2>2, <2>3, <2>4 DEF PayloadCarries
  <2>6. Holds(next, b, sizes, to)
    BY <1>1, <1>4, <1>7, <2>5 DEF Holds, more
  <2> QED
    BY <2>6 DEF next
<1> QED
  BY <1>6, <1>7, Accumulated

\* The loop, as a function
LEMMA AccumulateIsFunction ==
  ASSUME NEW size \in Nat, NEW chunks \in Seq(SmallChunk(size)), NEW acc \in Gathered(size)
  PROVE  \E after \in [0 .. Len(chunks) -> Gathered(size)] :
           /\ after[0] = acc
           /\ \A i \in 1 .. Len(chunks) : after[i] = accumulate(after[i - 1], chunks[i], size)
           /\ accumulate_all(acc, chunks, size) = after[Len(chunks)]
<1> DEFINE n == Len(chunks)
           V == Gathered(size)
           next(f, i) == CHOOSE w \in {accumulate(before, chunks[i], size) :
                                         before \in {f[i - 1]}} : TRUE
           Runs(f) == f = [i \in 0 .. Len(chunks) |-> IF i = 0 THEN acc ELSE next(f, i)]
           step == [i \in 1 .. n |-> [v \in V |-> accumulate(v, chunks[i], size)]]
<1>0. n \in Nat
  OBVIOUS
<1>1. ASSUME NEW i \in 1 .. n, NEW v \in V
      PROVE  step[i][v] = accumulate(v, chunks[i], size) /\ step[i][v] \in V
  <2>1. chunks[i] \in SmallChunk(size)
    BY ElementOfSeq
  <2>2. accumulate(v, chunks[i], size) \in V
    BY <2>1, Accumulated
  <2> QED
    BY <2>2
<1>2. ASSUME NEW f, NEW i
      PROVE  next(f, i) = accumulate(f[i - 1], chunks[i], size)
  <2>1. {accumulate(before, chunks[i], size) : before \in {f[i - 1]}}
          = {accumulate(f[i - 1], chunks[i], size)}
    OBVIOUS
  <2> QED
    BY <2>1, OnlyOne
<1> HIDE DEF step, n, next
<1>3. HasLoop(V, n, acc, step)
  <2>1. acc \in V /\ \A i \in 1 .. n : \A v \in V : step[i][v] \in V
    BY <1>1
  <2> HIDE DEF V
  <2> QED
    BY <1>0, <2>1, LoopIsFunction
<1>4. PICK loop \in [0 .. n -> V] : \A i \in 0 .. n :
        loop[i] = IF i = 0 THEN acc ELSE step[i][loop[i - 1]]
  BY <1>3 DEF HasLoop
<1>5. ASSUME NEW i \in 0 .. n
      PROVE  loop[i] = IF i = 0 THEN acc ELSE accumulate(loop[i - 1], chunks[i], size)
  <2>1. CASE i = 0
    BY <1>4, <2>1
  <2>2. CASE i # 0
    <3>1. i \in 1 .. n /\ i - 1 \in 0 .. n
      BY <1>0, <2>2
    <3>2. loop[i] = step[i][loop[i - 1]] /\ loop[i - 1] \in V
      BY <1>4, <2>2, <3>1
    <3> QED
      BY <1>1, <2>2, <3>1, <3>2
  <2> QED
    BY <2>1, <2>2
<1>6. Runs(loop)
  <2>1. loop = [i \in 0 .. n |-> loop[i]]
    BY <1>4
  <2> QED
    BY <1>2, <1>5, <2>1 DEF n
<1> DEFINE after == CHOOSE f : Runs(f)
<1>7. accumulate_all(acc, chunks, size) = after[n]
  BY DEF accumulate_all, n, next
<1> HIDE DEF Runs
<1>8. Runs(after)
  BY <1>6
<1> HIDE DEF after
<1>9. \A i \in 0 .. n : after[i] = IF i = 0 THEN acc ELSE accumulate(after[i - 1], chunks[i], size)
  BY <1>2, <1>8 DEF Runs, n
<1> DEFINE S == {i \in 0 .. n : after[i] = loop[i]}
<1>10. 0 \in S
  BY <1>0, <1>5, <1>9
<1>11. ASSUME NEW i \in 1 .. n, i - 1 \in S
       PROVE  i \in S
  <2>1. i \in 0 .. n /\ i # 0
    BY <1>0
  <2> QED
    BY <1>5, <1>9, <1>11, <2>1
<1> HIDE DEF S
<1>12. n \in S
  <2>1. 0 .. n \subseteq S
    BY <1>0, <1>10, <1>11, UpToLast
  <2> QED
    BY <1>0, <2>1
<1>13. loop[0] = acc /\ \A i \in 1 .. n : loop[i] = accumulate(loop[i - 1], chunks[i], size)
  <2>1. 0 \in 0 .. n /\ \A i \in 1 .. n : i \in 0 .. n /\ i # 0
    BY <1>0
  <2> QED
    BY <1>5, <2>1
<1> QED
  BY <1>4, <1>7, <1>12, <1>13 DEF S, n

\* All chunks are put into payloads.
LEMMA AllAccumulated ==
  ASSUME NEW size \in Nat, NEW chunks \in Seq(SmallChunk(size)), NEW acc \in Gathered(size),
         NEW b \in Build, NEW sizes \in Sizes, NEW sent \in Counts, NEW to \in Counts,
         Holds(acc, b, sizes, sent), Path(chunks, CarryingChunk(b, sizes), sent, to)
  PROVE  /\ accumulate_all(acc, chunks, size) \in Gathered(size)
         /\ Holds(accumulate_all(acc, chunks, size), b, sizes, to)
<1> DEFINE n == Len(chunks)
<1>0. n \in Nat
  OBVIOUS
<1>1. PICK counts \in [0 .. n -> Counts] :
        /\ counts[0] = sent /\ counts[n] = to
        /\ \A i \in 1 .. n : <<chunks[i], counts[i - 1], counts[i]>> \in CarryingChunk(b, sizes)
  BY DEF Path
<1>2. PICK after \in [0 .. n -> Gathered(size)] :
        /\ after[0] = acc
        /\ \A i \in 1 .. n : after[i] = accumulate(after[i - 1], chunks[i], size)
        /\ accumulate_all(acc, chunks, size) = after[n]
  BY AccumulateIsFunction
<1> DEFINE S == {i \in 0 .. n : Holds(after[i], b, sizes, counts[i])}
<1>3. 0 \in S
  <2>1. 0 \in 0 .. n
    BY <1>0
  <2> QED
    BY <1>1, <1>2, <2>1
<1>4. ASSUME NEW i \in 1 .. n, i - 1 \in S
      PROVE  i \in S
  <2>1. i \in 0 .. n /\ i - 1 \in 0 .. n
    BY <1>0
  <2>2. /\ after[i - 1] \in Gathered(size) /\ Holds(after[i - 1], b, sizes, counts[i - 1])
        /\ counts[i - 1] \in Counts /\ counts[i] \in Counts
    BY <1>1, <1>2, <1>4, <2>1
  <2>3. chunks[i] \in SmallChunk(size)
    BY ElementOfSeq
  <2>4. <<chunks[i], counts[i - 1], counts[i]>> \in CarryingChunk(b, sizes)
    BY <1>1
  <2> HIDE DEF S, n
  <2>5. Holds(after[i], b, sizes, counts[i])
    <3>1. Holds(accumulate(after[i - 1], chunks[i], size), b, sizes, counts[i])
      BY <2>2, <2>3, <2>4, AccumulatedHolds
    <3> QED
      BY <1>2, <3>1
  <2> QED
    BY <2>1, <2>5 DEF S
<1> HIDE DEF S
<1>5. n \in S
  <2>1. 0 .. n \subseteq S
    BY <1>0, <1>3, <1>4, UpToLast
  <2> QED
    BY <1>0, <2>1
<1>6. after[n] \in Gathered(size)
  BY <1>0, <1>2
<1> QED
  BY <1>1, <1>2, <1>5, <1>6 DEF S

\* The payloads of the metadata: all of it but the last chunk, which the loop begins with
LEMMA MetadataHolds ==
  ASSUME NEW b \in Build, NEW sizes \in Sizes, NEW size \in Nat \ {0},
         NEW chunks, chunks = create_chunks(bytes(b, sizes, 0), size)
  PROVE  LET last == chunks[Len(chunks)]
             start == [payloads |-> [i \in 1 .. Len(chunks) - 1 |-> payload("stage", chunks[i], <<>>)],
                       metadata_chunk |-> last, code_chunks |-> <<>>, taken_size |-> Len(last)]
         IN  start \in Gathered(size) /\ Holds(start, b, sizes, full(sizes, 0))
<1> DEFINE n == Len(chunks)
           data == bytes(b, sizes, 0)
           last == chunks[n]
           staged == [i \in 1 .. n - 1 |-> payload("stage", chunks[i], <<>>)]
           start == [payloads |-> staged,
                     metadata_chunk |-> last, code_chunks |-> <<>>, taken_size |-> Len(last)]
<1>1. 0 \in Parts
  BY LengthOfOrder
<1>2. data \in Seq(Byte) /\ Len(data) = sizes[0] /\ sizes[0] \in Nat /\ sizes[0] > 0
  BY <1>1, BytesTyped
<1> HIDE DEF data
<1>3. n \in Nat /\ n > 0 /\ CutFrom(chunks, data, size)
  BY <1>2, CutInOrder DEF data
<1>4. PICK stop \in [0 .. n -> 0 .. sizes[0]] :
        /\ stop[0] = 0 /\ stop[n] = sizes[0]
        /\ \A j \in 1 .. n :
             /\ stop[j - 1] <= stop[j] /\ stop[j] <= stop[j - 1] + size
             /\ chunks[j] = SubSeq(data, stop[j - 1] + 1, stop[j])
  BY <1>2, <1>3 DEF CutFrom
<1> HIDE DEF n
<1>5. ASSUME NEW j \in 1 .. n
      PROVE  /\ stop[j - 1] \in Nat /\ stop[j] \in Nat /\ stop[j] <= sizes[0]
             /\ chunks[j] \in Seq(Byte) /\ Len(chunks[j]) \in Nat /\ Len(chunks[j]) <= size
  <2>1. j \in 0 .. n /\ j - 1 \in 0 .. n
    BY <1>3
  <2>2. /\ stop[j - 1] \in Nat /\ stop[j] \in Nat /\ stop[j] <= sizes[0]
        /\ stop[j - 1] <= stop[j] /\ stop[j] <= stop[j - 1] + size
        /\ chunks[j] = SubSeq(data, stop[j - 1] + 1, stop[j])
    BY <1>2, <1>4, <2>1
  <2>3. \A from, to \in Nat : to <= sizes[0] =>
          /\ SubSeq(data, from + 1, to) \in Seq(Byte)
          /\ from <= to => Len(SubSeq(data, from + 1, to)) = to - from
    BY <1>1, PieceTyped DEF data
  <2>4. chunks[j] \in Seq(Byte) /\ Len(chunks[j]) = stop[j] - stop[j - 1]
    BY <2>2, <2>3
  <2> QED
    BY <2>2, <2>4
<1> DEFINE counts(j) == [Nothing EXCEPT ![0] = stop[j]]
<1>6. ASSUME NEW j \in 0 .. n
      PROVE  /\ counts(j) \in Counts /\ counts(j)[0] = stop[j] /\ stop[j] \in Nat
             /\ \A part \in Parts \ {0} : counts(j)[part] = 0
  <2>1. Nothing \in [Parts -> Nat] /\ \A part \in Parts : Nothing[part] = 0
    BY DEF Nothing
  <2>2. stop[j] \in Nat
    BY <1>2, <1>4
  <2> QED
    BY <1>1, <2>1, <2>2 DEF Counts
<1>7. counts(0) = Nothing
  <2>1. 0 \in 0 .. n
    BY <1>3
  <2>2. \A part \in Parts : counts(0)[part] = Nothing[part]
    BY <1>4, <1>6, <2>1 DEF Nothing
  <2>3. counts(0) \in [Parts -> Nat] /\ Nothing \in [Parts -> Nat]
    BY <1>6, <2>1 DEF Counts, Nothing
  <2> HIDE DEF counts
  <2> QED
    BY <2>2, <2>3
<1>8. counts(n) = full(sizes, 0)
  <2>1. n \in 0 .. n
    BY <1>3
  <2>2. \A part \in Parts : full(sizes, 0)[part] = IF part <= 0 THEN sizes[part] ELSE 0
    BY DEF full
  <2>3. \A part \in Parts : part <= 0 <=> part = 0
    BY LengthOfOrder
  <2>4. counts(n) \in [Parts -> Nat] /\ full(sizes, 0) \in [Parts -> Nat]
    BY <1>1, <1>6, <2>1, FullTyped DEF Counts
  <2>5. counts(n)[0] = sizes[0] /\ \A part \in Parts \ {0} : counts(n)[part] = 0
    BY <1>4, <1>6, <2>1
  <2> HIDE DEF counts
  <2>6. \A part \in Parts : counts(n)[part] = full(sizes, 0)[part]
    BY <2>2, <2>3, <2>5
  <2> QED
    BY <2>4, <2>6
<1> HIDE DEF counts
<1>9. ASSUME NEW j \in 1 .. n
      PROVE  /\ payload("stage", chunks[j], <<>>) \in StagePayload(size)
             /\ PayloadCarries(b, sizes, payload("stage", chunks[j], <<>>), counts(j - 1), counts(j))
  <2> DEFINE p == payload("stage", chunks[j], <<>>)
  <2>1. <<>> \in Seq(CodeChunk) /\ size_of_chunks(<<>>) = 0
    BY SumOfNone
  <2>2. /\ p \in Payload /\ p.function = "stage" /\ p.metadata_chunk = chunks[j]
        /\ p.code_chunks = <<>> /\ size_of_payload(p) = Len(chunks[j])
    <3>1. chunks[j] \in Seq(Byte) /\ Len(chunks[j]) \in Nat /\ "stage" \in {"stage", "publish"}
      BY <1>5
    <3>2. /\ p \in Payload /\ p.function = "stage" /\ p.metadata_chunk = chunks[j]
          /\ p.code_chunks = <<>>
          /\ size_of_payload(p) = Len(chunks[j]) + size_of_chunks(<<>>)
      BY <2>1, <3>1 DEF payload, Payload, size_of_payload
    <3> HIDE DEF p
    <3> QED
      BY <2>1, <3>1, <3>2
  <2>3. j \in 0 .. n /\ j - 1 \in 0 .. n
    BY <1>3
  <2> HIDE DEF p
  <2>4. p \in StagePayload(size)
    BY <1>5, <2>2 DEF StagePayload, SmallPayload
  <2>5. /\ counts(j) \in Counts /\ counts(j)[0] = stop[j] /\ counts(j - 1)[0] = stop[j - 1]
        /\ \A part \in Parts \ {0} : counts(j)[part] = counts(j - 1)[part]
    BY <1>6, <2>3
  <2>6. Path(<<>>, CarryingChunk(b, sizes), counts(j), counts(j))
    BY <2>5, PathOfNone
  <2>7. p.metadata_chunk = SubSeq(bytes(b, sizes, 0), counts(j - 1)[0] + 1, counts(j)[0])
    BY <1>4, <2>2, <2>5 DEF data
  <2>8. counts(j - 1)[0] <= counts(j)[0] /\ counts(j)[0] <= sizes[0]
    BY <1>4, <1>5, <2>5
  <2>9. PayloadCarries(b, sizes, p, counts(j - 1), counts(j))
    BY <2>2, <2>5, <2>6, <2>7, <2>8 DEF PayloadCarries
  <2> QED
    BY <2>4, <2>9 DEF p
<1>10. staged \in Seq(StagePayload(size)) /\ Len(staged) = n - 1
  <2>1. \A i \in 1 .. n - 1 : i \in 1 .. n
    BY <1>3
  <2>2. staged \in [1 .. n - 1 -> StagePayload(size)] /\ n - 1 \in Nat
    BY <1>3, <1>9, <2>1
  <2> HIDE DEF staged
  <2> QED
    BY <2>2
<1>11. Path(staged, CarryingPayload(b, sizes), Nothing, counts(n - 1))
  <2> DEFINE all == [j \in 0 .. n - 1 |-> counts(j)]
  <2>1. \A j \in 0 .. n - 1 : j \in 0 .. n
    BY <1>3
  <2>2. all \in [0 .. n - 1 -> Counts] /\ all[0] = Nothing /\ all[n - 1] = counts(n - 1)
    BY <1>3, <1>6, <1>7, <2>1
  <2>3. ASSUME NEW i \in 1 .. n - 1
        PROVE  <<staged[i], all[i - 1], all[i]>> \in CarryingPayload(b, sizes)
    <3>1. i \in 1 .. n /\ i \in 0 .. n - 1 /\ i - 1 \in 0 .. n - 1
      BY <1>3
    <3>2. all[i - 1] = counts(i - 1) /\ all[i] = counts(i)
          /\ all[i - 1] \in Counts /\ all[i] \in Counts
      BY <2>2, <3>1
    <3>3. staged[i] = payload("stage", chunks[i], <<>>)
      OBVIOUS
    <3>4. staged[i] \in Payload
      BY <1>9, <3>1, <3>3 DEF StagePayload, SmallPayload
    <3> HIDE DEF staged, all
    <3>5. PayloadCarries(b, sizes, staged[i], all[i - 1], all[i])
      BY <1>9, <3>1, <3>2, <3>3
    <3> QED
      BY <3>2, <3>4, <3>5 DEF CarryingPayload
  <2> HIDE DEF all, staged
  <2> QED
    BY <1>10, <2>2, <2>3 DEF Path
<1>12. n \in 1 .. n /\ n - 1 \in 0 .. n
  BY <1>3
<1>13. last \in Seq(Byte) /\ Len(last) \in Nat /\ Len(last) <= size
  BY <1>5, <1>12
<1> HIDE DEF staged
<1>14. start \in Gathered(size)
  <2>1. <<>> \in Seq(CodeChunk) /\ size_of_chunks(<<>>) = 0
    BY SumOfNone
  <2> HIDE DEF last
  <2>2. start \in [payloads : Seq(StagePayload(size)), metadata_chunk : Seq(Byte),
                   code_chunks : Seq(CodeChunk), taken_size : Nat]
    BY <1>10, <1>13, <2>1
  <2>3. /\ start.taken_size = Len(start.metadata_chunk) + size_of_chunks(start.code_chunks)
        /\ start.taken_size <= size
    BY <1>13, <2>1
  <2> HIDE DEF start
  <2> QED
    BY <2>2, <2>3 DEF Gathered
<1>15. Holds(start, b, sizes, full(sizes, 0))
  <2>1. counts(n - 1) \in Counts
    BY <1>6, <1>12
  <2>2. PayloadCarries(b, sizes, payload("stage", last, <<>>), counts(n - 1), full(sizes, 0))
    BY <1>8, <1>9, <1>12
  <2>3. full(sizes, 0)[0] = sizes[0]
    BY <1>1 DEF full
  <2>4. start.payloads = staged /\ start.metadata_chunk = last /\ start.code_chunks = <<>>
    OBVIOUS
  <2> HIDE DEF start, last
  <2> QED
    BY <1>11, <2>1, <2>2, <2>3, <2>4 DEF Holds
<1> QED
  BY <1>14, <1>15 DEF staged, n

\* The payloads of a build together carry all of it; only the last one publishes.
LEMMA PayloadsCarryAll ==
  ASSUME NEW b \in Build, NEW sizes \in Sizes, NEW size \in Nat \ {0}
  PROVE  LET payloads == chunk_package_and_create_payloads(b, sizes, size)
         IN  /\ payloads \in Seq(SmallPayload(size)) /\ payloads # <<>>
             /\ Path(payloads, CarryingPayload(b, sizes), Nothing, sizes)
             /\ \A i \in 1 .. Len(payloads) :
                  payloads[i].function = "publish" <=> i = Len(payloads)
<1> DEFINE chunks == create_chunks(bytes(b, sizes, 0), size)
           last == chunks[Len(chunks)]
           start == [payloads |-> [i \in 1 .. Len(chunks) - 1 |-> payload("stage", chunks[i], <<>>)],
                     metadata_chunk |-> last, code_chunks |-> <<>>, taken_size |-> Len(last)]
           end == accumulate_all(start, indexed_chunks(b, sizes, size), size)
           final == payload("publish", end.metadata_chunk, end.code_chunks)
           all == chunk_package_and_create_payloads(b, sizes, size)
<1>1. all = Append(end.payloads, final)
  BY DEF chunk_package_and_create_payloads
<1> HIDE DEF chunks, all
<1>2. start \in Gathered(size) /\ Holds(start, b, sizes, full(sizes, 0))
  BY MetadataHolds DEF chunks
<1> HIDE DEF start
<1>3. /\ indexed_chunks(b, sizes, size) \in Seq(SmallChunk(size))
      /\ Path(indexed_chunks(b, sizes, size), CarryingChunk(b, sizes), full(sizes, 0), sizes)
  BY ChunksOfBundle
<1>4. full(sizes, 0) \in Counts /\ sizes \in Counts
  BY FullTyped, LengthOfOrder
<1>5. end \in Gathered(size) /\ Holds(end, b, sizes, sizes)
  BY <1>2, <1>3, <1>4, AllAccumulated
<1> HIDE DEF end
<1>6. /\ end.payloads \in Seq(StagePayload(size)) /\ end.metadata_chunk \in Seq(Byte)
      /\ end.code_chunks \in Seq(CodeChunk)
      /\ Len(end.metadata_chunk) + size_of_chunks(end.code_chunks) <= size
  BY <1>5 DEF Gathered
<1>7. final \in SmallPayload(size) /\ final.function = "publish"
  BY <1>6, PayloadTyped DEF SmallPayload
<1>8. PICK mid \in Counts :
        /\ Path(end.payloads, CarryingPayload(b, sizes), Nothing, mid)
        /\ PayloadCarries(b, sizes, payload("stage", end.metadata_chunk, end.code_chunks),
                          mid, sizes)
  BY <1>5 DEF Holds
<1>9. <<final, mid, sizes>> \in CarryingPayload(b, sizes)
  <2>1. PayloadCarries(b, sizes, final, mid, sizes)
    BY <1>8, CallsCarryTheSame
  <2>2. final \in Payload
    BY <1>7 DEF SmallPayload
  <2> HIDE DEF final
  <2> QED
    BY <1>4, <2>1, <2>2 DEF CarryingPayload
<1> HIDE DEF final
<1>10. end.payloads \in Seq(SmallPayload(size))
  <2>1. StagePayload(size) \subseteq SmallPayload(size)
    BY DEF StagePayload
  <2> QED
    BY <1>6, <2>1
<1>11. /\ all \in Seq(SmallPayload(size)) /\ all # <<>>
       /\ Len(all) = Len(end.payloads) + 1 /\ all[Len(end.payloads) + 1] = final
       /\ \A i \in 1 .. Len(end.payloads) : all[i] = end.payloads[i]
  BY <1>1, <1>7, <1>10, AppendProperties
<1>12. Path(all, CarryingPayload(b, sizes), Nothing, sizes)
  BY <1>1, <1>4, <1>7, <1>8, <1>9, <1>10, PathWithOneMore
<1>13. ASSUME NEW i \in 1 .. Len(all)
       PROVE  all[i].function = "publish" <=> i = Len(all)
  <2>0. Len(end.payloads) \in Nat
    BY <1>6
  <2>1. CASE i = Len(all)
    BY <1>7, <1>11, <2>1
  <2>2. CASE i # Len(all)
    <3>1. i \in 1 .. Len(end.payloads)
      BY <1>11, <2>0, <2>2
    <3>2. end.payloads[i] \in StagePayload(size)
      BY <1>6, <3>1, ElementOfSeq
    <3>3. all[i].function = "stage"
      BY <1>11, <3>1, <3>2 DEF StagePayload
    <3> QED
      BY <2>2, <3>3
  <2> QED
    BY <2>1, <2>2
<1> QED
  BY <1>11, <1>12, <1>13 DEF all

-----------------------------------------------------------------------------
(* What is published.                                                      *)

LEMMA ContentTyped ==
  ASSUME NEW area \in StagingArea \cup {NoStagingArea}, NEW part \in Parts
  PROVE  content(area, part) \in Seq(Byte)
<1>1. CASE area = NoStagingArea
  BY <1>1 DEF content
<1>2. CASE area # NoStagingArea
  <2>1. area \in StagingArea
    BY <1>2
  <2>2. PICK D \in SUBSET (0 .. Len(ModuleOrder) - 1) : area.modules \in [D -> Seq(Byte)]
    BY <2>1 DEF StagingArea
  <2>3. area.metadata_serialized \in Seq(Byte)
    BY <2>1 DEF StagingArea
  <2>4. DOMAIN area.modules = D /\ \A i \in D : area.modules[i] \in Seq(Byte)
    BY <2>2
  <2>5. <<>> \in Seq(Byte)
    OBVIOUS
  <2> QED
    BY <1>2, <2>3, <2>4, <2>5 DEF content
<1> QED
  BY <1>1, <1>2

LEMMA PathOfNoneStays == ASSUME NEW R, NEW from, NEW to, Path(<<>>, R, from, to) PROVE from = to
  BY DEF Path

\* All bytes of a part that end in all bytes of another build are its bytes.
LEMMA OneBuild ==
  ASSUME NEW b \in Build, NEW v \in Build, NEW sizes \in Sizes, NEW part \in Parts,
         Ends(bytes(v, sizes, part), first_bytes(b, sizes, part, sizes[part]))
  PROVE  v = b
<1>1. /\ bytes(b, sizes, part) \in Seq(Byte) /\ Len(bytes(b, sizes, part)) = sizes[part]
      /\ bytes(b, sizes, part)[1] = <<b, part, 1>> /\ sizes[part] \in Nat
  BY BytesTyped
<1>2. /\ bytes(v, sizes, part) \in Seq(Byte) /\ Len(bytes(v, sizes, part)) = sizes[part]
      /\ bytes(v, sizes, part)[1] = <<v, part, 1>>
  BY BytesTyped
<1>3. first_bytes(b, sizes, part, sizes[part]) = bytes(b, sizes, part)
  <2> DEFINE whole == bytes(b, sizes, part)
  <2>1. whole \in Seq(Byte) /\ Len(whole) = sizes[part]
    BY <1>1
  <2> HIDE DEF whole
  <2>2. SubSeq(whole, 1, Len(whole)) = whole
    BY <2>1
  <2> QED
    BY <2>1, <2>2 DEF first_bytes, whole
<1>4. bytes(v, sizes, part) = bytes(b, sizes, part)
  BY <1>1, <1>2, <1>3, EndIsWhole
<1> QED
  BY <1>1, <1>2, <1>4

\* What is assembled from an area that ends in all of a build is that build.
LEMMA AssembledIsBuild ==
  ASSUME NEW b \in Build, upload.sizes \in Sizes, NEW area \in StagingArea,
         EndsIn(b, upload.sizes, area, upload.sizes), NEW pack \in assembled(area)
  PROVE  /\ pack.destination = published(b, publication[b].bundle).destination
         /\ pack.name = publication[b].name /\ pack.deps = publication[b].deps
         /\ pack.modules = publication[b].modules
         /\ DOMAIN pack.bundle = DOMAIN publication[b].bundle
         /\ \A m \in DOMAIN pack.bundle : pack.bundle[m] = publication[b].bundle[m]
<1> DEFINE sizes == upload.sizes
           built(k) == read_part(area.modules[k - 1], k)
           of(m) == CHOOSE k \in 1 .. Len(ModuleOrder) : ModuleOrder[k] = m
           code_of(v) == [m \in DOMAIN publication[v].bundle |->
                            publication[CHOOSE w \in built(of(m)) : TRUE].bundle[m]]
<1>1. PICK v \in Build :
        /\ area.metadata_serialized = bytes(v, sizes, 0)
        /\ DOMAIN area.modules = 0 .. area.last_module_idx
        /\ area.last_module_idx + 1 = Len(ModuleOrder)
        /\ \A k \in 1 .. Len(ModuleOrder) : built(k) # {}
        /\ pack = published(v, code_of(v))
  BY DEF assembled, read_part
<1>2. area # NoStagingArea
  BY UploadAssumption
<1>3. v = b
  <2>1. 0 \in Parts /\ content(area, 0) = area.metadata_serialized
    BY <1>2, LengthOfOrder DEF content
  <2>2. Ends(bytes(v, sizes, 0), first_bytes(b, sizes, 0, sizes[0]))
    BY <1>1, <2>1 DEF EndsIn
  <2> HIDE DEF sizes
  <2>3. sizes \in Sizes
    BY DEF sizes
  <2> QED
    BY <2>1, <2>2, <2>3, OneBuild
<1>4. ASSUME NEW k \in 1 .. Len(ModuleOrder)
      PROVE  (CHOOSE w \in built(k) : TRUE) = b
  <2>1. /\ k \in Parts /\ k # 0 /\ k - 1 \in DOMAIN area.modules
    <3>1. area.last_module_idx \in Nat
      BY DEF StagingArea
    <3>2. DOMAIN area.modules = 0 .. area.last_module_idx
      BY <1>1
    <3>3. area.last_module_idx + 1 = Len(ModuleOrder)
      BY <1>1
    <3>4. k - 1 \in 0 .. area.last_module_idx /\ k # 0 /\ k \in 0 .. Len(ModuleOrder)
      BY ONLY <3>1, <3>3, LengthOfOrder, k \in 1 .. Len(ModuleOrder)
    <3> QED
      BY <3>2, <3>4, LengthOfOrder
  <2>2. content(area, k) = area.modules[k - 1]
    BY <1>2, <2>1 DEF content
  <2>3. ASSUME NEW w \in built(k)
        PROVE  w = b
    <3>1. w \in Build /\ area.modules[k - 1] = bytes(w, sizes, k)
      BY DEF read_part
    <3>2. Ends(bytes(w, sizes, k), first_bytes(b, sizes, k, sizes[k]))
      BY <2>1, <2>2, <3>1 DEF EndsIn
    <3> HIDE DEF sizes
    <3>3. sizes \in Sizes
      BY DEF sizes
    <3> QED
      BY <2>1, <3>1, <3>2, <3>3, OneBuild
  <2>4. built(k) # {}
    BY <1>1
  <2> HIDE DEF built
  <2>5. (CHOOSE w \in built(k) : TRUE) \in built(k)
    BY <2>4
  <2> QED
    BY <2>3, <2>5
<1>5. ASSUME NEW m \in DOMAIN publication[b].bundle
      PROVE  code_of(b)[m] = publication[b].bundle[m]
  <2>1. \E k \in 1 .. Len(ModuleOrder) : ModuleOrder[k] = m
    <3>1. m \in {ModuleOrder[k] : k \in DOMAIN ModuleOrder}
      BY UploadAssumption
    <3> QED
      BY <3>1, LengthOfOrder
  <2>2. of(m) \in 1 .. Len(ModuleOrder)
    BY <2>1
  <2> HIDE DEF of, built
  <2>3. (CHOOSE w \in built(of(m)) : TRUE) = b
    BY <1>4, <2>2
  <2> QED
    BY <2>3
<1>6. DOMAIN code_of(b) = DOMAIN publication[b].bundle
  OBVIOUS
<1> HIDE DEF code_of
<1>7. pack = published(b, code_of(b))
  BY <1>1, <1>3
<1>8. /\ pack.destination = published(b, publication[b].bundle).destination
      /\ pack.name = publication[b].name /\ pack.deps = publication[b].deps
      /\ pack.modules = publication[b].modules /\ pack.bundle = code_of(b)
  BY <1>7 DEF published
<1> QED
  BY <1>5, <1>6, <1>8

-----------------------------------------------------------------------------
(* The invariant of an upload.                                             *)

UploadType ==
  [status : {"new", "sending", "failed", "published"},
   publish_type : {"AccountDeploy", "ObjectDeploy", "ObjectUpgrade"},
   build : Build, sizes : Sizes, chunk_size : 1 .. MaxChunkSize,
   payloads : Seq(Payload), faults : Nat]

\* What was published is there.
PublishedThere ==
  upload.status = "published" =>
    LET pack == published(upload.build, publication[upload.build].bundle)
    IN  /\ registry[pack.destination][pack.name].deps = pack.deps
        /\ \A m \in pack.modules : code[<<pack.destination, m>>] = pack.bundle[m]

\* While payloads are sent, the staging area ends in what those before them carried, and
\* they carry the rest of the build; only the last one publishes.
SendingInv ==
  upload.status = "sending" =>
    /\ upload.payloads # <<>>
    /\ \E sent \in Counts :
         /\ EndsIn(upload.build, upload.sizes, staging, sent)
         /\ Path(upload.payloads, CarryingPayload(upload.build, upload.sizes), sent, upload.sizes)
    /\ \A i \in 1 .. Len(upload.payloads) :
         upload.payloads[i].function = "publish" <=> i = Len(upload.payloads)

UploadInv ==
  /\ upload \in UploadType
  /\ upload.payloads \in Seq(SmallPayload(upload.chunk_size))
  /\ staging \in StagingArea \cup {NoStagingArea}
  /\ SendingInv
  /\ PublishedThere

LEMMA UploadInitially == ChunkInit => UploadInv
<1> SUFFICES ASSUME ChunkInit PROVE UploadInv
  OBVIOUS
<1>1. PICK b \in Build, sizes \in Sizes, size \in 1 .. MaxChunkSize,
           type \in {"AccountDeploy", "ObjectDeploy"} :
        upload = [status |-> "new", publish_type |-> type, build |-> b,
                  sizes |-> sizes, chunk_size |-> size, payloads |-> <<>>, faults |-> 0]
  BY DEF ChunkInit
<1>2. staging = NoStagingArea
  BY DEF ChunkInit
<1>3. <<>> \in Seq(Payload) /\ <<>> \in Seq(SmallPayload(upload.chunk_size))
  OBVIOUS
<1>4. upload \in UploadType
  BY <1>1, <1>3 DEF UploadType
<1> QED
  BY <1>1, <1>2, <1>3, <1>4 DEF UploadInv, SendingInv, PublishedThere

LEMMA BeginKeepsUpload == ASSUME UploadInv, begin_upload PROVE UploadInv'
<1> DEFINE b == upload.build
           sizes == upload.sizes
           size == upload.chunk_size
           all == chunk_package_and_create_payloads(b, sizes, size)
<1>1. /\ upload \in UploadType /\ staging' = staging
      /\ upload' = [upload EXCEPT !.status = "sending", !.payloads = all]
  BY DEF UploadInv, begin_upload
<1>2. b \in Build /\ sizes \in Sizes /\ size \in Nat \ {0}
  BY <1>1, UploadAssumption DEF UploadType
<1> HIDE DEF b, sizes, size
<1>3. /\ all \in Seq(SmallPayload(size)) /\ all # <<>>
      /\ Path(all, CarryingPayload(b, sizes), Nothing, sizes)
      /\ \A i \in 1 .. Len(all) : all[i].function = "publish" <=> i = Len(all)
  BY <1>2, PayloadsCarryAll
<1> HIDE DEF all
<1>4. all \in Seq(Payload)
  <2>1. SmallPayload(size) \subseteq Payload
    BY DEF SmallPayload
  <2> QED
    BY <1>3, <2>1
<1>5. /\ upload' \in UploadType /\ upload'.status = "sending" /\ upload'.payloads = all
      /\ upload'.build = b /\ upload'.sizes = sizes /\ upload'.chunk_size = size
  <2> DEFINE P == Seq(Payload)
  <2>1. all \in P
    BY <1>4
  <2>2. UploadType = [status : {"new", "sending", "failed", "published"},
                      publish_type : {"AccountDeploy", "ObjectDeploy", "ObjectUpgrade"},
                      build : Build, sizes : Sizes, chunk_size : 1 .. MaxChunkSize,
                      payloads : P, faults : Nat]
    BY DEF UploadType
  <2> HIDE DEF P
  <2> QED
    BY <1>1, <2>1, <2>2 DEF b, sizes, size
<1>6. Nothing \in Counts
  BY DEF Nothing, Counts
<1>7. staging \in StagingArea \cup {NoStagingArea}
  BY DEF UploadInv
<1>8. EndsIn(b, sizes, staging, Nothing)
  <2>1. ASSUME NEW part \in Parts
        PROVE  Ends(content(staging, part), first_bytes(b, sizes, part, Nothing[part]))
    <3>1. content(staging, part) \in Seq(Byte) /\ Nothing[part] = 0
      BY <1>7, ContentTyped DEF Nothing
    <3> QED
      BY <1>2, <3>1, EndsInNothing
  <2> QED
    BY <2>1 DEF EndsIn
<1>9. SendingInv'
  BY <1>1, <1>3, <1>5, <1>6, <1>8 DEF SendingInv
<1>10. PublishedThere'
  BY <1>5 DEF PublishedThere
<1> QED
  BY <1>1, <1>3, <1>5, <1>7, <1>9, <1>10 DEF UploadInv

\* What the first payload stages
LEMMA HeadStages ==
  ASSUME UploadInv, upload.status = "sending"
  PROVE  LET area == stage_code_chunk(staging, Head(upload.payloads))
         IN  \E mid \in Counts :
               /\ area \in StagingArea
               /\ EndsIn(upload.build, upload.sizes, area, mid)
               /\ Path(Tail(upload.payloads), CarryingPayload(upload.build, upload.sizes),
                       mid, upload.sizes)
<1> DEFINE b == upload.build
           sizes == upload.sizes
           s == upload.payloads
           area == stage_code_chunk(staging, Head(s))
<1>1. s \in Seq(Payload) /\ s # <<>> /\ b \in Build /\ sizes \in Sizes
      /\ staging \in StagingArea \cup {NoStagingArea}
  BY DEF UploadInv, SendingInv, UploadType
<1>2. PICK sent \in Counts : EndsIn(b, sizes, staging, sent)
                             /\ Path(s, CarryingPayload(b, sizes), sent, sizes)
  BY DEF UploadInv, SendingInv
<1> HIDE DEF b, sizes, s
<1>3. PICK mid \in Counts : /\ <<Head(s), sent, mid>> \in CarryingPayload(b, sizes)
                            /\ Path(Tail(s), CarryingPayload(b, sizes), mid, sizes)
  BY <1>1, <1>2, PathStep
<1>4. Head(s) \in Payload /\ PayloadCarries(b, sizes, Head(s), sent, mid)
  BY <1>3 DEF CarryingPayload
<1>5. area \in StagingArea /\ EndsIn(b, sizes, area, mid)
  BY <1>1, <1>2, <1>4, StageCall
<1> QED
  BY <1>3, <1>5 DEF b, sizes, s

LEMMA StageKeepsUpload == ASSUME UploadInv, send_stage PROVE UploadInv'
<1> DEFINE s == upload.payloads
           rest == Tail(s)
<1>1. /\ upload \in UploadType /\ upload.status = "sending" /\ Head(s).function = "stage"
      /\ staging' = stage_code_chunk(staging, Head(s))
      /\ upload' = [upload EXCEPT !.payloads = rest]
      /\ s \in Seq(Payload) /\ s \in Seq(SmallPayload(upload.chunk_size)) /\ s # <<>>
      /\ \A i \in 1 .. Len(s) : s[i].function = "publish" <=> i = Len(s)
  BY DEF UploadInv, send_stage, SendingInv, UploadType
<1>2. PICK mid \in Counts :
        /\ staging' \in StagingArea
        /\ EndsIn(upload.build, upload.sizes, staging', mid)
        /\ Path(rest, CarryingPayload(upload.build, upload.sizes), mid, upload.sizes)
  BY <1>1, HeadStages
<1> HIDE DEF s
<1>3. /\ Len(s) \in Nat /\ Len(s) > 0 /\ Head(s) = s[1] /\ Len(rest) = Len(s) - 1
      /\ rest \in Seq(Payload) /\ rest \in Seq(SmallPayload(upload.chunk_size))
      /\ \A i \in 1 .. Len(s) - 1 : rest[i] = s[i + 1]
  BY <1>1, HeadTailProperties
<1>4. Len(s) # 1
  BY <1>1, <1>3
<1> HIDE DEF rest
<1>5. rest # <<>>
  BY <1>3, <1>4
<1>6. ASSUME NEW i \in 1 .. Len(rest)
      PROVE  rest[i].function = "publish" <=> i = Len(rest)
  <2>1. i + 1 \in 1 .. Len(s) /\ i \in 1 .. Len(s) - 1 /\ (i + 1 = Len(s) <=> i = Len(rest))
    BY <1>3
  <2>2. rest[i] = s[i + 1]
    BY <1>3, <2>1
  <2> QED
    BY <1>1, <2>1, <2>2
<1>7. /\ upload' \in UploadType /\ upload'.status = "sending" /\ upload'.payloads = rest
      /\ upload'.build = upload.build /\ upload'.sizes = upload.sizes
      /\ upload'.chunk_size = upload.chunk_size
  <2> DEFINE P == Seq(Payload)
  <2>1. rest \in P
    BY <1>3
  <2>2. UploadType = [status : {"new", "sending", "failed", "published"},
                      publish_type : {"AccountDeploy", "ObjectDeploy", "ObjectUpgrade"},
                      build : Build, sizes : Sizes, chunk_size : 1 .. MaxChunkSize,
                      payloads : P, faults : Nat]
    BY DEF UploadType
  <2> HIDE DEF P
  <2> QED
    BY <1>1, <2>1, <2>2
<1>8. SendingInv'
  BY <1>2, <1>5, <1>6, <1>7 DEF SendingInv
<1>9. PublishedThere'
  BY <1>7 DEF PublishedThere
<1> QED
  BY <1>2, <1>3, <1>7, <1>8, <1>9 DEF UploadInv

LEMMA UploadRecord ==
  \E P : /\ <<>> \in P
         /\ UploadType = [status : {"new", "sending", "failed", "published"},
                          publish_type : {"AccountDeploy", "ObjectDeploy", "ObjectUpgrade"},
                          build : Build, sizes : Sizes, chunk_size : 1 .. MaxChunkSize,
                          payloads : P, faults : Nat]
<1>1. <<>> \in Seq(Payload)
  OBVIOUS
<1> QED
  BY <1>1 DEF UploadType

LEMMA PublishKeepsUpload == ASSUME UploadInv, send_publish PROVE UploadInv'
<1> DEFINE b == upload.build
           s == upload.payloads
           area == stage_code_chunk(staging, Head(s))
           request(pack) == publish_request(registry, pack, code_dependency_check)
           accepted == {pack \in assembled(area) :
                          /\ destination_there(pack) /\ publishable(registry, pack)
                          /\ storable(code, request(pack))}
<1>1. /\ upload \in UploadType /\ upload.status = "sending" /\ Head(s).function = "publish"
      /\ s \in Seq(Payload) /\ s \in Seq(SmallPayload(upload.chunk_size)) /\ s # <<>>
      /\ \A i \in 1 .. Len(s) : s[i].function = "publish" <=> i = Len(s)
      /\ b \in Build /\ upload.sizes \in Sizes
      /\ staging \in StagingArea \cup {NoStagingArea}
  BY DEF UploadInv, send_publish, SendingInv, UploadType
<1>2. CASE /\ accepted = {} /\ upload' = [upload EXCEPT !.status = "failed"]
           /\ UNCHANGED <<staging, registry, code>>
  <2>0. PICK P :
          /\ <<>> \in P
          /\ UploadType = [status : {"new", "sending", "failed", "published"},
                           publish_type : {"AccountDeploy", "ObjectDeploy", "ObjectUpgrade"},
                           build : Build, sizes : Sizes, chunk_size : 1 .. MaxChunkSize,
                           payloads : P, faults : Nat]
    BY UploadRecord
  <2>1. /\ upload' \in UploadType /\ upload'.status = "failed" /\ upload'.payloads = s
        /\ upload'.chunk_size = upload.chunk_size
    BY <1>1, <1>2, <2>0
  <2>2. staging' \in StagingArea \cup {NoStagingArea}
    BY <1>1, <1>2
  <2>3. SendingInv' /\ PublishedThere'
    BY <2>1 DEF SendingInv, PublishedThere
  <2> QED
    BY <1>1, <2>1, <2>2, <2>3 DEF UploadInv
<1>3. ASSUME NEW pack \in accepted,
             registry' = with_package(registry, pack),
             code' = with_bundle(code, request(pack)),
             staging' = NoStagingArea,
             upload' = [upload EXCEPT !.status = "published", !.payloads = <<>>]
      PROVE  UploadInv'
  <2>1. PICK mid \in Counts :
          /\ area \in StagingArea /\ EndsIn(b, upload.sizes, area, mid)
          /\ Path(Tail(s), CarryingPayload(b, upload.sizes), mid, upload.sizes)
    BY <1>1, HeadStages
  <2>2. Tail(s) = <<>>
    <3> HIDE DEF s
    <3>1. Len(s) \in Nat /\ Len(s) > 0 /\ Head(s) = s[1] /\ Len(Tail(s)) = Len(s) - 1
          /\ Tail(s) \in Seq(Payload)
      BY <1>1, HeadTailProperties
    <3>2. /\ Head(s).function = "publish"
          /\ \A i \in 1 .. Len(s) : s[i].function = "publish" <=> i = Len(s)
      BY <1>1
    <3>3. s[1].function = "publish" /\ 1 \in 1 .. Len(s)
      <4>1. 1 \in 1 .. Len(s)
        BY <3>1
      <4>2. Head(s) = s[1]
        BY <3>1
      <4> QED
        BY <3>2, <4>1, <4>2
    <3>4. Len(s) = 1
      BY <3>2, <3>3
    <3> DEFINE rest == Tail(s)
    <3>5. rest \in Seq(Payload) /\ Len(rest) = 0
      BY <3>1, <3>4
    <3> HIDE DEF rest
    <3>6. rest = <<>>
      BY <3>5
    <3> QED
      BY <3>6 DEF rest
  <2>3. mid = upload.sizes
    BY <2>1, <2>2, PathOfNoneStays
  <2>4. pack \in assembled(area) /\ storable(code, request(pack))
    OBVIOUS
  <2> HIDE DEF accepted, area
  <2>5. /\ pack.destination = published(b, publication[b].bundle).destination
        /\ pack.name = publication[b].name /\ pack.deps = publication[b].deps
        /\ pack.modules = publication[b].modules
        /\ DOMAIN pack.bundle = DOMAIN publication[b].bundle
        /\ \A m \in DOMAIN pack.bundle : pack.bundle[m] = publication[b].bundle[m]
    BY <1>1, <2>1, <2>3, <2>4, AssembledIsBuild
  <2>6. /\ upload' \in UploadType /\ upload'.status = "published" /\ upload'.payloads = <<>>
        /\ upload'.build = b /\ upload'.publish_type = upload.publish_type
    <3>0. upload \in UploadType
      BY <1>1
    <3>00. PICK P :
            /\ <<>> \in P
            /\ UploadType = [status : {"new", "sending", "failed", "published"},
                             publish_type : {"AccountDeploy", "ObjectDeploy", "ObjectUpgrade"},
                             build : Build, sizes : Sizes, chunk_size : 1 .. MaxChunkSize,
                             payloads : P, faults : Nat]
      BY UploadRecord
    <3> QED
      BY <1>3, <3>0, <3>00
  <2> DEFINE there == [destination |-> IF upload'.publish_type = "AccountDeploy"
                                         THEN publication[b].destination ELSE UploadObject,
                       name |-> publication[b].name,
                       upgrade_policy |-> publication[b].upgrade_policy,
                       modules |-> publication[b].modules, deps |-> publication[b].deps,
                       bundle |-> publication[b].bundle]
  <2>7. /\ there.destination = pack.destination /\ there.name = pack.name
        /\ there.deps = pack.deps /\ there.modules = pack.modules
        /\ there.bundle = publication[b].bundle
    <3>1. there.destination = published(b, publication[b].bundle).destination
      BY <2>6 DEF published
    <3>2. /\ there.name = publication[b].name /\ there.deps = publication[b].deps
          /\ there.modules = publication[b].modules /\ there.bundle = publication[b].bundle
      OBVIOUS
    <3> HIDE DEF there
    <3> QED
      BY <2>5, <3>1, <3>2
  <2>8. registry'[pack.destination][pack.name].deps = pack.deps
    BY <1>3 DEF with_package, set_entry
  <2>9. ASSUME NEW m \in pack.modules
        PROVE  code'[<<pack.destination, m>>] = publication[b].bundle[m]
    <3>1. /\ request(pack).destination = pack.destination
          /\ request(pack).bundle = pack.bundle
          /\ request(pack).expected_modules = pack.modules
      BY DEF publish_request
    <3> HIDE DEF request
    <3>2. DOMAIN pack.bundle = pack.modules
      BY <2>4, <3>1 DEF storable
    <3>3. code'[<<pack.destination, m>>] = pack.bundle[m]
      BY <1>3, <3>1, <3>2 DEF with_bundle
    <3> QED
      BY <2>5, <3>2, <3>3
  <2>10. PublishedThere'
    <3>1. \A m \in there.modules : code'[<<there.destination, m>>] = there.bundle[m]
      BY <2>7, <2>9
    <3>2. registry'[there.destination][there.name].deps = there.deps
      BY <2>7, <2>8
    <3>3. published(upload.build, publication[upload.build].bundle)' = there
      BY <2>6 DEF published
    <3> HIDE DEF there
    <3> QED
      BY <3>1, <3>2, <3>3 DEF PublishedThere
  <2>11. SendingInv'
    BY <2>6 DEF SendingInv
  <2>12. <<>> \in Seq(SmallPayload(upload'.chunk_size))
    OBVIOUS
  <2> QED
    BY <1>3, <2>6, <2>10, <2>11, <2>12 DEF UploadInv
<1> QED
  BY <1>2, <1>3 DEF send_publish

\* The steps that send nothing leave no upload that is sending or published.
LEMMA OthersKeepUpload ==
  ASSUME UploadInv, fail_upload \/ restart_upload \/ restart_careless \/ begin_upgrade
  PROVE  UploadInv'
<1>0. PICK P :
        /\ <<>> \in P
        /\ UploadType = [status : {"new", "sending", "failed", "published"},
                         publish_type : {"AccountDeploy", "ObjectDeploy", "ObjectUpgrade"},
                         build : Build, sizes : Sizes, chunk_size : 1 .. MaxChunkSize,
                         payloads : P, faults : Nat]
  BY UploadRecord
<1>1. /\ upload \in UploadType /\ upload.faults \in Nat
      /\ upload.payloads \in Seq(SmallPayload(upload.chunk_size))
      /\ staging \in StagingArea \cup {NoStagingArea}
  BY DEF UploadInv, UploadType
<1>2. SUFFICES /\ upload' \in UploadType /\ upload'.status \in {"new", "failed"}
               /\ upload'.payloads \in {upload.payloads, <<>>}
               /\ upload'.chunk_size = upload.chunk_size
               /\ staging' \in {staging, NoStagingArea}
  <2>1. SendingInv' /\ PublishedThere'
    BY <1>2 DEF SendingInv, PublishedThere
  <2>2. upload'.payloads \in Seq(SmallPayload(upload'.chunk_size))
    <3>1. <<>> \in Seq(SmallPayload(upload.chunk_size))
      OBVIOUS
    <3> QED
      BY <1>1, <1>2, <3>1
  <2> QED
    BY <1>1, <1>2, <2>1, <2>2 DEF UploadInv
<1>3. upload.faults + 1 \in Nat
  BY <1>1
<1>4. CASE fail_upload
  <2>1. upload' = [upload EXCEPT !.status = "failed", !.faults = upload.faults + 1]
        /\ staging' = staging
    BY <1>4 DEF fail_upload
  <2> QED
    BY <1>1, <1>3, <2>1, <1>0
<1>5. CASE restart_upload
  <2>1. PICK b \in Build :
          upload' = [upload EXCEPT !.status = "new", !.build = b, !.payloads = <<>>]
    BY <1>5 DEF restart_upload
  <2>2. staging' = NoStagingArea
    BY <1>5 DEF restart_upload, cleanup_staging_area
  <2> QED
    BY <1>1, <2>1, <2>2, <1>0
<1>6. CASE restart_careless
  <2>1. PICK b \in Build :
          upload' = [upload EXCEPT !.status = "new", !.build = b, !.payloads = <<>>,
                                   !.faults = upload.faults + 1]
    BY <1>6 DEF restart_careless
  <2>2. staging' = staging
    BY <1>6 DEF restart_careless
  <2> QED
    BY <1>1, <1>3, <2>1, <2>2, <1>0
<1>7. CASE begin_upgrade
  <2>1. PICK b \in Build :
          upload' = [upload EXCEPT !.status = "new", !.publish_type = "ObjectUpgrade",
                                   !.build = b]
    BY <1>7 DEF begin_upgrade
  <2>2. staging' = staging
    BY <1>7 DEF begin_upgrade
  <2> QED
    BY <1>1, <2>1, <2>2, <1>0
<1> QED
  BY <1>4, <1>5, <1>6, <1>7

LEMMA StepKeepsUpload == UploadInv /\ [ChunkNext]_<<chunkVars, codeVars>> => UploadInv'
<1> SUFFICES ASSUME UploadInv, [ChunkNext]_<<chunkVars, codeVars>> PROVE UploadInv'
  OBVIOUS
<1>1. CASE begin_upload
  BY <1>1, BeginKeepsUpload
<1>2. CASE send_stage
  BY <1>2, StageKeepsUpload
<1>3. CASE send_publish
  BY <1>3, PublishKeepsUpload
<1>4. CASE fail_upload \/ restart_upload \/ restart_careless \/ begin_upgrade
  BY <1>4, OthersKeepUpload
<1>5. CASE UNCHANGED <<chunkVars, codeVars>>
  BY <1>5 DEF chunkVars, codeVars, UploadInv, SendingInv, PublishedThere, published
<1> QED
  BY <1>1, <1>2, <1>3, <1>4, <1>5 DEF ChunkNext, Client

LEMMA WholeFromInv == UploadInv => PublishedWhole
<1> SUFFICES ASSUME UploadInv PROVE PublishedWhole
  OBVIOUS
<1>1. ASSUME NEW i \in 1 .. Len(upload.payloads)
      PROVE  size_of_payload(upload.payloads[i]) <= upload.chunk_size
  <2>1. upload.payloads \in Seq(SmallPayload(upload.chunk_size))
    BY DEF UploadInv
  <2>2. upload.payloads[i] \in SmallPayload(upload.chunk_size)
    BY <2>1, ElementOfSeq
  <2> QED
    BY <2>2 DEF SmallPayload
<1> QED
  BY <1>1 DEF UploadInv, PublishedThere, PublishedWhole

(* Whatever the sizes of a package and of its payloads, and however often   *)
(* the client fails and starts again with or without a cleanup, payloads    *)
(* are small enough and the package that is published is the whole of the   *)
(* last build.                                                              *)
THEOREM UploadsAreWhole == ChunkSpec => []PublishedWhole
<1>1. ChunkInit => UploadInv
  BY UploadInitially
<1>2. UploadInv /\ [ChunkNext]_<<chunkVars, codeVars>> => UploadInv'
  BY StepKeepsUpload
<1>3. UploadInv => PublishedWhole
  BY WholeFromInv
<1> QED
  BY <1>1, <1>2, <1>3, PTL DEF ChunkSpec
=============================================================================
