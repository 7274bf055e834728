----------------------------- MODULE ReleaseBundle -----------------------------
(***************************************************************************)
(* A release: release_builder.rs builds the packages of a target (aptos.rs) *)
(* or of the command line one after the other and writes them to a bundle;  *)
(* release_bundle.rs orders the modules of a package for genesis and writes *)
(* the scripts by which governance publishes a package.  Genesis, the       *)
(* governance that runs the scripts and the hashes of scripts are external: *)
(* a proposal that fails stays and can be run again, a proposal of several  *)
(* steps runs its scripts in order, and a script is its own hash.           *)
(***************************************************************************)
EXTENDS CodePublishing, PackageBuild

CONSTANTS
  Sources,        \* path of a package -> its source: see PackageBuild
  CustomOptions,  \* the ReleaseOptions of the command line that are tried
  IdOrder,        \* the names of modules in their order
  ChunkSize,      \* u16::MAX / 2: the bytes of metadata in one constant of a script
  NoBundle

VARIABLES
  release,     \* create_release: status, options, the packages to do and those released
  bindings,    \* packages with Rust bindings on disk
  bundle,      \* the file
  deployment   \* mode, scripts, next_execution_hash, modules of genesis, what is done

releaseVars == <<release, bindings, bundle, deployment>>

\* ReleaseTarget::packages: directory, bindings, latest language; the same for all targets
target_packages ==
  << <<"move-stdlib", "", FALSE>>, <<"aptos-stdlib", "", FALSE>>,
     <<"aptos-framework", "aptos_framework_sdk_builder.rs", FALSE>>,
     <<"aptos-token", "aptos_token_sdk_builder.rs", FALSE>>,
     <<"aptos-token-objects", "aptos_token_objects_sdk_builder.rs", FALSE>>,
     <<"aptos-experimental", "", TRUE>> >>

column(s, k) == [i \in DOMAIN s |-> s[i][k]]

create_release_options(with_srcs) ==
  [build_options |-> [DefaultOptions EXCEPT !.with_srcs = with_srcs, !.with_abis = TRUE],
   packages |-> column(target_packages, 1),
   rust_bindings |-> column(target_packages, 2),
   package_use_latest_language |-> column(target_packages, 3)]

\* The three lists are zipped: what is longer is cut off.
zipped(options) ==
  LET lengths == {Len(options.packages), Len(options.rust_bindings),
                  Len(options.package_use_latest_language)}
  IN  [i \in 1 .. CHOOSE n \in lengths : \A k \in lengths : n <= k |->
         [package |-> options.packages[i], binding |-> options.rust_bindings[i],
          latest |-> options.package_use_latest_language[i]]]

NoDeployment == [mode |-> "none", scripts |-> <<>>, next |-> 0, modules |-> <<>>, done |-> {}]

ASSUME ReleaseConstants ==
  /\ ChunkSize \in Nat \ {0}
  /\ {target_packages[i][1] : i \in DOMAIN target_packages} \subseteq DOMAIN Sources
  /\ \A options \in CustomOptions :
       /\ DOMAIN options.build_options = DOMAIN DefaultOptions
       /\ options.packages \in Seq(DOMAIN Sources)
       /\ options.rust_bindings \in Seq(STRING)
       /\ options.package_use_latest_language \in Seq(BOOLEAN)
  /\ \A path \in DOMAIN Sources : Compiles(Sources[path])
  /\ VERSION_MAX # NoVersion

\* A chain before genesis
EmptyChain ==
  /\ registry = [a \in {} |-> a] /\ code = [i \in {} |-> i]
  /\ session = NoSession /\ code_dependency_check \in BOOLEAN

\* StandardRelease or CustomRelease
ReleaseInit ==
  /\ CodeInit \/ EmptyChain
  /\ \E options \in {create_release_options(with_srcs) : with_srcs \in BOOLEAN} \cup CustomOptions :
       release = [status |-> "building", options |-> options, todo |-> zipped(options),
                  released |-> <<>>]
  /\ bindings = {} /\ bundle = NoBundle /\ deployment = NoDeployment

-----------------------------------------------------------------------------
\* The options of one package
package_options(item) ==
  IF item.latest THEN set_latest_language(release.options.build_options)
                 ELSE release.options.build_options

built_next == build(Sources[Head(release.todo).package], package_options(Head(release.todo)))

binding_fails == Head(release.todo).binding # "" /\ ~built_next.compiled_abis

release_fails ==
  \/ built_next = NoPackage
  \/ built_next # NoPackage /\ binding_fails
  \/ built_next # NoPackage /\ policy_of(built_next.source.custom_policy) = 3

\* ReleasePackage::new
release_package(built) ==
  [metadata |-> extract_metadata(built), code |-> extract_code(built),
   address |-> built.source.address]

\* One package of create_release
build_package ==
  /\ release.status = "building" /\ release.todo # <<>> /\ ~release_fails
  /\ release' = [release EXCEPT !.todo = Tail(@),
                   !.released = Append(@, release_package(built_next))]
  /\ bindings' = IF Head(release.todo).binding = "" THEN bindings
                 ELSE bindings \cup {built_next.source.name}
  /\ UNCHANGED <<bundle, deployment, codeVars>>

\* Fault: a package that fails is reported, and the loop goes on with the next one.
skip_package ==
  /\ release.status = "building" /\ release.todo # <<>> /\ release_fails
  /\ release' = [release EXCEPT !.todo = Tail(@)]
  /\ UNCHANGED <<bindings, bundle, deployment, codeVars>>

\* The release ends here; the bindings that were written stay.
fail_release ==
  /\ release.status = "building" /\ release.todo # <<>> /\ release_fails
  /\ release' = [release EXCEPT !.status = "failed"]
  /\ bindings' = IF built_next = NoPackage \/ binding_fails \/ Head(release.todo).binding = ""
                   THEN bindings ELSE bindings \cup {built_next.source.name}
  /\ UNCHANGED <<bundle, deployment, codeVars>>

write_bundle ==
  /\ release.status = "building" /\ release.todo = <<>>
  /\ release' = [release EXCEPT !.status = "written"]
  /\ bundle' = release.released
  /\ UNCHANGED <<bindings, deployment, codeVars>>

-----------------------------------------------------------------------------
id_of(pack, i) == <<pack.address, pack.code[i].unit.name>>
ids_of(pack) == {id_of(pack, i) : i \in DOMAIN pack.code}
unit_of(pack, id) == pack.code[CHOOSE i \in DOMAIN pack.code : id_of(pack, i) = id].unit

\* Modules of a package in the order of their names
in_order(pack, ids) ==
  LET names == SelectSeq(IdOrder, LAMBDA name : <<pack.address, name>> \in ids)
  IN  [i \in DOMAIN names |-> <<pack.address, names[i]>>]

\* Fault: a module is not preceded by what it depends on.
sort_by_name(pack, order, ids) == order \o ids

\* sort_by_deps for each of the ids: the dependencies in the package come first.
sort_by_deps(pack, order, ids) ==
  LET deps(id) == in_order(pack, unit_of(pack, id).imports \cap ids_of(pack))
      \* What is ordered with what there is to sort -> the order
      sorted[step \in Seq(ids_of(pack)) \X Seq(ids_of(pack))] ==
        IF step[2] = <<>> THEN step[1]
        ELSE LET id == Head(step[2])
                 seen == {step[1][i] : i \in DOMAIN step[1]}
                 next == IF id \in seen THEN step[1]
                         ELSE Append(sorted[<<step[1], deps(id)>>], id)
             IN  sorted[<<next, Tail(step[2])>>]
  IN  sorted[<<order, ids>>]

sorted_code_and_modules(pack) == sort_by_deps(pack, <<>>, in_order(pack, ids_of(pack)))

\* bcs::to_bytes of the metadata
metadata_bytes(pack) == [i \in 1 .. pack.metadata.size |-> <<pack.metadata.name, i>>]

\* Fault: what is left after the full chunks is forgotten.
full_chunks(data) ==
  [k \in 1 .. Len(data) \div ChunkSize |->
     SubSeq(data, (k - 1) * ChunkSize + 1, k * ChunkSize)]

\* The constants of a script; the last one takes what is left.
metadata_chunks(data) ==
  LET num_of_chunks == Len(data) \div ChunkSize + 1
  IN  [k \in 1 .. num_of_chunks |->
         SubSeq(data, (k - 1) * ChunkSize + 1,
                IF k = num_of_chunks THEN Len(data) ELSE k * ChunkSize)]

\* generate_script_proposal and its variants
generate_script_proposal(pack, next_execution_hash) ==
  [for_address |-> pack.address, code |-> pack.code,
   metadata |-> metadata_chunks(metadata_bytes(pack)),
   next_execution_hash |-> next_execution_hash]

NoHash == 0

\* The scripts for a bundle; each step of a proposal of several names the next one.
\* Governance is on chain already.
generate_proposals(mode) ==
  /\ bundle # NoBundle /\ deployment.mode = "none" /\ DOMAIN code # {}
  /\ deployment' = [deployment EXCEPT !.mode = mode, !.next = 1, !.scripts =
       [i \in DOMAIN bundle |->
          generate_script_proposal(bundle[i],
            IF mode = "multi_step" /\ i < Len(bundle) THEN i + 1 ELSE NoHash)]]
  /\ UNCHANGED <<release, bindings, bundle, codeVars>>

\* The sequences one after the other
appended(chunks) ==
  LET first[k \in 0 .. Len(chunks)] == IF k = 0 THEN <<>> ELSE first[k - 1] \o chunks[k]
  IN  first[Len(chunks)]

\* The package that a script publishes: from_bytes on its chunks, with the code
published_by(script) ==
  {[destination |-> script.for_address, name |-> pack.metadata.name,
    upgrade_policy |-> pack.metadata.upgrade_policy,
    modules |-> {pack.metadata.modules[i] : i \in DOMAIN pack.metadata.modules},
    deps |-> pack.metadata.deps,
    bundle |-> [m \in {script.code[i].unit.name : i \in DOMAIN script.code} |->
                  script.code[CHOOSE i \in DOMAIN script.code :
                                script.code[i].unit.name = m].unit.imports]] :
     pack \in {p \in {bundle[i] : i \in DOMAIN bundle} :
                 metadata_bytes(p) = appended(script.metadata)}}

\* A proposal that has passed is executed: publish_package_txn and the VM.
execute_proposal(i) ==
  /\ deployment.mode \in {"testnet", "single", "multi_step"}
  /\ i \in DOMAIN deployment.scripts \ deployment.done
  /\ deployment.mode = "multi_step" => deployment.next = i
  /\ \E pack \in published_by(deployment.scripts[i]) :
       LET request == publish_request(registry, pack, code_dependency_check)
       IN  /\ publishable(registry, pack) /\ storable(code, request)
           /\ registry' = with_package(registry, pack) /\ code' = with_bundle(code, request)
  /\ deployment' = [deployment EXCEPT !.done = @ \cup {i},
                      !.next = deployment.scripts[i].next_execution_hash]
  /\ UNCHANGED <<release, bindings, bundle, session, code_dependency_check>>

\* Genesis of a chain without code: the modules of the bundle, package by package
genesis_modules(packs) ==
  appended([i \in DOMAIN packs |-> sorted_code_and_modules(packs[i])])

start_genesis ==
  /\ bundle # NoBundle /\ deployment.mode = "none" /\ DOMAIN code = {}
  /\ deployment' = [deployment EXCEPT !.mode = "genesis", !.modules = genesis_modules(bundle)]
  /\ UNCHANGED <<release, bindings, bundle, codeVars>>

\* A module is stored when what it imports is there.
genesis_module ==
  /\ deployment.mode = "genesis" /\ deployment.modules # <<>>
  /\ LET id == Head(deployment.modules)
         pack == bundle[CHOOSE i \in DOMAIN bundle : id \in ids_of(bundle[i])]
     IN  /\ unit_of(pack, id).imports \subseteq DOMAIN code
         /\ code' = set_entry(code, id, unit_of(pack, id).imports)
  /\ deployment' = [deployment EXCEPT !.modules = Tail(@)]
  /\ UNCHANGED <<release, bindings, bundle, registry, session, code_dependency_check>>

\* code::initialize for each package, when the modules are there
genesis_initialize(i) ==
  /\ deployment.mode = "genesis" /\ deployment.modules = <<>>
  /\ i \in DOMAIN bundle \ deployment.done
  /\ LET pack == bundle[i]
         installed == packages_at(registry, pack.address)
     IN  registry' = set_entry(registry, pack.address, set_entry(installed, pack.metadata.name,
           [upgrade_policy |-> pack.metadata.upgrade_policy, upgrade_number |-> 0,
            modules |-> {pack.metadata.modules[k] : k \in DOMAIN pack.metadata.modules},
            deps |-> pack.metadata.deps]))
  /\ deployment' = [deployment EXCEPT !.done = @ \cup {i}]
  /\ UNCHANGED <<release, bindings, bundle, code, session, code_dependency_check>>

Deploy ==
  \/ genesis_module
  \/ \E i \in DOMAIN deployment.scripts : execute_proposal(i)
  \/ bundle # NoBundle /\ \E i \in DOMAIN bundle : genesis_initialize(i)

ReleaseNext ==
  \/ build_package \/ fail_release \/ write_bundle
  \/ \E mode \in {"testnet", "single", "multi_step"} : generate_proposals(mode)
  \/ start_genesis
  \/ Deploy

allReleaseVars == <<releaseVars, codeVars>>

ReleaseSpec == ReleaseInit /\ [][ReleaseNext]_allReleaseVars /\ WF_allReleaseVars(Deploy)

-----------------------------------------------------------------------------
\* The dependencies of each package are released before it, and it can be published.
BottomUp(packs) ==
  \A i \in DOMAIN packs :
    /\ packs[i].metadata.upgrade_policy > arbitrary
    /\ \A k \in DOMAIN packs[i].code : \A id \in packs[i].code[k].unit.imports :
         id \in DOMAIN code \/ \E j \in 1 .. i : id \in ids_of(packs[j])
    /\ \A j \in 1 .. i - 1 : packs[j].metadata.name # packs[i].metadata.name

\* The packages with a binding path among the first n that were asked for
bound(n) ==
  {Sources[release.options.packages[i]].name :
     i \in {j \in 1 .. n : release.options.rust_bindings[j] # ""}}

\* What is released is what was asked for, in that order, each package in the language
\* that was asked for it; a bundle lacks packages only where one of the three lists has
\* ended before; and the bindings on disk are those of the packages that were released,
\* and maybe that of the package at which the release failed.
ReleasedAsAsked ==
  LET asked == release.options
      done == Len(release.released)
      lengths == {Len(asked.packages), Len(asked.rust_bindings),
                  Len(asked.package_use_latest_language)}
  IN  /\ \A i \in 1 .. done :
           /\ release.released[i].metadata.name = Sources[asked.packages[i]].name
           /\ \A k \in DOMAIN release.released[i].code :
                release.released[i].code[k].version =
                  IF asked.package_use_latest_language[i] THEN VERSION_MAX
                  ELSE inferred_bytecode_version(asked.build_options)
      /\ bundle # NoBundle =>
           /\ bundle = release.released
           /\ done \in lengths /\ \A n \in lengths : done <= n
      /\ bound(done) \subseteq bindings
      /\ bindings \subseteq bound(IF release.status = "failed" THEN done + 1 ELSE done)

(* A released package is what was built: the metadata names the modules of  *)
(* the code and a package behind each address that they import from, the VM *)
(* finds the runtime metadata in the form that goes with the version of the *)
(* bytecode, and a script holds the metadata of its package in constants    *)
(* that Move allows.  The packages and bindings are those asked for, after a*)
(* release that failed too.                                                 *)
ReleasedAsBuilt ==
  /\ \A i \in DOMAIN release.released :
       LET pack == release.released[i]
       IN  /\ pack.metadata.modules = [k \in DOMAIN pack.code |-> pack.code[k].unit.name]
           /\ \A k \in DOMAIN pack.code :
                /\ pack.code[k].unit.metadata # "none" =>
                     (pack.code[k].unit.metadata = "APTOS_METADATA_KEY_V1"
                        <=> pack.code[k].version >= METADATA_V1_MIN_FILE_FORMAT_VERSION)
                /\ \A id \in pack.code[k].unit.imports \ ids_of(pack) :
                     \E dep \in pack.metadata.deps : dep.account = id[1]
  /\ \A i \in DOMAIN deployment.scripts :
       LET chunks == deployment.scripts[i].metadata
       IN  /\ appended(chunks) = metadata_bytes(bundle[i])
           /\ \A k \in DOMAIN chunks : Len(chunks[k]) <= ChunkSize
  /\ ReleasedAsAsked

\* All packages of the bundle are on chain.
deployed ==
  /\ bundle # NoBundle /\ deployment.done = DOMAIN bundle
  /\ \A i \in DOMAIN bundle :
       /\ bundle[i].metadata.name \in DOMAIN registry[bundle[i].address]
       /\ ids_of(bundle[i]) \subseteq DOMAIN code

(* The packages of a bundle in the order of their dependencies all get      *)
(* deployed: at genesis, by the steps of one proposal, and by proposals that*)
(* are executed in any order, as one that comes too early changes nothing   *)
(* and can be executed again.                                               *)
ReleaseCompletes ==
  (deployment.mode # "none" /\ BottomUp(bundle)) ~> deployed
=============================================================================
