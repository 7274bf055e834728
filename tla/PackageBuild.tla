----------------------------- MODULE PackageBuild -----------------------------
(***************************************************************************)
(* Building a package (built_package.rs): the versions it is built for, the *)
(* bail-outs after the extended checks, the runtime metadata put into its   *)
(* modules, and what is extracted from it to be published.  The compiler is *)
(* external: of what it makes a package has its modules with what they      *)
(* import, the units of its dependencies and the diagnostics of the checks. *)
(***************************************************************************)
EXTENDS Integers, Sequences, FiniteSets

CONSTANTS
  default_bytecode,   \* language version -> the bytecode version it is compiled to
  languages_of,       \* compiler version -> the language versions it supports
  LatestLanguage, VERSION_MAX,
  NoPackage           \* the result of a build that fails

NoVersion == 0

METADATA_V1_MIN_FILE_FORMAT_VERSION == 6

\* BuildOptions::default, as far as it has an effect
DefaultOptions ==
  [with_srcs |-> FALSE, with_abis |-> FALSE, bytecode_version |-> NoVersion,
   compiler_version |-> "default", language_version |-> "default", experiments |-> {}]

infer_bytecode_version(language, version) ==
  IF version # NoVersion THEN version ELSE default_bytecode[language]

inferred_bytecode_version(options) ==
  infer_bytecode_version(options.language_version, options.bytecode_version)

set_latest_language(options) ==
  [options EXCEPT !.language_version = LatestLanguage, !.bytecode_version = VERSION_MAX]

check_versions(options) == options.language_version \in languages_of[options.compiler_version]

create_build_config(options) ==
  [bytecode_version |-> inferred_bytecode_version(options), generate_abis |-> options.with_abis]

-----------------------------------------------------------------------------
(* A source: name, address, custom_policy, modules (names in order),        *)
(* imports (module -> <<address, module>>), dep_units and bytecode_deps     *)
(* (package dependencies), reported (severities of the extended checks),    *)
(* marked (modules with runtime metadata), metadata_size, source_size.      *)

\* What the compiler needs: a module imports from its package or from a dependency.
Compiles(src) ==
  /\ src.metadata_size \in Nat /\ src.source_size \in Nat
  /\ \A i \in DOMAIN src.modules : \A id \in src.imports[src.modules[i]] :
       \/ \E k \in DOMAIN src.modules : id = <<src.address, src.modules[k]>>
       \/ \E dep \in src.dep_units \cup src.bytecode_deps : dep.account = id[1]

\* build_with_external_checks ends without a package: it fails, or it is to stop.
bails(src, options) ==
  \/ "error" \in src.reported /\ "SKIP_BAILOUT_ON_EXTENDED_CHECKS" \notin options.experiments
  \/ "warning" \in src.reported /\ "FAIL_ON_WARNING" \in options.experiments
  \/ options.experiments \cap {"STOP_BEFORE_EXTENDED_CHECKS", "STOP_AFTER_EXTENDED_CHECKS"} # {}

metadata_key(bytecode_version) ==
  IF bytecode_version >= METADATA_V1_MIN_FILE_FORMAT_VERSION
    THEN "APTOS_METADATA_KEY_V1" ELSE "APTOS_METADATA_KEY"

\* inject_runtime_metadata: the units of the root package, marked for the VM
inject_runtime_metadata(src, bytecode_version) ==
  [i \in DOMAIN src.modules |->
     LET m == src.modules[i]
     IN  [name |-> m, imports |-> src.imports[m],
          metadata |-> IF m \in src.marked THEN metadata_key(bytecode_version) ELSE "none"]]

build(src, options) ==
  IF ~check_versions(options) \/ bails(src, options) THEN NoPackage
  ELSE LET config == create_build_config(options)
       IN  [options |-> options, source |-> src,
            root_modules |-> inject_runtime_metadata(src, config.bytecode_version),
            compiled_abis |-> config.generate_abis]

extract_code(built) ==
  [i \in DOMAIN built.root_modules |->
     [unit |-> built.root_modules[i], version |-> inferred_bytecode_version(built.options)]]

\* The upgrade_policy of Move.toml, compatible when it does not say; 3 fails to parse.
policy_of(custom) ==
  CASE custom = "arbitrary" -> 0
    [] custom \in {"absent", "compatible"} -> 1
    [] custom = "immutable" -> 2
    [] OTHER -> 3

package_deps(built) == built.source.dep_units \cup built.source.bytecode_deps

extract_metadata(built) ==
  [name |-> built.source.name,
   upgrade_policy |-> policy_of(built.source.custom_policy),
   modules |-> [i \in DOMAIN built.root_modules |-> built.root_modules[i].name],
   deps |-> package_deps(built),
   size |-> built.source.metadata_size
              + IF built.options.with_srcs THEN built.source.source_size ELSE 0]
=============================================================================
