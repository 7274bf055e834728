------------------------------- MODULE MCRelease -------------------------------
(***************************************************************************)
(* Building, releasing and publishing code, for TLC.  A behaviour publishes *)
(* packages (CodePublishing), uploads a large one (ChunkedPublish), makes   *)
(* and deploys a release (ReleaseBundle) or checks what is built            *)
(* (ExtendedChecks); which one is chosen at the start.  The first three work*)
(* on the same chain.                                                      *)
(***************************************************************************)
EXTENDS ChunkedPublish, ReleaseBundle, ExtendedChecks, TLC

CONSTANTS
  core, token, a, b, o,     \* addresses
  k, m1, n,                 \* modules of packages
  p, q,                     \* packages
  v1, v2,                   \* builds of a large package
  M, N,                     \* modules that are checked
  f1, g1, h, rnd,           \* their functions
  s, t                      \* their structs

VARIABLE kind

IdleModel == [targets |-> <<M>>, funs |-> [x \in {} |-> x], structs |-> [x \in {} |-> x]]

MCInit ==
  /\ kind \in {"publish", "upload", "release", "check"}
  /\ IF kind = "release" THEN ReleaseInit
     ELSE /\ CodeInit
          /\ release = [status |-> "idle", released |-> <<>>]
          /\ bindings = {} /\ bundle = NoBundle /\ deployment = NoDeployment
  /\ IF kind = "upload" THEN ChunkInit
     ELSE staging = NoStagingArea /\ upload = [status |-> "idle", payloads |-> <<>>]
  \* What is checked is of no consequence to the other kinds.
  /\ IF kind = "check" THEN code_dependency_check /\ model \in Models
     ELSE model = IdleModel
  /\ CheckerStart

Publish == kind = "publish" /\ CodeNext /\ UNCHANGED <<chunkVars, releaseVars>>
Upload == kind = "upload" /\ ChunkNext /\ UNCHANGED releaseVars
Release == kind = "release" /\ ReleaseNext /\ UNCHANGED chunkVars
Check == kind = "check" /\ ExtendedNext /\ UNCHANGED <<codeVars, chunkVars, releaseVars>>

MCNext ==
  /\ UNCHANGED kind
  /\ \/ (Publish \/ Upload \/ Release) /\ UNCHANGED checkVars
     \/ Check

MCvars == <<kind, codeVars, chunkVars, releaseVars, checkVars>>

FairUpload == kind = "upload" /\ Client /\ UNCHANGED <<kind, releaseVars, checkVars>>
FairDeploy == kind = "release" /\ Deploy /\ UNCHANGED <<kind, chunkVars, checkVars>>

MCSpec == MCInit /\ [][MCNext]_MCvars /\ WF_MCvars(FairUpload) /\ WF_MCvars(FairDeploy)

-----------------------------------------------------------------------------
Pub(destination, name, policy, modules, deps, imports) ==
  [destination |-> destination, name |-> name, upgrade_policy |-> policy, modules |-> modules,
   deps |-> deps, bundle |-> [x \in modules |-> imports]]

PackageP == [account |-> a, package_name |-> p]

MCPublication ==
  {Pub(a, p, policy, modules, {}, {}) : policy \in 0 .. 2, modules \in {{m1}, {m1, n}}}
  \cup {Pub(a, q, 1, {n}, {[account |-> core, package_name |-> k]}, {<<core, k>>})}
  \cup {Pub(place, p, policy, {m1}, deps, {<<a, m1>>}) :
          place \in {b, o}, policy \in 1 .. 2, deps \in {{}, {PackageP}}}
  \cup {[Pub(a, p, 1, {m1}, {}, {}) EXCEPT !.bundle = [x \in {m1, n} |-> {}]]}

MCowner_of == [x \in {o} |-> a]
MCCoreModule == {<<core, k>>}

Uploaded(deps, imports) == Pub(a, p, 1, {m1, n}, deps, imports)
MCpublication ==
  v1 :> Uploaded({}, {}) @@ v2 :> Uploaded({[account |-> core, package_name |-> k]}, {<<core, k>>})
MCModuleOrder == <<m1, n>>

-----------------------------------------------------------------------------
Source(name, address, modules, imports, units, bytecode) ==
  [name |-> name, address |-> address, custom_policy |-> "absent", modules |-> modules,
   imports |-> imports, dep_units |-> units, bytecode_deps |-> bytecode, reported |-> {},
   marked |-> {modules[1]}, metadata_size |-> Len(modules) + 1, source_size |-> 1]

\* The module k imports m1, which comes behind it in the order of names.
MCSources ==
  "move-stdlib" :> Source("MoveStdlib", core, <<k, m1>>, k :> {<<core, m1>>} @@ m1 :> {}, {}, {})
  @@ "aptos-stdlib" :>
     [Source("AptosStdlib", core, <<n>>, n :> {<<core, k>>},
             {[account |-> core, package_name |-> "MoveStdlib"]}, {})
        EXCEPT !.reported = {"warning"}]
  @@ "aptos-framework" :>
     Source("AptosFramework", core, <<p>>, p :> {<<core, n>>, <<core, m1>>},
            {[account |-> core, package_name |-> "AptosStdlib"]}, {})
  @@ "aptos-token" :>
     Source("AptosToken", token, <<m1, k>>, k :> {<<token, m1>>} @@ m1 :> {<<core, p>>},
            {[account |-> core, package_name |-> "AptosFramework"]}, {})
  @@ "aptos-token-objects" :>
     [Source("AptosTokenObjects", token, <<n>>, n :> {<<core, p>>}, {},
             {[account |-> core, package_name |-> "AptosFramework"]})
        EXCEPT !.custom_policy = "immutable"]
  @@ "aptos-experimental" :>
     [Source("AptosExperimental", core, <<q>>, q :> {<<core, k>>, <<token, n>>},
            {[account |-> core, package_name |-> "MoveStdlib"]},
            {[account |-> token, package_name |-> "AptosTokenObjects"]})
        EXCEPT !.custom_policy = "compatible"]
  @@ "broken" :>
     [Source("Broken", core, <<q>>, q :> {}, {}, {}) EXCEPT !.reported = {"error"}]
  @@ "unknown_policy" :>
     [Source("Unknown", core, <<q>>, q :> {}, {}, {}) EXCEPT !.custom_policy = "unknown"]
  @@ "arbitrary_policy" :>
     [Source("Arbitrary", core, <<q>>, q :> {}, {}, {}) EXCEPT !.custom_policy = "arbitrary"]

MCIdOrder == <<k, m1, n, p, q>>

Custom(options, packages, bindings_of, latest) ==
  [build_options |-> options, packages |-> packages, rust_bindings |-> bindings_of,
   package_use_latest_language |-> latest]

WithAbis == [DefaultOptions EXCEPT !.with_abis = TRUE]

MCCustomOptions ==
  {Custom(options, <<"aptos-stdlib", "move-stdlib">>, <<"", "lib.rs">>, <<FALSE, FALSE>>) :
     options \in {DefaultOptions, WithAbis, [WithAbis EXCEPT !.bytecode_version = 5],
                  [WithAbis EXCEPT !.compiler_version = "v1", !.language_version = "v2"],
                  [WithAbis EXCEPT !.experiments = {"FAIL_ON_WARNING"}],
                  [WithAbis EXCEPT !.experiments = {"STOP_AFTER_EXTENDED_CHECKS"}]}}
  \cup {Custom(WithAbis, <<"move-stdlib", last>>, <<"lib.rs", "lib.rs">>, latest) :
          last \in {"broken", "unknown_policy", "arbitrary_policy", "aptos-experimental"},
          latest \in {<<FALSE>>, <<FALSE, TRUE>>}}
  \cup {Custom(WithAbis, packages, bindings_of, <<FALSE, TRUE>>) :
          packages \in {<<"move-stdlib">>, <<"move-stdlib", "aptos-experimental">>},
          bindings_of \in {<<"lib.rs">>, <<"", "lib.rs">>, <<"lib.rs", "lib.rs">>}}
  \cup {Custom([WithAbis EXCEPT !.experiments = {"SKIP_BAILOUT_ON_EXTENDED_CHECKS"}],
               <<"broken">>, <<"">>, <<FALSE>>)}

MCdefault_bytecode == "default" :> 7 @@ "v1" :> 6 @@ "v2" :> 7 @@ "latest" :> 8
MClanguages_of == "default" :> {"default", "v2", "latest"} @@ "v1" :> {"v1"}

-----------------------------------------------------------------------------
MCFunOrder == <<f1, rnd, g1, h>>

Fun(module_of) ==
  [module |-> module_of, visibility |-> "private", entry |-> FALSE, attributes |-> {},
   randomness |-> "absent", callees |-> {}, params |-> <<>>, returns |-> 0, type_params |-> 0,
   init_module |-> FALSE, emits |-> {}]

Struct(module_of) ==
  [module |-> module_of, group_scope |-> "absent", member_of |-> "absent", abilities |-> {},
   fields |-> 0, type_params |-> 0, event |-> FALSE]

Env(targets, functions, types) ==
  [targets |-> targets, funs |-> functions, structs |-> types, framework |-> {},
   error_category |-> {}, address |-> (M :> a @@ N :> b),
   abort_codes |-> (M :> {1} @@ N :> {1, 2})]

Types == s :> Struct(M) @@ t :> Struct(N)

\* Call graphs on three functions, recursion and calls to a second module included
Callers ==
  {Fun(M), [Fun(M) EXCEPT !.visibility = "public"], [Fun(M) EXCEPT !.entry = TRUE]}
Others == {Fun(N), [Fun(N) EXCEPT !.visibility = "public"]}

Graphs ==
  {Env(<<M, N>>, f1 :> [x EXCEPT !.callees = cf] @@ g1 :> [y EXCEPT !.callees = cg]
                 @@ h :> [z EXCEPT !.callees = ch], Types) :
     x \in Callers, y \in Callers, z \in Others,
     cf \in SUBSET {g1, h}, cg \in SUBSET {f1, h, rnd}, ch \in SUBSET {f1, g1, rnd}}

\* One function and two structs with the attributes that the other passes look at
One(fun, types) == Env(<<M, N>>, f1 :> fun @@ h :> Fun(N), types)

Attributed ==
  {One([Fun(M) EXCEPT !.callees = calls, !.visibility = v, !.entry = e, !.randomness = r,
                      !.attributes = attributes], Types) :
     calls \in {{}, {rnd}, {h}}, v \in {"private", "public"}, e \in BOOLEAN,
     r \in {"absent", "malformed", "default", "max_gas"},
     attributes \in {{}, {"lint::allow_unsafe_randomness"}}}

Params == {<<>>, <<signer>>, <<signer_ref>>, <<signer_mut>>, <<<<"u64">>, signer_ref>>,
           <<<<"vector", "u64">>>>, <<<<"vector", "Table">>>>}

Signatures ==
  {One([Fun(M) EXCEPT !.params = params, !.returns = r, !.entry = e, !.init_module = i,
                      !.attributes = attributes], Types) :
     params \in Params, r \in 0 .. 1, e \in BOOLEAN, i \in BOOLEAN,
     attributes \in {{}, {"view"}, {"legacy_entry_fun"}}}

Emitters ==
  {One([Fun(M) EXCEPT !.emits = emits],
       s :> [Struct(M) EXCEPT !.event = e] @@ t :> [Struct(N) EXCEPT !.event = d]) :
     emits \in SUBSET {s, t}, e \in BOOLEAN, d \in BOOLEAN}

Grouped ==
  {One(Fun(M), s :> [Struct(M) EXCEPT !.member_of = container, !.abilities = abilities]
               @@ t :> [Struct(N) EXCEPT !.group_scope = scope, !.fields = fields]) :
     container \in {s, t, "unknown"}, abilities \in {{}, {"key"}},
     scope \in {"absent", "malformed", "misnamed", "global", "address", "module"}, fields \in 0 .. 1}
  \cup {One(Fun(M), s :> [Struct(M) EXCEPT !.member_of = t, !.abilities = {"key"}]
                    @@ t :> [Struct(M) EXCEPT !.group_scope = scope]) :
          scope \in {"global", "address", "module"}}

MCModels ==
  Graphs \cup Attributed \cup Signatures \cup Emitters \cup Grouped
  \cup {[One([Fun(M) EXCEPT !.visibility = "public", !.callees = {rnd}], Types)
           EXCEPT !.framework = {M}, !.error_category = {N}]}
=============================================================================
