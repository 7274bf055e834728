---------------------------- MODULE ExtendedChecks ----------------------------
(***************************************************************************)
(* The checks that a build makes after the compiler (extended_checks.rs)    *)
(* and the runtime metadata they record for the VM.  The checker goes over  *)
(* the modules it was asked to build, with one pass for each kind of check. *)
(* The pass on randomness walks the call graph with a cache that it keeps   *)
(* for the whole run; a step of the walk is an action.                      *)
(*                                                                         *)
(* A type is the sequence of its constructors, the outermost first, and an  *)
(* attribute the way it is written as far as the checks tell ways apart.    *)
(***************************************************************************)
EXTENDS Integers, Sequences, FiniteSets

CONSTANTS
  Models,        \* what is built: see the fields that the checks read
  FunOrder,      \* the functions in the order of their ids
  RandomnessFun  \* a function of 0x1::randomness

\* The environment of a build has what its functions call and emit.
ASSUME ExtendedChecksConstants ==
  /\ FunOrder \in Seq({FunOrder[i] : i \in DOMAIN FunOrder})
  /\ \A m \in Models :
       /\ m.targets \in Seq(DOMAIN m.address)
       /\ DOMAIN m.funs \cup {RandomnessFun} \subseteq {FunOrder[i] : i \in DOMAIN FunOrder}
       /\ \A f \in DOMAIN m.funs :
            /\ m.funs[f].callees \subseteq DOMAIN m.funs \cup {RandomnessFun}
            /\ m.funs[f].emits \subseteq DOMAIN m.structs
            /\ m.funs[f].randomness \in {"absent", "malformed", "default", "max_gas"}

VARIABLES
  model,         \* GlobalEnv
  at,            \* the module and the pass that the checker is at
  todo,          \* functions of the module that the randomness pass has not checked
  checked,       \* the function that it checks, with the stack of calls_randomness
  randomness_caller_cache,
  diagnostics, output

checkVars == <<model, at, todo, checked, randomness_caller_cache, diagnostics, output>>

NoOutput == [randomness |-> {}, view |-> {}, event |-> {}, group |-> {}, member |-> {},
             error_map |-> {}]

funs(m) == {f \in DOMAIN model.funs : model.funs[f].module = m}
structs(m) == {s \in DOMAIN model.structs : model.structs[s].module = m}
is_public(f) == model.funs[f].visibility = "public"
is_entry(f) == model.funs[f].entry
is_framework_function(f) == model.funs[f].module \in model.framework

\* The passes of run, in order
Passes == <<"resource_groups", "resource_group_members", "view_functions", "entry_functions",
            "unbiasable", "randomness", "events", "init_module", "error_map">>

CheckerStart ==
  /\ at = [module |-> 1, pass |-> 1] /\ todo = {} /\ checked = <<>>
  /\ randomness_caller_cache = <<>>
  /\ diagnostics = {} /\ output = NoOutput

has_errors == \E d \in diagnostics : d[1] # "warning"

ExtendedInit == model \in Models /\ CheckerStart

running == at.module <= Len(model.targets)
module == model.targets[at.module]
pass == Passes[at.pass]

next_pass ==
  at' = IF at.pass < Len(Passes) THEN [at EXCEPT !.pass = @ + 1]
        ELSE [module |-> at.module + 1, pass |-> 1]

-----------------------------------------------------------------------------
signer == <<"signer">>
signer_ref == <<"&", "signer">>
signer_mut == <<"&mut", "signer">>
Primitives == {signer, <<"u64">>}
AllowedStructs == {<<"String">>, <<"Object">>, <<"Option">>}

\* check_transaction_input_type: a vector of what is allowed is allowed.
is_allowed_type(ty) ==
  \E k \in 0 .. Len(ty) - 1 :
    /\ \A i \in 1 .. k : ty[i] = "vector"
    /\ SubSeq(ty, k + 1, Len(ty)) \in Primitives \cup AllowedStructs \cup {signer_ref}

bad_params(f) ==
  LET params == model.funs[f].params IN {i \in DOMAIN params : ~is_allowed_type(params[i])}

\* check_signer_args warns of a signer behind an argument that is none.
late_signers(f) ==
  LET params == model.funs[f].params
      is_signer(ty) == ty \in {signer, signer_ref, signer_mut}
  IN  {i \in DOMAIN params : is_signer(params[i]) /\ \E j \in 1 .. i - 1 : ~is_signer(params[j])}

checked_entries ==
  {f \in funs(module) : is_entry(f) /\ "legacy_entry_fun" \notin model.funs[f].attributes}

entry_function_errors ==
  {<<"entry", f>> : f \in {g \in checked_entries : bad_params(g) # {} \/ model.funs[g].returns > 0}}
  \cup {<<"warning", f>> : f \in {g \in checked_entries : late_signers(g) # {}}}

view_functions == {f \in funs(module) : "view" \in model.funs[f].attributes}

view_function_errors ==
  {<<"view", f>> : f \in {g \in view_functions :
     \/ bad_params(g) # {}
     \/ model.funs[g].returns = 0
     \/ \E i \in DOMAIN model.funs[g].params : model.funs[g].params[i] \in {signer, signer_ref}}}

init_module_errors ==
  {<<"init", f>> : f \in {g \in funs(module) :
     /\ model.funs[g].init_module
     /\ \/ model.funs[g].visibility # "private"
        \/ model.funs[g].params \notin {<<signer>>, <<signer_ref>>, <<signer_mut>>}
        \/ model.funs[g].returns > 0
        \/ model.funs[g].type_params > 0}}

\* A container has neither fields nor abilities nor type parameters.
bad_container(s) ==
  LET d == model.structs[s] IN d.fields > 0 \/ d.abilities # {} \/ d.type_params > 0

\* get_resource_group: the scope of a container; a parameter of the wrong name is
\* an error and is read all the same.
get_resource_group(s) ==
  LET scope == model.structs[s].group_scope
  IN  IF scope \in {"absent", "malformed"} \/ bad_container(s) THEN "none"
      ELSE IF scope = "misnamed" THEN "global" ELSE scope

group_error(s) ==
  LET scope == model.structs[s].group_scope
  IN  scope # "absent" /\ (bad_container(s) \/ scope \in {"malformed", "misnamed"})

\* ResourceGroupScope::are_equal_envs
are_equal_envs(scope, s, container) ==
  \/ scope = "global"
  \/ /\ scope = "address"
     /\ model.address[model.structs[s].module] = model.address[model.structs[container].module]
  \/ scope = "module" /\ model.structs[s].module = model.structs[container].module

\* What check_and_record_resource_group_members asks of a member before it is recorded
member_recorded(s) ==
  LET container == model.structs[s].member_of
  IN  /\ "key" \in model.structs[s].abilities
      /\ container \in DOMAIN model.structs
      /\ get_resource_group(container) # "none"
      /\ are_equal_envs(get_resource_group(container), s, container)

members == {s \in structs(module) : model.structs[s].member_of # "absent"}

\* Fault: an attribute that is not understood is no attribute.
max_gas_or_none(f) ==
  IF model.funs[f].randomness = "malformed" THEN "absent" ELSE model.funs[f].randomness

\* get_randomness_max_gas_declaration: absent, malformed, default or max_gas
get_randomness_max_gas_declaration(f) == model.funs[f].randomness

unbiasable ==
  {f \in funs(module) : get_randomness_max_gas_declaration(f) \in {"default", "max_gas"}}

unbiasable_errors ==
  {<<"unbiasable", f>> : f \in
     {g \in funs(module) : get_randomness_max_gas_declaration(g) = "malformed"}
     \cup {g \in unbiasable : ~is_entry(g) \/ is_public(g)}}

\* Each emit<T> is one of a struct of this module with the event attribute.
check_emit_event_call(f, s) == model.structs[s].event /\ model.structs[s].module = module

event_errors ==
  {<<"event", f>> : f \in {g \in funs(module) :
     \E s \in model.funs[g].emits : ~check_emit_event_call(g, s)}}

\* build_error_map: one constant for each abort code, the first; none for 0x1::error.
error_map == IF module \in model.error_category THEN {} ELSE {module} \X model.abort_codes[module]

\* What a pass reports and what it adds to the metadata
reported ==
  CASE pass = "resource_groups" ->
         {<<"group", s>> : s \in {t \in structs(module) : group_error(t)}}
    [] pass = "resource_group_members" ->
         {<<"member", s>> : s \in {t \in members :
            ~member_recorded(t) \/ group_error(model.structs[t].member_of)}}
    [] pass = "view_functions" -> view_function_errors
    [] pass = "entry_functions" -> entry_function_errors
    [] pass = "unbiasable" -> unbiasable_errors
    [] pass = "events" -> event_errors
    [] pass = "init_module" -> init_module_errors
    [] OTHER -> {}

recorded ==
  CASE pass = "resource_groups" ->
         [output EXCEPT !.group = @ \cup {t \in structs(module) :
                                            get_resource_group(t) # "none"}]
    [] pass = "resource_group_members" ->
         [output EXCEPT !.member = @ \cup {t \in members : member_recorded(t)}]
    [] pass = "view_functions" -> [output EXCEPT !.view = @ \cup view_functions]
    [] pass = "unbiasable" -> [output EXCEPT !.randomness = @ \cup unbiasable]
    [] pass = "events" ->
         [output EXCEPT !.event = @ \cup {s \in structs(module) : model.structs[s].event}]
    [] pass = "error_map" -> [output EXCEPT !.error_map = @ \cup error_map]
    [] OTHER -> output

run_pass ==
  /\ running /\ pass # "randomness"
  /\ diagnostics' = diagnostics \cup reported /\ output' = recorded
  /\ next_pass
  /\ todo' = IF Passes[at'.pass] = "randomness" THEN funs(module) ELSE {}
  /\ UNCHANGED <<model, checked, randomness_caller_cache>>

-----------------------------------------------------------------------------
position(f) == CHOOSE i \in DOMAIN FunOrder : FunOrder[i] = f
first_of(S) == CHOOSE f \in S : \A g \in S : position(f) <= position(g)

cache(f, b) ==
  [g \in DOMAIN randomness_caller_cache \cup {f} |->
     IF g = f THEN b ELSE randomness_caller_cache[g]]

\* The two conditions of check_unsafe_randomness_usage under which a function may
\* not call randomness
restricted(f) ==
  \/ ~is_public(f) /\ is_entry(f) /\ model.funs[f].randomness = "absent"
  \/ /\ is_public(f) /\ ~is_framework_function(f)
     /\ "lint::allow_unsafe_randomness" \notin model.funs[f].attributes

frame(f) == [fun |-> f, callees |-> model.funs[f].callees]

\* A function that may call what it likes, or whose calls are known
conclude_function ==
  /\ todo # {} /\ checked = <<>>
  /\ LET f == first_of(todo)
     IN  /\ ~restricted(f) \/ f \in DOMAIN randomness_caller_cache
         /\ todo' = todo \ {f}
         /\ diagnostics' = IF restricted(f) /\ randomness_caller_cache[f]
                        THEN diagnostics \cup {<<"randomness", f>>} ELSE diagnostics
  /\ UNCHANGED <<model, at, checked, randomness_caller_cache, output>>

\* calls_randomness(f), f not in the cache: the value of a cycle is false at first.
enter(f) ==
  /\ checked' = Append(checked, frame(f))
  /\ randomness_caller_cache' = cache(f, FALSE)

check_function ==
  /\ todo # {} /\ checked = <<>>
  /\ LET f == first_of(todo)
     IN  restricted(f) /\ f \notin DOMAIN randomness_caller_cache /\ enter(f)
  /\ UNCHANGED <<model, at, todo, diagnostics, output>>

top == checked[Len(checked)]
popped == SubSeq(checked, 1, Len(checked) - 1)

\* The next callee is not known to call randomness.
next_callee ==
  /\ checked # <<>> /\ top.callees # {}
  /\ LET g == first_of(top.callees)
         rest == [top EXCEPT !.callees = @ \ {g}]
     IN  /\ g # RandomnessFun
         /\ \/ g \notin DOMAIN randomness_caller_cache /\ enter(g)
            \/ /\ g \in DOMAIN randomness_caller_cache /\ ~randomness_caller_cache[g]
               /\ checked' = Append(popped, rest)
               /\ UNCHANGED randomness_caller_cache
  /\ UNCHANGED <<model, at, todo, diagnostics, output>>

\* Fault: the cache is not brought up to date.
not_found(f) == randomness_caller_cache

\* The cache of a function that calls randomness
found(f) == cache(f, TRUE)

\* A callee is a function of the randomness module, or is known to call one.
return_true ==
  /\ checked # <<>> /\ top.callees # {}
  /\ LET g == first_of(top.callees)
     IN  \/ g = RandomnessFun
         \/ g \in DOMAIN randomness_caller_cache /\ randomness_caller_cache[g]
  /\ randomness_caller_cache' = found(top.fun)
  /\ checked' = popped
  /\ UNCHANGED <<model, at, todo, diagnostics, output>>

return_false ==
  /\ checked # <<>> /\ top.callees = {}
  /\ checked' = popped
  /\ UNCHANGED <<model, at, todo, randomness_caller_cache, diagnostics, output>>

end_randomness ==
  /\ running /\ pass = "randomness" /\ todo = {} /\ checked = <<>>
  /\ next_pass
  /\ UNCHANGED <<model, todo, checked, randomness_caller_cache, diagnostics, output>>

ExtendedNext ==
  \/ run_pass \/ conclude_function \/ check_function \/ next_callee
  \/ return_true \/ return_false \/ end_randomness

ExtendedSpec == ExtendedInit /\ [][ExtendedNext]_checkVars

-----------------------------------------------------------------------------
\* The functions that are closed under calls: nothing but randomness is called from them.
closed(S) == \A f \in S : model.funs[f].callees \subseteq S \cup {RandomnessFun}

\* A call of randomness is behind the calls of f: whichever functions are taken
\* together with those behind their calls, if f is one, one calls randomness.
reaches_randomness(f) ==
  \A S \in SUBSET DOMAIN model.funs :
    f \in S /\ closed(S) => \E g \in S : RandomnessFun \in model.funs[g].callees

checked_functions ==
  {f \in DOMAIN model.funs : \E i \in 1 .. at.module - 1 : model.targets[i] = model.funs[f].module}

(* When the checker ends without an error about randomness, no function that*)
(* must not use it reaches it through any number of calls, recursion and    *)
(* calls of other modules included: the cache may be wrong about a function *)
(* on a cycle, but then the function that the walk began at has an error.   *)
(* And an error tells of a call that is there.                              *)
RandomnessChecked ==
  /\ \A f \in DOMAIN model.funs : <<"randomness", f>> \in diagnostics => reaches_randomness(f)
  /\ ~running /\ (\A f \in DOMAIN model.funs : <<"randomness", f>> \notin diagnostics) =>
       \A f \in checked_functions : ~(restricted(f) /\ reaches_randomness(f))

(* A build without errors leaves the VM what it goes by: entry functions    *)
(* that use randomness are marked, the groups of members are groups, and    *)
(* what is emitted is an event of the module that emits it.                 *)
AcceptedIsMarked ==
  ~running /\ ~has_errors =>
    /\ \A f \in checked_functions :
         /\ is_entry(f) /\ ~is_public(f) /\ reaches_randomness(f)
              => f \in output.randomness
         /\ \A s \in model.funs[f].emits :
              s \in output.event /\ model.structs[s].module = model.funs[f].module
    /\ \A s \in output.member :
         LET container == model.structs[s].member_of
         IN  (\E i \in DOMAIN model.targets : model.targets[i] = model.structs[container].module)
               => container \in output.group
=============================================================================
