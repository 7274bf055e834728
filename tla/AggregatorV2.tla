----------------------------- MODULE AggregatorV2 -----------------------------
(***************************************************************************)
(* The natives of aggregator_v2.rs: aggregators that tell whether an        *)
(* addition succeeded, snapshots of them, and strings derived from          *)
(* snapshots.  Where the optimization is enabled a field holds an id that   *)
(* stands for a delta over what storage will have when the session commits; *)
(* otherwise the natives work on the values in the Move structs.            *)
(* DelayedFieldData, behind the first way, is external.                     *)
(***************************************************************************)
EXTENDS NativeSession, MoveTable, FiniteSetsExt

CONSTANTS
  Aggregator, Snapshot,    \* the structs that sessions may create
  MaxValues,               \* the maxima of aggregators, that of their type included
  Inputs,                  \* the amounts that natives are called with
  Lengths,                 \* the lengths of the strings around a snapshot
  DERIVED_STRING_INPUT_MAX_LENGTH,
  MaxV2Calls               \* bound: the calls on an aggregator in a session

ASSUME AggregatorV2Constants ==
  /\ MaxValues \subseteq Nat /\ Inputs \subseteq Nat /\ Lengths \subseteq Nat
  /\ DERIVED_STRING_INPUT_MAX_LENGTH \in Nat /\ MaxV2Calls \in Nat
  /\ "value" \notin Aggregator

VARIABLES
  delayed,      \* delayed_field_optimization_enabled, of the session
  max_values,   \* Aggregator.max_value, by aggregator
  base,         \* the values of the aggregators in storage
  taken,        \* the values of the snapshots in storage
  strings,      \* the derived strings in storage: [of, len, value]
  predicted,    \* the values of storage that the session decides by
  fields,       \* Aggregator.value, as the session has it
  snapshots,    \* AggregatorSnapshot.value, as the session has it
  deltas,       \* DeltaHistory of the aggregators in storage
  derived,      \* the strings of the session: [of, len, field]
  plain_ones    \* history: plain counters beside an aggregator, by where they started

v2Session == <<max_values, fields, snapshots, deltas, derived, plain_ones>>
v2Storage == <<delayed, base, taken, strings, predicted>>
v2Vars == <<sessionVars, v2Storage, v2Session>>

\* A field: a value, or a delta over an aggregator in storage.
plain(value) == [of |-> "value", by |-> value]
delta_of(a, by) == [of |-> a, by |-> by]

\* What a field stands for when the aggregators in storage are at values.
resolved(field, values) ==
  IF field.of = "value" THEN field.by ELSE values[field.of] + field.by

\* DeltaHistory: the largest and smallest deltas that were reached, the smallest
\* and largest that were refused, and the value if it was read.
NoHistory == [max_achieved |-> 0, min_achieved |-> 0,
              min_overflow |-> {}, max_underflow |-> {}, read |-> {}]

allows(h, max, value) ==
  /\ value + h.max_achieved <= max /\ value + h.min_achieved >= 0
  /\ \A refused \in h.min_overflow : value + refused > max
  /\ \A refused \in h.max_underflow : value + refused < 0
  /\ \A seen \in h.read : value = seen

\* Fault: a delta that is refused leaves no trace.
record_successes(h, by, max, value) ==
  IF value + by \notin 0 .. max THEN h
  ELSE [h EXCEPT !.max_achieved = Max({@, by}), !.min_achieved = Min({@, by})]

record(h, by, max, value) ==
  IF value + by > max THEN [h EXCEPT !.min_overflow = {Min(@ \cup {by})}]
  ELSE IF value + by < 0 THEN [h EXCEPT !.max_underflow = {Max(@ \cup {by})}]
  ELSE [h EXCEPT !.max_achieved = Max({@, by}), !.min_achieved = Min({@, by})]

\* Reading what a field stands for ties the session to the value in storage.
read_field(field) ==
  deltas' = IF field.of = "value" THEN deltas
            ELSE [deltas EXCEPT ![field.of].read = {predicted[field.of]}]

\* Beside an aggregator, a plain counter starts from every value that storage may
\* have at the commit and goes through the calls: its value, whether it would have
\* given all the answers that the calls gave, and what it was at the snapshots.
beside(max) ==
  [calls |-> 0,
   from |-> [start \in 0 .. max |-> [value |-> start, agrees |-> TRUE, seen |-> new]]]

answered(a, plain_counters) ==
  plain_ones' = [plain_ones EXCEPT ![a] = [calls |-> @.calls + 1, from |-> plain_counters]]
-----------------------------------------------------------------------------
V2Init ==
  /\ SessionInit
  /\ delayed = FALSE
  /\ max_values = new /\ base = new /\ taken = new /\ strings = {} /\ predicted = new
  /\ fields = new /\ snapshots = new /\ deltas = new /\ derived = {} /\ plain_ones = new

\* A session starts with the values in storage, or with ids that stand for them.
start_v2(hash, enabled) ==
  /\ open_session(hash) /\ delayed' = enabled /\ predicted' = base
  /\ fields' = [a \in DOMAIN base |-> IF enabled THEN delta_of(a, 0) ELSE plain(base[a])]
  /\ snapshots' = [s \in DOMAIN taken |-> plain(taken[s])]
  /\ deltas' = [a \in DOMAIN base |-> NoHistory]
  /\ plain_ones' = [a \in DOMAIN base |-> beside(max_values[a])]
  /\ UNCHANGED <<max_values, base, taken, strings, derived>>

\* create_aggregator_with_max_value, from native_create_aggregator and
\* native_create_unbounded_aggregator, whose maximum is that of the type
create_aggregator_with_max_value(a, max) ==
  /\ status = "running" /\ a \notin DOMAIN fields
  /\ max_values' = add(max_values, a, max)
  /\ fields' = add(fields, a, plain(0))
  /\ plain_ones' = add(plain_ones, a, beside(max))
  /\ UNCHANGED <<sessionVars, v2Storage, snapshots, deltas, derived>>

callable(a) == status = "running" /\ a \in DOMAIN fields /\ plain_ones[a].calls < MaxV2Calls

\* BoundedMath
bounded(a, value) == value \in 0 .. max_values[a]

plain_add(a, counter, input, apply, success) ==
  [counter EXCEPT !.value = IF apply /\ bounded(a, @ + input) THEN @ + input ELSE @,
                  !.agrees = @ /\ (success <=> bounded(a, counter.value + input))]

\* try_add_or_check_delta of DelayedFieldData, which decides by the value that
\* storage is predicted to have and remembers what it decided; BoundedMath on
\* the value of the struct does the same without a history.
try_add_or_check_delta(a, input, apply) ==
  LET field == fields[a]
      success == bounded(a, resolved(field, predicted) + input)
  IN /\ callable(a)
     /\ fields' = [fields EXCEPT ![a].by = IF success /\ apply THEN @ + input ELSE @]
     /\ deltas' = IF field.of = "value" THEN deltas
                  ELSE [deltas EXCEPT ![a] =
                          record(@, field.by + input, max_values[a], predicted[a])]
     /\ answered(a, [start \in DOMAIN plain_ones[a].from |->
                       plain_add(a, plain_ones[a].from[start], input, apply, success)])
     /\ UNCHANGED <<sessionVars, v2Storage, max_values, snapshots, derived>>

native_try_add(a, input) == try_add_or_check_delta(a, input, TRUE)
native_try_sub(a, input) == try_add_or_check_delta(a, -input, TRUE)
native_is_at_least_impl(a, input) == try_add_or_check_delta(a, -input, FALSE)

native_read_aggregator(a) ==
  LET value == resolved(fields[a], predicted)
      plain_counters == plain_ones[a].from IN
  /\ callable(a)
  /\ read_field(fields[a])
  /\ answered(a, [start \in DOMAIN plain_counters |->
                    [plain_counters[start] EXCEPT !.agrees = @ /\ value = plain_counters[start].value]])
  /\ IF value > max_values[a] THEN fail ELSE UNCHANGED sessionVars
  /\ UNCHANGED <<v2Storage, max_values, fields, snapshots, derived>>

\* The snapshot takes the value, or the delta, that the aggregator has now.
native_snapshot(a, s) ==
  /\ callable(a) /\ s \notin DOMAIN snapshots
  /\ snapshots' = add(snapshots, s, fields[a])
  /\ answered(a, [start \in DOMAIN plain_ones[a].from |->
                    LET counter == plain_ones[a].from[start]
                    IN [counter EXCEPT !.seen = add(@, s, counter.value)]])
  /\ UNCHANGED <<sessionVars, v2Storage, max_values, fields, deltas, derived>>

native_create_snapshot(s, value) ==
  /\ status = "running" /\ s \notin DOMAIN snapshots
  /\ snapshots' = add(snapshots, s, plain(value))
  /\ UNCHANGED <<sessionVars, v2Storage, max_values, fields, deltas, derived, plain_ones>>

\* native_read_snapshot; native_read_derived_string reads the snapshot behind
native_read_snapshot(s) ==
  /\ status = "running" /\ s \in DOMAIN snapshots
  /\ read_field(snapshots[s])
  /\ UNCHANGED <<sessionVars, v2Storage, max_values, fields, snapshots, derived, plain_ones>>

\* Fault: the string gets the value that the snapshot is predicted to have.
native_derive_string_concat_early(s, len) ==
  /\ status = "running" /\ s \in DOMAIN snapshots
  /\ \/ /\ len <= DERIVED_STRING_INPUT_MAX_LENGTH
        /\ derived' = derived \cup
             {[of |-> s, len |-> len, field |-> plain(resolved(snapshots[s], predicted))]}
        /\ UNCHANGED sessionVars
     \/ /\ len > DERIVED_STRING_INPUT_MAX_LENGTH
        /\ fail /\ UNCHANGED derived
  /\ UNCHANGED <<v2Storage, max_values, fields, snapshots, deltas, plain_ones>>

\* The string around a snapshot, with len characters of prefix and suffix: for
\* an id it is made when the snapshot gets its value.
native_derive_string_concat(s, len) ==
  /\ status = "running" /\ s \in DOMAIN snapshots
  /\ \/ /\ len <= DERIVED_STRING_INPUT_MAX_LENGTH
        /\ derived' = derived \cup {[of |-> s, len |-> len, field |-> snapshots[s]]}
        /\ UNCHANGED sessionVars
     \/ /\ len > DERIVED_STRING_INPUT_MAX_LENGTH
        /\ fail /\ UNCHANGED derived
  /\ UNCHANGED <<v2Storage, max_values, fields, snapshots, deltas, plain_ones>>

\* native_copy_snapshot and native_string_concat; and any native with a type
\* that is neither u64 nor u128, in get_width_by_type and pop_value_by_type
native_not_supported ==
  /\ status = "running" /\ fail
  /\ UNCHANGED <<v2Storage, v2Session>>
-----------------------------------------------------------------------------
end_v2 ==
  /\ close_session
  /\ predicted' = new /\ fields' = new /\ snapshots' = new /\ deltas' = new
  /\ derived' = {} /\ plain_ones' = new
  /\ UNCHANGED delayed

\* The ids are exchanged for the values they stand for, if what the session has
\* decided is still right.
commit_v2 ==
  /\ status = "running"
  /\ \A a \in DOMAIN base : allows(deltas[a], max_values[a], base[a])
  /\ base' = [a \in DOMAIN fields |-> resolved(fields[a], base)]
  /\ taken' = [s \in DOMAIN snapshots |-> resolved(snapshots[s], base)]
  /\ strings' = strings \cup
       {[of |-> d.of, len |-> d.len, value |-> resolved(d.field, base)] : d \in derived}
  /\ UNCHANGED max_values
  /\ end_v2

discard_v2 ==
  /\ status \in {"running", "failed"}
  /\ max_values' = [a \in DOMAIN base |-> max_values[a]]
  /\ UNCHANGED <<base, taken, strings>>
  /\ end_v2

\* Another transaction changes an aggregator in storage.  A session that works
\* on the values has read them, and would be run again.
changed_elsewhere(a, value) ==
  /\ status = "running" => delayed
  /\ a \in DOMAIN base /\ value \in 0 .. max_values[a] \ {base[a]}
  /\ base' = [base EXCEPT ![a] = value]
  /\ UNCHANGED <<sessionVars, delayed, taken, strings, predicted, v2Session>>

V2Call ==
  \/ \E a \in Aggregator :
       \/ \E max \in MaxValues : create_aggregator_with_max_value(a, max)
       \/ \E input \in Inputs :
            \/ native_try_add(a, input)
            \/ native_try_sub(a, input)
            \/ native_is_at_least_impl(a, input)
       \/ native_read_aggregator(a)
       \/ \E s \in Snapshot : native_snapshot(a, s)
  \/ \E s \in Snapshot :
       \/ \E value \in Inputs : native_create_snapshot(s, value)
       \/ native_read_snapshot(s)
       \/ \E len \in Lengths : native_derive_string_concat(s, len)
  \/ native_not_supported

V2Next ==
  \/ \E hash \in TxnHash, enabled \in BOOLEAN : start_v2(hash, enabled)
  \/ V2Call
  \/ commit_v2
  \/ discard_v2
  \/ \E a \in Aggregator, value \in 0 .. Max(MaxValues) : changed_elsewhere(a, value)

V2Spec == V2Init /\ [][V2Next]_v2Vars
-----------------------------------------------------------------------------
\* The calls on a and its snapshots gave what they would have with a plain counter
\* from start.
Agrees(a, start) ==
  LET values == [predicted EXCEPT ![a] = start]
      counter == plain_ones[a].from[start]
  IN /\ counter.agrees /\ resolved(fields[a], values) = counter.value
     /\ \A s \in DOMAIN counter.seen : resolved(snapshots[s], values) = counter.seen[s]

\* A derived string has the value of its snapshot, although one and the other
\* get their values on different ways and in different sessions.
StringsMatchSnapshots ==
  \A d \in strings : d.of \in DOMAIN taken /\ d.value = taken[d.of]

\* Whatever value storage has at the commit: if the history of the deltas allows
\* it, a plain counter that starts there gives the same answers to every
\* addition, subtraction, comparison and read of the session, and every snapshot
\* its value at the moment it was taken; strings have the values of their
\* snapshots.
DelayedLikePlain ==
  /\ StringsMatchSnapshots
  /\ status # "idle" =>
       \A a \in DOMAIN fields :
         IF fields[a].of = "value"
         THEN Agrees(a, IF a \in DOMAIN base THEN predicted[a] ELSE 0)
         ELSE \A start \in 0 .. max_values[a] :
                allows(deltas[a], max_values[a], start) => Agrees(a, start)
=============================================================================
