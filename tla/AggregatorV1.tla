----------------------------- MODULE AggregatorV1 -----------------------------
(***************************************************************************)
(* The natives of Aggregator (aggregator.rs, aggregator_factory.rs) with    *)
(* their context.  An aggregator is a counter in storage that a session     *)
(* adds to and subtracts from without reading it: the session keeps a delta *)
(* and how far the delta has strayed, and the delta is merged with whatever *)
(* storage has when the session commits.  Other transactions go on changing *)
(* storage in the meantime.                                                 *)
(***************************************************************************)
EXTENDS NativeSession, MoveTable, FiniteSetsExt

CONSTANTS
  Limit,             \* the limits that aggregators are created with
  Amount,            \* the amounts that are added and subtracted
  MaxAggregators,    \* bound: the aggregators a session may create
  MaxCalls           \* bound: the additions and subtractions of a session

ASSUME AggregatorV1Constants ==
  Limit \subseteq Nat /\ Amount \subseteq Nat /\ MaxAggregators \in Nat /\ MaxCalls \in Nat

VARIABLES
  counters,               \* what the resolver reads: aggregator -> value
  resources, held,        \* Aggregator structs, id -> limit: saved, and as the session has them
  num_aggregators,        \* AggregatorData: how many it has created
  new_aggregators,        \* AggregatorData: those of them that still exist
  destroyed_aggregators,  \* AggregatorData: those of earlier sessions that it removed
  aggregators,            \* AggregatorData: id -> what is known of it
  calls,                  \* history: id -> the additions and subtractions of the session
  minted, ids             \* history: the number of structs ever made, and their ids

contextV1 == <<num_aggregators, new_aggregators, destroyed_aggregators, aggregators>>
v1Vars == <<sessionVars, counters, resources, held, contextV1, calls, minted, ids>>

AggregatorID == [txn : TxnHash, n : 0 .. MaxAggregators]

\* Aggregator: its value is a value, or a delta with the history of the delta.
data(value) == [state |-> "Data", value |-> value, high |-> 0, low |-> 0]
delta(value, high, low) ==
  [state |-> IF value >= 0 THEN "PositiveDelta" ELSE "NegativeDelta",
   value |-> value, high |-> high, low |-> low]

\* AggregatorData::get_aggregator
get_aggregator(id) ==
  IF id \in DOMAIN aggregators THEN aggregators[id] ELSE delta(0, 0, 0)

\* Fault: the history is not kept.
moved_unrecorded(aggregator, amount) ==
  IF aggregator.state = "Data" THEN data(aggregator.value + amount)
  ELSE delta(aggregator.value + amount, aggregator.high, aggregator.low)

\* Aggregator::add and sub, when they succeed
moved(aggregator, amount) ==
  LET value == aggregator.value + amount IN
  IF aggregator.state = "Data" THEN data(value)
  ELSE delta(value, Max({aggregator.high, value}), Max({aggregator.low, -value}))

\* The bounds that add and sub check without a look at storage.
within(aggregator, limit) ==
  IF aggregator.state = "Data" THEN aggregator.value \in 0 .. limit
  ELSE aggregator.value \in -limit .. limit

\* validate_history: some value of the session was legal only for other bases.
fits(base, aggregator, limit) ==
  base + aggregator.high <= limit /\ aggregator.low <= base

\* The history of calls: their number, their total, and every total on the way
no_calls == [n |-> 0, total |-> 0, totals |-> {0}]
and_call(made, amount) ==
  [n |-> made.n + 1, total |-> made.total + amount,
   totals |-> made.totals \cup {made.total + amount}]

known(id, aggregator) ==
  aggregators' = [i \in DOMAIN aggregators \cup {id} |->
                    IF i = id THEN aggregator ELSE aggregators[i]]
-----------------------------------------------------------------------------
V1Init ==
  /\ SessionInit
  /\ counters = new /\ resources = new /\ held = new
  /\ num_aggregators = 0 /\ new_aggregators = {} /\ destroyed_aggregators = {}
  /\ aggregators = new
  /\ calls = new /\ minted = 0 /\ ids = {}

\* NativeAggregatorContext::new
start_aggregators(hash) ==
  /\ open_session(hash) /\ held' = resources
  /\ UNCHANGED <<counters, resources, contextV1, calls, minted, ids>>

\* Fault: aggregators that have been destroyed again are not counted.
new_id_recounting == [txn |-> txn, n |-> Cardinality(new_aggregators)]

new_id == [txn |-> txn, n |-> num_aggregators]

\* create_new_aggregator of AggregatorData, with limit in the struct
native_new_aggregator(limit) ==
  /\ status = "running" /\ num_aggregators < MaxAggregators
  /\ num_aggregators' = num_aggregators + 1
  /\ new_aggregators' = new_aggregators \cup {new_id}
  /\ known(new_id, data(0))
  /\ held' = IF new_id \in DOMAIN held THEN [held EXCEPT ![new_id] = limit]
             ELSE add(held, new_id, limit)
  /\ calls' = [i \in DOMAIN calls \cup {new_id} |-> IF i = new_id THEN no_calls ELSE calls[i]]
  /\ minted' = minted + 1 /\ ids' = ids \cup {new_id}
  /\ UNCHANGED <<sessionVars, counters, resources, destroyed_aggregators>>

called(id) == IF id \in DOMAIN calls THEN calls[id] ELSE no_calls

number_of_calls == MapThenSumSet(LAMBDA id : calls[id].n, DOMAIN calls)

\* native_add, and native_sub with a negative amount.  Gas is charged first.
move_aggregator(id, amount) ==
  LET aggregator == moved(get_aggregator(id), amount) IN
  /\ status = "running" /\ id \in DOMAIN held /\ number_of_calls < MaxCalls
  /\ IF within(aggregator, held[id])
     THEN /\ known(id, aggregator)
          /\ calls' = [i \in DOMAIN calls \cup {id} |->
                         IF i = id THEN and_call(called(id), amount) ELSE calls[i]]
          /\ UNCHANGED sessionVars
     ELSE known(id, get_aggregator(id)) /\ fail /\ UNCHANGED calls
  /\ UNCHANGED <<counters, resources, held, num_aggregators, new_aggregators,
                 destroyed_aggregators, minted, ids>>

native_add(id, amount) == move_aggregator(id, amount)
native_sub(id, amount) == move_aggregator(id, -amount)

\* native_read, with read_and_materialize: from here on the session has a value
\* of its own.  It fails when storage does not allow for what was done before.
native_read(id) ==
  LET aggregator == get_aggregator(id) IN
  /\ status = "running" /\ id \in DOMAIN held
  /\ \/ aggregator.state = "Data" /\ UNCHANGED <<sessionVars, aggregators>>
     \/ /\ aggregator.state # "Data" /\ fits(counters[id], aggregator, held[id])
        /\ known(id, data(counters[id] + aggregator.value)) /\ UNCHANGED sessionVars
     \/ /\ aggregator.state # "Data" /\ ~ fits(counters[id], aggregator, held[id])
        /\ known(id, aggregator) /\ fail
  /\ UNCHANGED <<counters, resources, held, num_aggregators, new_aggregators,
                 destroyed_aggregators, calls, minted, ids>>

\* Fault: an aggregator of an earlier session is forgotten like a new one.
native_destroy_forgetting(id) ==
  /\ status = "running" /\ id \in DOMAIN held
  /\ held' = remove(held, id)
  /\ aggregators' = [i \in DOMAIN aggregators \ {id} |-> aggregators[i]]
  /\ calls' = [i \in DOMAIN calls \ {id} |-> calls[i]]
  /\ new_aggregators' = new_aggregators \ {id}
  /\ UNCHANGED <<sessionVars, counters, resources, num_aggregators,
                 destroyed_aggregators, minted, ids>>

\* native_destroy, with AggregatorData::remove_aggregator
native_destroy(id) ==
  /\ status = "running" /\ id \in DOMAIN held
  /\ held' = remove(held, id)
  /\ aggregators' = [i \in DOMAIN aggregators \ {id} |-> aggregators[i]]
  /\ calls' = [i \in DOMAIN calls \ {id} |-> calls[i]]
  /\ \/ /\ id \in new_aggregators
        /\ new_aggregators' = new_aggregators \ {id}
        /\ UNCHANGED destroyed_aggregators
     \/ /\ id \notin new_aggregators
        /\ destroyed_aggregators' = destroyed_aggregators \cup {id}
        /\ UNCHANGED new_aggregators
  /\ UNCHANGED <<sessionVars, counters, resources, num_aggregators, minted, ids>>
-----------------------------------------------------------------------------
\* NativeAggregatorContext::into_change_set: AggregatorChangeV1 of every id
aggregator_changes ==
  [id \in DOMAIN aggregators \cup destroyed_aggregators |->
    IF id \in destroyed_aggregators THEN [op |-> "Delete", value |-> 0]
    ELSE [op |-> IF aggregators[id].state = "Data" THEN "Write" ELSE "Merge",
          value |-> aggregators[id].value]]

\* Storage after the changes; merging validates the history of the delta.
apply_changes(changes) ==
  [id \in {i \in DOMAIN counters \cup DOMAIN changes :
             i \in DOMAIN changes => changes[i].op # "Delete"} |->
    IF id \notin DOMAIN changes THEN counters[id]
    ELSE IF changes[id].op = "Merge" THEN counters[id] + changes[id].value
    ELSE changes[id].value]

mergeable ==
  \A id \in DOMAIN aggregators :
    aggregators[id].state # "Data" => fits(counters[id], aggregators[id], held[id])

end_aggregators ==
  /\ close_session
  /\ num_aggregators' = 0 /\ new_aggregators' = {} /\ destroyed_aggregators' = {}
  /\ aggregators' = new /\ held' = new /\ calls' = new
  /\ UNCHANGED <<minted, ids>>

commit_aggregators ==
  /\ status = "running" /\ mergeable
  /\ counters' = apply_changes(aggregator_changes) /\ resources' = held
  /\ end_aggregators

discard_aggregators ==
  /\ status \in {"running", "failed"}
  /\ UNCHANGED <<counters, resources>>
  /\ end_aggregators

\* Another transaction leaves a counter at another value.  A session that has
\* read the counter does not commit after that; it is run again.
counted_elsewhere(id, value) ==
  /\ id \in DOMAIN counters /\ counters[id] # value
  /\ value <= resources[id]
  /\ id \in DOMAIN aggregators => aggregators[id].state # "Data"
  /\ counters' = [counters EXCEPT ![id] = value]
  /\ UNCHANGED <<sessionVars, resources, held, contextV1, calls, minted, ids>>

V1Call ==
  \/ \E limit \in Limit : native_new_aggregator(limit)
  \/ \E id \in DOMAIN held :
       \/ native_read(id)
       \/ native_destroy(id)
       \/ \E amount \in Amount : native_add(id, amount) \/ native_sub(id, amount)

V1Next ==
  \/ \E hash \in TxnHash : start_aggregators(hash)
  \/ V1Call
  \/ commit_aggregators
  \/ discard_aggregators
  \/ \E id \in DOMAIN counters, value \in 0 .. Max(Limit) : counted_elsewhere(id, value)

V1Spec == V1Init /\ [][V1Next]_v1Vars
-----------------------------------------------------------------------------
\* A plain counter that starts at base goes through the calls within its limit.
Plain(base, made, limit) == \A total \in made.totals : base + total \in 0 .. limit

\* A session that never reads a counter commits exactly when a plain counter,
\* started from the value that storage has at the commit, would have gone
\* through its additions and subtractions one by one, and leaves that counter's
\* value.  The extremes in the history of a delta stand for all the values in
\* between, whatever the order of additions and subtractions (into_change_set).
MergesLikePlain ==
  status = "running" =>
    \A id \in DOMAIN aggregators :
      IF aggregators[id].state = "Data" /\ id \notin new_aggregators
      THEN /\ Plain(counters[id], called(id), held[id])
           /\ aggregators[id].value = counters[id] + called(id).total
      ELSE /\ aggregators[id].value = called(id).total
           /\ \A base \in 0 .. held[id] :
                id \notin new_aggregators =>
                  (fits(base, aggregators[id], held[id]) <=> Plain(base, called(id), held[id]))

\* Every aggregator struct has a key of its own, in and across sessions, and
\* storage has a counter for exactly the structs that exist, within its limit:
\* an aggregator made and destroyed in one session leaves nothing behind, and
\* one of an earlier session is deleted.
CountersMatchStructs ==
  /\ minted = Cardinality(ids)
  /\ DOMAIN counters = DOMAIN resources
  /\ \A id \in DOMAIN counters : counters[id] \in 0 .. resources[id]
=============================================================================
