------------------------ MODULE AgentValidationProofs ------------------------
(***************************************************************************)
(* Theorems about AgentValidation, for every value of its constants.        *)
(***************************************************************************)
EXTENDS AgentValidation, MoveTableTheorems

-----------------------------------------------------------------------------
(* The clock.                                                              *)

\* Rounding down to seconds gives natural numbers.
LEMMA SecondsAreNaturals ==
  /\ Timestamps \cup {0} \subseteq Nat
  /\ Seconds \subseteq Nat
  /\ \A t \in Timestamps \cup {0} : t \div MICRO_CONVERSION_FACTOR \in Seconds
<1>1. ASSUME NEW t \in Nat
      PROVE  t \div MICRO_CONVERSION_FACTOR \in Nat
  BY ConversionFactorAssumption
<1> QED
  BY <1>1, TimestampsAssumption DEF Seconds

\* The clock read in seconds is one of the instants in seconds.
LEMMA NowIsASecond == TypeOK => now_seconds \in Seconds
  BY SecondsAreNaturals DEF TypeOK, now_seconds

\* Rounding down to seconds keeps the order of instants.
LEMMA RoundingIsMonotonic ==
  ASSUME NEW s \in Nat, NEW t \in Nat, s <= t
  PROVE  s \div MICRO_CONVERSION_FACTOR <= t \div MICRO_CONVERSION_FACTOR
  BY ConversionFactorAssumption

\* No step takes the clock back.
LEMMA ClockIsMonotonic ==
  ASSUME TypeOK, TypeOK', [Next]_vars
  PROVE  now_seconds <= now_seconds'
<1>1. microseconds \in Nat /\ microseconds' \in Nat
  BY SecondsAreNaturals DEF TypeOK
<1>2. CASE NextBlock
  BY <1>1, <1>2, TimestampsAssumption, RoundingIsMonotonic
  DEF NextBlock, update_global_time, now_seconds
<1>3. CASE UNCHANGED microseconds
  BY <1>1, <1>3, RoundingIsMonotonic DEF now_seconds
<1>4. NextBlock \/ UNCHANGED microseconds
  BY DEF Next, vars, request_validation, respond_validation
<1> QED
  BY <1>2, <1>3, <1>4

-----------------------------------------------------------------------------
(* Type correctness.                                                       *)

\* init_module leaves two empty tables.
LEMMA TypeOKInitially == Init => TypeOK
  BY NewTable DEF Init, InitTime, TypeOK

\* request_validation stores one pending record of the right type.
LEMMA RequestKeepsTypeOK ==
  ASSUME TypeOK, NEW agent \in Agents, NEW validator \in Addresses,
         NEW data_hash \in DataHashes, NEW ttl_secs \in Ttls,
         request_validation(agent, validator, data_hash, ttl_secs)
  PROVE  TypeOK'
<1> DEFINE id   == compute_request_id(agent, validator, data_hash, now_seconds)
           info == [agent |-> agent, validator |-> validator,
                    data_hash |-> data_hash, created_at |-> now_seconds,
                    ttl_secs |-> ttl_secs]
<1>1. id \in RequestId
  BY NowIsASecond DEF compute_request_id, RequestId
<1>2. info \in RequestInfo
  BY NowIsASecond, SecondsAreNaturals, TtlsAssumption DEF RequestInfo
<1>3. pending' = add(pending, id, info) /\ UNCHANGED <<microseconds, completed>>
  BY DEF request_validation
<1>4. IsTable(pending, RequestId, RequestInfo)
  BY DEF TypeOK
<1>5. IsTable(add(pending, id, info), RequestId, RequestInfo)
  BY <1>1, <1>2, <1>4, AddToTable
<1> QED
  BY <1>3, <1>5 DEF TypeOK, IsTable

\* respond_validation stores one response and removes one pending key.
LEMMA RespondKeepsTypeOK ==
  ASSUME TypeOK, NEW responder \in Addresses, NEW id \in DOMAIN pending,
         NEW response \in Scores,
         respond_validation(responder, id, response)
  PROVE  TypeOK'
<1> DEFINE info   == pending[id]
           record == [agent |-> info.agent, validator |-> info.validator,
                      data_hash |-> info.data_hash, response |-> response,
                      responded_at |-> now_seconds]
<1>1. id \in RequestId /\ info \in RequestInfo
  BY DEF TypeOK, IsTable
<1>2. record \in ValidationRecord
  BY <1>1, NowIsASecond, SecondsAreNaturals, ScoresAssumption
  DEF RequestInfo, ValidationRecord
<1>3. /\ pending' = remove(pending, id)
      /\ completed' = add(completed, id, record)
      /\ UNCHANGED microseconds
  BY DEF respond_validation
<1>4. /\ IsTable(pending, RequestId, RequestInfo)
      /\ IsTable(completed, RequestId, ValidationRecord)
  BY DEF TypeOK
<1>5. IsTable(pending', RequestId, RequestInfo)
  BY <1>3, <1>4, RemoveFromTable
<1>6. IsTable(completed', RequestId, ValidationRecord)
  BY <1>1, <1>2, <1>3, <1>4, AddToTable
<1> QED
  BY <1>3, <1>5, <1>6 DEF TypeOK

\* TypeOK is inductive: requests, responses and the clock.
LEMMA StepKeepsTypeOK == TypeOK /\ [Next]_vars => TypeOK'
<1> SUFFICES ASSUME TypeOK, [Next]_vars PROVE TypeOK'
  OBVIOUS
<1>1. ASSUME NEW agent \in Agents, NEW validator \in Addresses,
             NEW data_hash \in DataHashes, NEW ttl_secs \in Ttls,
             request_validation(agent, validator, data_hash, ttl_secs)
      PROVE  TypeOK'
  BY <1>1, RequestKeepsTypeOK
<1>2. ASSUME NEW responder \in Addresses, NEW id \in DOMAIN pending,
             NEW response \in Scores,
             respond_validation(responder, id, response)
      PROVE  TypeOK'
  BY <1>2, RespondKeepsTypeOK
<1>3. CASE NextBlock
  BY <1>3 DEF NextBlock, update_global_time, TypeOK, IsTable
<1>4. CASE UNCHANGED vars
  BY <1>4 DEF vars, TypeOK, IsTable
<1> QED
  BY <1>1, <1>2, <1>3, <1>4 DEF Next

(* Every reachable state of the registry is well typed.                     *)
THEOREM TypeCorrect == Spec => []TypeOK
<1> QED
  BY TypeOKInitially, StepKeepsTypeOK, PTL DEF Spec

-----------------------------------------------------------------------------
(* What the tables say of a request is what its id says.                   *)

\* No record exists when the module is published.
LEMMA RecordsMatchIdsInitially == Init => RecordsMatchIds
  BY NewTable DEF Init, RecordsMatchIds

\* Every step stores a record only under the id computed from it, or
\* copies one from the pending table to the responses under the same id.
LEMMA StepKeepsRecordsMatchIds ==
  TypeOK /\ RecordsMatchIds /\ TypeOK' /\ [Next]_vars => RecordsMatchIds'
<1> SUFFICES ASSUME TypeOK, RecordsMatchIds, TypeOK', [Next]_vars
             PROVE  RecordsMatchIds'
  OBVIOUS
<1>1. /\ \A i \in DOMAIN pending : PendingMatches(i)
      /\ \A i \in DOMAIN completed : CompletedMatches(i)
  BY DEF RecordsMatchIds
<1>2. /\ now_seconds \in Nat /\ now_seconds' \in Nat
      /\ now_seconds <= now_seconds'
  BY SecondsAreNaturals, ClockIsMonotonic DEF TypeOK, now_seconds
<1>3. /\ IsTable(pending, RequestId, RequestInfo)
      /\ IsTable(completed, RequestId, ValidationRecord)
  BY DEF TypeOK
<1>4. /\ \A i \in DOMAIN pending : i.timestamp \in Nat
      /\ \A i \in DOMAIN completed :
           i.timestamp \in Nat /\ completed[i].responded_at \in Nat
  BY <1>3, SecondsAreNaturals DEF IsTable, RequestId, ValidationRecord
<1>5. SUFFICES /\ \A i \in DOMAIN pending' : PendingMatches(i)'
               /\ \A i \in DOMAIN completed' : CompletedMatches(i)'
  BY DEF RecordsMatchIds
<1>6. ASSUME NEW agent \in Agents, NEW validator \in Addresses,
             NEW data_hash \in DataHashes, NEW ttl_secs \in Ttls,
             request_validation(agent, validator, data_hash, ttl_secs)
      PROVE  /\ \A i \in DOMAIN pending' : PendingMatches(i)'
             /\ \A i \in DOMAIN completed' : CompletedMatches(i)'
  <2> DEFINE id   == compute_request_id(agent, validator, data_hash, now_seconds)
             info == [agent |-> agent, validator |-> validator,
                      data_hash |-> data_hash, created_at |-> now_seconds,
                      ttl_secs |-> ttl_secs]
  <2>1. /\ pending' = add(pending, id, info)
        /\ UNCHANGED <<microseconds, completed>>
        /\ ttl_secs > 0 /\ ttl_secs <= MAX_TTL_SECS
    BY <1>6 DEF request_validation
  <2>2. /\ DOMAIN pending' = DOMAIN pending \cup {id}
        /\ pending'[id] = info
        /\ \A i \in DOMAIN pending : i # id => pending'[i] = pending[i]
    BY <2>1 DEF add
  <2>3. now_seconds' = now_seconds
    BY <2>1 DEF now_seconds
  <2>4. \A i : i = id => PendingMatches(i)'
    BY <1>2, <2>1, <2>2, <2>3, TtlsAssumption, MaxTtlAssumption
    DEF compute_request_id, PendingMatches
  <2>5. \A i \in DOMAIN pending : i # id => PendingMatches(i)'
    BY <1>1, <2>2, <2>3 DEF PendingMatches
  <2>6. \A i \in DOMAIN completed' : CompletedMatches(i)'
    BY <1>1, <2>1, <2>3 DEF CompletedMatches
  <2>7. \A i \in DOMAIN pending' : PendingMatches(i)'
    <3> HIDE DEF id, info
    <3> QED
      BY <2>2, <2>4, <2>5
  <2> QED
    BY <2>6, <2>7
<1>7. ASSUME NEW responder \in Addresses, NEW id \in DOMAIN pending,
             NEW response \in Scores,
             respond_validation(responder, id, response)
      PROVE  /\ \A i \in DOMAIN pending' : PendingMatches(i)'
             /\ \A i \in DOMAIN completed' : CompletedMatches(i)'
  <2> DEFINE record == [agent |-> pending[id].agent,
                        validator |-> pending[id].validator,
                        data_hash |-> pending[id].data_hash,
                        response |-> response, responded_at |-> now_seconds]
  <2>1. /\ pending' = remove(pending, id)
        /\ completed' = add(completed, id, record)
        /\ UNCHANGED microseconds
        /\ response <= 100
        /\ now_seconds <= pending[id].created_at + pending[id].ttl_secs
    BY <1>7 DEF respond_validation
  <2>2. /\ DOMAIN pending' = DOMAIN pending \ {id}
        /\ \A i \in DOMAIN pending' : pending'[i] = pending[i]
    BY <2>1 DEF remove
  <2>3. /\ DOMAIN completed' = DOMAIN completed \cup {id}
        /\ completed'[id] = record
        /\ \A i \in DOMAIN completed : i # id => completed'[i] = completed[i]
    BY <2>1 DEF add
  <2>4. now_seconds' = now_seconds
    BY <2>1 DEF now_seconds
  <2>5. \A i \in DOMAIN pending' : PendingMatches(i)'
    BY <1>1, <2>2, <2>4 DEF PendingMatches
  <2>6. now_seconds <= id.timestamp + MAX_TTL_SECS
    BY <1>1, <1>2, <1>4, <2>1, MaxTtlAssumption DEF PendingMatches
  <2>7. CompletedMatches(id)'
    BY <1>1, <2>1, <2>3, <2>4, <2>6, <1>2 DEF PendingMatches, CompletedMatches
  <2>8. \A i \in DOMAIN completed : i # id => CompletedMatches(i)'
    BY <1>1, <2>3, <2>4 DEF CompletedMatches
  <2> QED
    BY <2>3, <2>5, <2>7, <2>8
<1>8. CASE NextBlock \/ UNCHANGED vars
  <2>1. pending' = pending /\ completed' = completed
    BY <1>8 DEF NextBlock, vars
  <2> QED
    BY <1>1, <1>2, <1>4, <2>1 DEF PendingMatches, CompletedMatches
<1> QED
  BY <1>6, <1>7, <1>8 DEF Next

(* The records of every request agree with its id, in every execution.      *)
THEOREM RecordsAlwaysMatchIds == Spec => []RecordsMatchIds
<1>1. Spec => []TypeOK
  BY TypeCorrect
<1> QED
  BY <1>1, RecordsMatchIdsInitially, StepKeepsRecordsMatchIds, PTL DEF Spec

-----------------------------------------------------------------------------
(* Requests that are pending although they have been answered.             *)

\* Only a request in the very second its id was computed from can bring
\* an answered id back.
LEMMA StepKeepsReopenedWithinTheSecond ==
  TypeOK /\ RecordsMatchIds /\ ReopenedWithinTheSecond /\ [Next]_vars
    => ReopenedWithinTheSecond'
<1> SUFFICES ASSUME TypeOK, RecordsMatchIds, ReopenedWithinTheSecond, [Next]_vars,
                    NEW i \in DOMAIN pending' \cap DOMAIN completed'
             PROVE  completed'[i].responded_at = i.timestamp
  BY DEF ReopenedWithinTheSecond
<1>1. ASSUME NEW agent \in Agents, NEW validator \in Addresses,
             NEW data_hash \in DataHashes, NEW ttl_secs \in Ttls,
             request_validation(agent, validator, data_hash, ttl_secs)
      PROVE  completed'[i].responded_at = i.timestamp
  <2> DEFINE id == compute_request_id(agent, validator, data_hash, now_seconds)
  <2>1. DOMAIN pending' = DOMAIN pending \cup {id} /\ completed' = completed
    BY <1>1 DEF request_validation, add
  <2>2. CASE i \in DOMAIN pending
    BY <2>1, <2>2 DEF ReopenedWithinTheSecond
  <2>3. CASE i = id
    <3>1. i.timestamp = now_seconds
      BY <2>3 DEF compute_request_id
    <3>2. /\ i.timestamp <= completed[i].responded_at
          /\ completed[i].responded_at <= now_seconds
      BY <2>1 DEF RecordsMatchIds, CompletedMatches
    <3>3. now_seconds \in Nat /\ completed[i].responded_at \in Nat
      BY <2>1, NowIsASecond, SecondsAreNaturals
      DEF TypeOK, IsTable, ValidationRecord
    <3> QED
      BY <2>1, <3>1, <3>2, <3>3
  <2> QED
    BY <2>1, <2>2, <2>3
<1>2. ASSUME NEW responder \in Addresses, NEW id \in DOMAIN pending,
             NEW response \in Scores,
             respond_validation(responder, id, response)
      PROVE  completed'[i].responded_at = i.timestamp
  <2>1. /\ DOMAIN pending' = DOMAIN pending \ {id}
        /\ DOMAIN completed' = DOMAIN completed \cup {id}
        /\ \A k \in DOMAIN completed : k # id => completed'[k] = completed[k]
    BY <1>2 DEF respond_validation, remove, add
  <2> QED
    BY <2>1 DEF ReopenedWithinTheSecond
<1>3. CASE NextBlock \/ UNCHANGED vars
  BY <1>3 DEF NextBlock, vars, ReopenedWithinTheSecond
<1> QED
  BY <1>1, <1>2, <1>3 DEF Next

(* A request is pending again after its answer only if it was answered in   *)
(* the second in which it was made.                                         *)
THEOREM ReopenedOnlyWithinTheSecond == Spec => []ReopenedWithinTheSecond
<1>1. Init => ReopenedWithinTheSecond
  BY NewTable DEF Init, ReopenedWithinTheSecond
<1> QED
  BY <1>1, TypeCorrect, RecordsAlwaysMatchIds, StepKeepsReopenedWithinTheSecond,
     PTL DEF Spec

-----------------------------------------------------------------------------
(* Requests that can no longer be answered.                                *)

\* Once the clock has passed a pending record's deadline no step answers it.
LEMMA UnanswerableStays ==
  ASSUME TypeOK, TypeOK', [Next]_vars, NEW i \in DOMAIN pending, Unanswerable(i)
  PROVE  /\ i \in DOMAIN pending'
         /\ pending'[i] = pending[i]
         /\ i \in DOMAIN completed <=> i \in DOMAIN completed'
         /\ i \in DOMAIN completed => completed'[i] = completed[i]
<1>1. ASSUME NEW agent \in Agents, NEW validator \in Addresses,
             NEW data_hash \in DataHashes, NEW ttl_secs \in Ttls,
             request_validation(agent, validator, data_hash, ttl_secs)
      PROVE  /\ i \in DOMAIN pending' /\ pending'[i] = pending[i]
             /\ completed' = completed
  BY <1>1 DEF request_validation, add, contains
<1>2. ASSUME NEW responder \in Addresses, NEW id \in DOMAIN pending,
             NEW response \in Scores,
             respond_validation(responder, id, response)
      PROVE  /\ i \in DOMAIN pending' /\ pending'[i] = pending[i]
             /\ i \in DOMAIN completed <=> i \in DOMAIN completed'
             /\ i \in DOMAIN completed => completed'[i] = completed[i]
  <2>1. /\ now_seconds <= pending[id].created_at + pending[id].ttl_secs
        /\ id \notin DOMAIN completed
    BY <1>2 DEF respond_validation, contains
  <2>2. /\ now_seconds \in Nat
        /\ pending[id].created_at \in Nat
        /\ pending[id].ttl_secs \in Nat
    BY NowIsASecond, SecondsAreNaturals DEF TypeOK, IsTable, RequestInfo
  <2>3. i # id
    BY <2>1, <2>2 DEF Unanswerable, Deadline, contains
  <2> QED
    BY <1>2, <2>3 DEF respond_validation, remove, add
<1>3. CASE NextBlock \/ UNCHANGED vars
  BY <1>3 DEF NextBlock, vars
<1> QED
  BY <1>1, <1>2, <1>3 DEF Next

(* A pending request that has run out of time, or whose id is answered      *)
(* already, is never answered and never leaves the table.                   *)
THEOREM UnanswerableForever == Spec => UnanswerableIsPermanent
<1>1. TypeOK /\ TypeOK' /\ [Next]_vars =>
        [\A id \in DOMAIN pending :
           Unanswerable(id) =>
             /\ contains(pending', id)
             /\ pending'[id] = pending[id]
             /\ Unanswerable(id)'
             /\ contains(completed, id) => completed'[id] = completed[id]
             /\ ~contains(completed, id) => ~contains(completed', id)]_vars
  <2> SUFFICES ASSUME TypeOK, TypeOK', [Next]_vars,
                      NEW i \in DOMAIN pending, Unanswerable(i)
               PROVE  /\ i \in DOMAIN pending'
                      /\ pending'[i] = pending[i]
                      /\ Unanswerable(i)'
                      /\ i \in DOMAIN completed => completed'[i] = completed[i]
                      /\ i \notin DOMAIN completed => i \notin DOMAIN completed'
    BY DEF contains
  <2>1. /\ i \in DOMAIN pending'
        /\ pending'[i] = pending[i]
        /\ i \in DOMAIN completed <=> i \in DOMAIN completed'
        /\ i \in DOMAIN completed => completed'[i] = completed[i]
    BY UnanswerableStays
  <2>2. now_seconds <= now_seconds'
    BY ClockIsMonotonic
  <2>3. /\ now_seconds \in Nat /\ now_seconds' \in Nat
        /\ pending[i].created_at \in Nat /\ pending[i].ttl_secs \in Nat
    BY SecondsAreNaturals DEF TypeOK, now_seconds, IsTable, RequestInfo
  <2>4. Unanswerable(i)'
    BY <2>1, <2>2, <2>3 DEF Unanswerable, Deadline, contains
  <2> QED
    BY <2>1, <2>4
<1> QED
  BY <1>1, TypeCorrect, PTL DEF Spec, UnanswerableIsPermanent

-----------------------------------------------------------------------------
(* The registry implements the life cycle of ValidationLifecycle.          *)

\* Two empty tables are a registry that knows no request.
LEMMA InitRefines == Init => Lifecycle!Init
<1>1. ASSUME InitTime PROVE now_seconds = 0
  BY <1>1, ConversionFactorAssumption DEF InitTime, now_seconds
<1>2. ASSUME pending = new, completed = new PROVE requests = new
  BY <1>2, NewTable DEF requests, new
<1> QED
  BY <1>1, <1>2 DEF Init, Lifecycle!Init, new, Lifecycle!new

\* A request for a new id opens it; one for an answered id goes unnoticed.
LEMMA RequestRefines ==
  ASSUME TypeOK, NEW agent \in Agents, NEW validator \in Addresses,
         NEW data_hash \in DataHashes, NEW ttl_secs \in Ttls,
         request_validation(agent, validator, data_hash, ttl_secs)
  PROVE  [Lifecycle!Next]_(Lifecycle!vars)
<1> DEFINE id   == compute_request_id(agent, validator, data_hash, now_seconds)
           info == [agent |-> agent, validator |-> validator,
                    data_hash |-> data_hash, created_at |-> now_seconds,
                    ttl_secs |-> ttl_secs]
<1>1. /\ pending' = add(pending, id, info)
      /\ id \notin DOMAIN pending
      /\ completed' = completed /\ microseconds' = microseconds
      /\ ttl_secs > 0 /\ ttl_secs <= MAX_TTL_SECS
  BY DEF request_validation, contains
<1>2. now_seconds' = now_seconds
  BY <1>1 DEF now_seconds
<1>3. id \in RequestId
  BY NowIsASecond DEF compute_request_id, RequestId
<1>4. ttl_secs \in 1 .. MAX_TTL_SECS
  BY <1>1, TtlsAssumption, MaxTtlAssumption
<1>5. CASE id \in DOMAIN completed
  <2>1. requests' = requests
    BY <1>1, <1>5 DEF requests, add, contains, Deadline
  <2> QED
    BY <1>2, <2>1 DEF Lifecycle!vars
<1>6. CASE id \notin DOMAIN completed
  <2>1. id \notin DOMAIN requests
    BY <1>1, <1>6 DEF requests
  <2>2. requests' = Lifecycle!add(requests, id,
                      [phase |-> "open", deadline |-> now_seconds + ttl_secs])
    BY <1>1, <1>6 DEF requests, add, contains, Deadline, Lifecycle!add
  <2> QED
    BY <1>2, <1>3, <1>4, <2>1, <2>2
    DEF Lifecycle!Next, Lifecycle!Open, Lifecycle!contains
<1> QED
  BY <1>5, <1>6

\* An answer is given to an open request, no later than its deadline.
LEMMA RespondRefines ==
  ASSUME TypeOK, NEW responder \in Addresses, NEW id \in DOMAIN pending,
         NEW response \in Scores,
         respond_validation(responder, id, response)
  PROVE  [Lifecycle!Next]_(Lifecycle!vars)
<1> DEFINE record == [agent |-> pending[id].agent,
                      validator |-> pending[id].validator,
                      data_hash |-> pending[id].data_hash,
                      response |-> response, responded_at |-> now_seconds]
<1>1. /\ pending' = remove(pending, id)
      /\ completed' = add(completed, id, record)
      /\ microseconds' = microseconds
      /\ id \notin DOMAIN completed
      /\ now_seconds <= pending[id].created_at + pending[id].ttl_secs
  BY DEF respond_validation, contains
<1>2. now_seconds' = now_seconds
  BY <1>1 DEF now_seconds
<1>3. id \in RequestId
  BY DEF TypeOK, IsTable
<1>4. /\ id \in DOMAIN requests
      /\ requests[id] = [phase |-> "open",
                         deadline |-> pending[id].created_at + pending[id].ttl_secs]
  BY <1>1 DEF requests, contains, Deadline
<1>5. requests' = Lifecycle!write(requests, id,
                    [phase |-> "answered", answer |-> response, at |-> now_seconds])
  BY <1>1 DEF requests, add, remove, contains, Deadline, Lifecycle!write
<1> QED
  BY <1>1, <1>2, <1>3, <1>4, <1>5
  DEF Lifecycle!Next, Lifecycle!Answer, Lifecycle!contains

\* A block moves the abstract clock, or stays within the second.
LEMMA NextBlockRefines ==
  ASSUME TypeOK, TypeOK', NextBlock
  PROVE  [Lifecycle!Next]_(Lifecycle!vars)
<1>1. pending' = pending /\ completed' = completed /\ [Next]_vars
  BY DEF NextBlock, Next
<1>2. requests' = requests
  BY <1>1 DEF requests, contains, Deadline
<1>3. now_seconds \in Nat /\ now_seconds' \in Seconds
  BY SecondsAreNaturals DEF TypeOK, now_seconds
<1>4. now_seconds <= now_seconds'
  BY <1>1, ClockIsMonotonic
<1>5. now_seconds = now_seconds' \/ now_seconds < now_seconds'
  BY <1>3, <1>4, SecondsAreNaturals
<1> QED
  BY <1>2, <1>3, <1>5 DEF Lifecycle!Next, Lifecycle!Advance, Lifecycle!vars

(* The two tables and the clock implement the abstract life cycle: a        *)
(* request is opened once and answered at most once, by its deadline, and   *)
(* the answer stands, although the same request may be pending again.       *)
THEOREM RegistryImplementsLifecycle == Spec => ImplementsLifecycle
<1>1. TypeOK /\ TypeOK' /\ [Next]_vars => [Lifecycle!Next]_(Lifecycle!vars)
  <2> SUFFICES ASSUME TypeOK, TypeOK', [Next]_vars
               PROVE  [Lifecycle!Next]_(Lifecycle!vars)
    OBVIOUS
  <2>1. CASE UNCHANGED vars
    <3>1. UNCHANGED <<requests, now_seconds>>
      BY <2>1 DEF vars, requests, now_seconds, contains, Deadline
    <3> QED
      BY <3>1 DEF Lifecycle!vars
  <2> QED
    BY <2>1, RequestRefines, RespondRefines, NextBlockRefines DEF Next
<1> QED
  BY <1>1, InitRefines, TypeCorrect, PTL
  DEF Spec, ImplementsLifecycle, Lifecycle!Spec
=============================================================================
