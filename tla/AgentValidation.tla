--------------------------- MODULE AgentValidation ---------------------------
(***************************************************************************)
(* aaf::agent_validation: a registry of validation requests.  Anyone may    *)
(* request the validation of some data by a named validator; the validator  *)
(* answers with a score before the request's time to live runs out.         *)
(*                                                                         *)
(* Every action is one committed transaction.  A transaction that aborts    *)
(* changes nothing, so the asserts of a function are the guards of its      *)
(* action.  Hashes, URIs and other payload that no decision depends on are  *)
(* left out of the records.                                                 *)
(***************************************************************************)
EXTENDS MoveTable, Timestamp

CONSTANTS
  Addresses,     \* accounts and objects: validators and responders
  Agents,        \* addresses that callers pass as the agent
  DataHashes,    \* hashes of the data to validate
  Ttls,          \* times to live that callers pass, in seconds
  Scores,        \* scores that validators pass
  MAX_TTL_SECS   \* the literal 2592000 (30 days) of request_validation_internal

ASSUME TtlsAssumption == Ttls \subseteq Nat
ASSUME ScoresAssumption == Scores \subseteq Nat
ASSUME MaxTtlAssumption == MAX_TTL_SECS \in Nat \ {0}

VARIABLES
  pending,       \* ValidationRegistry.pending: request_id -> RequestInfo
  completed      \* ValidationRegistry.completed: request_id -> ValidationRecord

vars == <<microseconds, pending, completed>>

-----------------------------------------------------------------------------
(* A request id is the keccak256 hash of agent || validator || data_hash || *)
(* timestamp.  All parts but data_hash have a fixed width and data_hash is  *)
(* the only one between them, so the hashed string determines all four; the *)
(* hash is taken to be free of collisions.                                  *)
RequestId == [agent : Agents, validator : Addresses,
              data_hash : DataHashes, timestamp : Seconds]

\* Fault: the time is left out of the id.
compute_request_id_untimed(agent, validator, data_hash, timestamp) ==
  [agent |-> agent, validator |-> validator,
   data_hash |-> data_hash, timestamp |-> 0]

compute_request_id(agent, validator, data_hash, timestamp) ==
  [agent |-> agent, validator |-> validator,
   data_hash |-> data_hash, timestamp |-> timestamp]

RequestInfo == [agent : Agents, validator : Addresses,
                data_hash : DataHashes, created_at : Nat, ttl_secs : Nat]

ValidationRecord == [agent : Agents, validator : Addresses,
                     data_hash : DataHashes, response : Nat,
                     responded_at : Nat]

(* init_module: the registry is published empty when the module is deployed *)
Init ==
  /\ InitTime
  /\ pending = new
  /\ completed = new

(* request_validation; the requester's identity is not used                 *)
request_validation(agent, validator, data_hash, ttl_secs) ==
  LET request_id == compute_request_id(agent, validator, data_hash, now_seconds)
  IN  /\ ttl_secs > 0 /\ ttl_secs <= MAX_TTL_SECS
      /\ ~contains(pending, request_id)
      /\ pending' = add(pending, request_id,
                        [agent |-> agent, validator |-> validator,
                         data_hash |-> data_hash, created_at |-> now_seconds,
                         ttl_secs |-> ttl_secs])
      /\ UNCHANGED <<microseconds, completed>>

\* Fault: no check of the deadline.
respond_late(responder, request_id, response) ==
  /\ response <= 100
  /\ contains(pending, request_id)
  /\ pending[request_id].validator = responder
  /\ ~contains(completed, request_id)
  /\ pending' = remove(pending, request_id)
  /\ completed' = add(completed, request_id,
                      [agent |-> request_id.agent, validator |-> responder,
                       data_hash |-> request_id.data_hash, response |-> response,
                       responded_at |-> now_seconds])
  /\ UNCHANGED microseconds

\* Fault: table::upsert in place of table::add.
respond_upsert(responder, request_id, response) ==
  /\ response <= 100
  /\ contains(pending, request_id)
  /\ LET info == pending[request_id]
     IN  /\ info.validator = responder
         /\ now_seconds <= info.created_at + info.ttl_secs
         /\ pending' = remove(pending, request_id)
         /\ completed' = add(completed, request_id,
                             [agent |-> info.agent, validator |-> info.validator,
                              data_hash |-> info.data_hash, response |-> response,
                              responded_at |-> now_seconds])
  /\ UNCHANGED microseconds

\* Fault: an expired request is dropped, where the code aborts.
respond_dropping(responder, request_id, response) ==
  /\ contains(pending, request_id)
  /\ pending[request_id].validator = responder
  /\ pending' = remove(pending, request_id)
  /\ completed' = IF now_seconds > pending[request_id].created_at
                                    + pending[request_id].ttl_secs
                  THEN completed
                  ELSE add(completed, request_id,
                           [agent |-> request_id.agent, validator |-> responder,
                            data_hash |-> request_id.data_hash,
                            response |-> response, responded_at |-> now_seconds])
  /\ UNCHANGED microseconds

(* respond_validation.  The entry is removed before the validator and the   *)
(* deadline are checked; an abort puts it back.  The last guard is the      *)
(* abort of table::add on a request_id that is completed already.           *)
respond_validation(responder, request_id, response) ==
  /\ response <= 100
  /\ contains(pending, request_id)
  /\ LET info == pending[request_id]
     IN  /\ info.validator = responder
         /\ now_seconds <= info.created_at + info.ttl_secs
         /\ ~contains(completed, request_id)
         /\ pending' = remove(pending, request_id)
         /\ completed' = add(completed, request_id,
                             [agent |-> info.agent, validator |-> info.validator,
                              data_hash |-> info.data_hash, response |-> response,
                              responded_at |-> now_seconds])
  /\ UNCHANGED microseconds

NextBlock == update_global_time /\ UNCHANGED <<pending, completed>>

Next ==
  \/ \E agent \in Agents, validator \in Addresses, data_hash \in DataHashes, ttl_secs \in Ttls :
       request_validation(agent, validator, data_hash, ttl_secs)
  \/ \E responder \in Addresses, request_id \in DOMAIN pending, response \in Scores :
       respond_validation(responder, request_id, response)
  \/ NextBlock

Spec == Init /\ [][Next]_vars

-----------------------------------------------------------------------------
(* The values of the state: every entry of the two tables is keyed by a     *)
(* request id and has the fields of its struct.                             *)
TypeOK ==
  /\ microseconds \in Timestamps \cup {0}
  /\ IsTable(pending, RequestId, RequestInfo)
  /\ IsTable(completed, RequestId, ValidationRecord)

\* The entry of a pending request says what its id says.
PendingMatches(id) ==
  /\ pending[id].agent = id.agent
  /\ pending[id].validator = id.validator
  /\ pending[id].data_hash = id.data_hash
  /\ pending[id].created_at = id.timestamp
  /\ pending[id].ttl_secs \in 1 .. MAX_TTL_SECS
  /\ id.timestamp <= now_seconds

\* The record of an answered request says what its id says.
CompletedMatches(id) ==
  /\ completed[id].agent = id.agent
  /\ completed[id].validator = id.validator
  /\ completed[id].data_hash = id.data_hash
  /\ completed[id].response <= 100
  /\ id.timestamp <= completed[id].responded_at
  /\ completed[id].responded_at <= id.timestamp + MAX_TTL_SECS
  /\ completed[id].responded_at <= now_seconds

(* Both tables say of a request what its id says: the agent, the validator  *)
(* and the data were named when the id was computed, the request was made   *)
(* at the time hashed into the id, and it was answered no earlier and no    *)
(* later than the longest time to live allows.  The id is all that a caller *)
(* of respond_validation names, so nothing else ties an answer to what was  *)
(* asked.                                                                   *)
RecordsMatchIds ==
  /\ \A id \in DOMAIN pending : PendingMatches(id)
  /\ \A id \in DOMAIN completed : CompletedMatches(id)

(* A request can be pending although it has been answered: request_validation *)
(* looks only into the pending table, so it accepts the same request again  *)
(* once the answer has emptied its entry.  That takes the same id, so the   *)
(* same second: the request was answered in the very second it was made.    *)
ReopenedWithinTheSecond ==
  \A id \in DOMAIN pending \cap DOMAIN completed :
    completed[id].responded_at = id.timestamp

Deadline(id) == pending[id].created_at + pending[id].ttl_secs

(* An entry of the pending table that no respond_validation can take out:   *)
(* its time to live has run out, or its id has been answered before.        *)
Unanswerable(id) ==
  \/ now_seconds > Deadline(id)
  \/ contains(completed, id)

(* A pending request that cannot be answered stays in the pending table,    *)
(* unchanged and unanswerable, for ever: expiry is checked lazily in        *)
(* respond_validation, whose abort restores the entry it removed, and       *)
(* nothing else removes entries.                                            *)
UnanswerableIsPermanent ==
  [][\A id \in DOMAIN pending :
       Unanswerable(id) =>
         /\ contains(pending', id)
         /\ pending'[id] = pending[id]
         /\ Unanswerable(id)'
         /\ contains(completed, id) => completed'[id] = completed[id]
         /\ ~contains(completed, id) => ~contains(completed', id)]_vars

(* What the comments say of request ids: they are globally unique, so an id *)
(* that has been answered does not name a new request.                      *)
RequestIdsGloballyUnique == DOMAIN pending \cap DOMAIN completed = {}

-----------------------------------------------------------------------------
(* The life of a request as its callers see it, see ValidationLifecycle:    *)
(* once there is an answer it is the state of the request, whatever the     *)
(* pending table still holds.                                               *)
requests ==
  [id \in DOMAIN pending \cup DOMAIN completed |->
     IF contains(completed, id)
     THEN [phase |-> "answered", answer |-> completed[id].response,
           at |-> completed[id].responded_at]
     ELSE [phase |-> "open", deadline |-> Deadline(id)]]

Lifecycle == INSTANCE ValidationLifecycle
  WITH Ids <- RequestId, Answers <- Scores, Instants <- Seconds,
       MaxTtl <- MAX_TTL_SECS, now <- now_seconds, requests <- requests

(* Requests go through the abstract life cycle: opened once, answered at    *)
(* most once and by the deadline, the answer never changed or withdrawn.    *)
ImplementsLifecycle == Lifecycle!Spec
=============================================================================
