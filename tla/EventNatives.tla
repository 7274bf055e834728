------------------------------ MODULE EventNatives ------------------------------
(***************************************************************************)
(* The natives of events (event.rs) under event.move and guid.move.  A      *)
(* session collects events; they enter the ledger when it commits.  Events  *)
(* of a handle carry a number, which Move keeps in the handle; module       *)
(* events carry only their type.                                            *)
(***************************************************************************)
EXTENDS NativeSession, MoveTable

CONSTANTS
  Creator,       \* the accounts that create handles
  Module,        \* the modules that emit module events
  MaxHandles,    \* bound: the handles of a creator
  MaxEvents      \* bound: the events of a session

ASSUME EventConstants == MaxHandles \in Nat /\ MaxEvents \in Nat

VARIABLES
  ledger,                  \* the events of all transactions that have committed
  handles, held_handles,   \* EventHandle.counter by GUID: saved, and in the session
  guids, held_guids,       \* Account.guid_creation_num by creator: likewise
  events                   \* NativeEventContext.events

eventVars == <<sessionVars, ledger, handles, held_handles, guids, held_guids, events>>

GUID == Creator \X (0 .. MaxHandles - 1)

v1_event(guid, seq_num) == [by |-> "handle", key |-> guid, seq_num |-> seq_num]
v2_event(module) == [by |-> "module", key |-> module, seq_num |-> 0]

\* NativeEventContext::emitted_v1_events: where the events of a handle are
emitted_events(of, guid) == {i \in DOMAIN of : of[i].by = "handle" /\ of[i].key = guid}

EventInit ==
  /\ SessionInit
  /\ ledger = <<>> /\ events = <<>>
  /\ handles = new /\ held_handles = new
  /\ guids = [c \in Creator |-> 0] /\ held_guids = [c \in Creator |-> 0]

start_events(hash) ==
  /\ open_session(hash)
  /\ held_handles' = handles /\ held_guids' = guids /\ events' = <<>>
  /\ UNCHANGED <<ledger, handles, guids>>

\* new_event_handle with guid::create
new_event_handle(creator) ==
  /\ status = "running" /\ held_guids[creator] < MaxHandles
  /\ held_guids' = [held_guids EXCEPT ![creator] = @ + 1]
  /\ held_handles' = [g \in DOMAIN held_handles \cup {<<creator, held_guids[creator]>>} |->
                        IF g = <<creator, held_guids[creator]>> THEN 0 ELSE held_handles[g]]
  /\ UNCHANGED <<sessionVars, ledger, handles, guids, events>>

destroy_handle(guid) ==
  /\ status = "running" /\ guid \in DOMAIN held_handles
  /\ held_handles' = remove(held_handles, guid)
  /\ UNCHANGED <<sessionVars, ledger, handles, guids, held_guids, events>>

\* Fault: the event gets the number that comes after it.
emit_event_counted_first(guid) ==
  /\ status = "running" /\ guid \in DOMAIN held_handles /\ Len(events) < MaxEvents
  /\ \/ /\ events' = Append(events, v1_event(guid, held_handles[guid] + 1))
        /\ held_handles' = [held_handles EXCEPT ![guid] = @ + 1]
        /\ UNCHANGED sessionVars
     \/ fail /\ UNCHANGED <<events, held_handles>>
  /\ UNCHANGED <<ledger, handles, guids, held_guids>>

\* emit_event with native_write_to_event_store, which may be out of gas or fail
\* to serialize before anything is written.
emit_event(guid) ==
  /\ status = "running" /\ guid \in DOMAIN held_handles /\ Len(events) < MaxEvents
  /\ \/ /\ events' = Append(events, v1_event(guid, held_handles[guid]))
        /\ held_handles' = [held_handles EXCEPT ![guid] = @ + 1]
        /\ UNCHANGED sessionVars
     \/ fail /\ UNCHANGED <<events, held_handles>>
  /\ UNCHANGED <<ledger, handles, guids, held_guids>>

\* emit with native_write_module_event_to_store: the caller on the stack has to
\* be the module that declares the type.
emit(caller, module) ==
  /\ status = "running" /\ Len(events) < MaxEvents
  /\ \/ /\ caller = module
        /\ events' = Append(events, v2_event(module))
        /\ UNCHANGED sessionVars
     \/ fail /\ UNCHANGED events
  /\ UNCHANGED <<ledger, handles, held_handles, guids, held_guids>>

\* NativeEventContext::into_events, when the session commits
commit_events ==
  /\ status = "running" /\ close_session
  /\ ledger' = ledger \o events
  /\ handles' = held_handles /\ guids' = held_guids
  /\ UNCHANGED <<held_handles, held_guids, events>>

discard_events ==
  /\ status \in {"running", "failed"} /\ close_session
  /\ UNCHANGED <<ledger, handles, held_handles, guids, held_guids, events>>

EventNext ==
  \/ \E hash \in TxnHash : start_events(hash)
  \/ \E creator \in Creator : new_event_handle(creator)
  \/ \E guid \in DOMAIN held_handles : destroy_handle(guid) \/ emit_event(guid)
  \/ \E caller, module \in Module : emit(caller, module)
  \/ commit_events
  \/ discard_events

EventSpec == EventInit /\ [][EventNext]_eventVars
-----------------------------------------------------------------------------
\* The number of an event is that of the events which its stream had before.
Numbered(of, guid) ==
  \A i \in emitted_events(of, guid) :
    of[i].seq_num = Cardinality({j \in emitted_events(of, guid) : j < i})

\* Storage can use a handle to prove the number of events of its stream
\* (EventHandle): in the ledger, and in a session on top of it, every stream is
\* numbered without a gap or a repetition, and the counter of the handle is the
\* number of its events.  Failed sessions leave no hole, and a handle that is
\* made after another was destroyed does not continue its stream.
StreamsAreNumbered ==
  LET now == IF status = "idle" THEN ledger ELSE ledger \o events
      counters == IF status = "running" THEN held_handles ELSE handles
  IN \A guid \in GUID :
       /\ Numbered(now, guid)
       /\ guid \in DOMAIN counters /\ status # "failed" =>
            counters[guid] = Cardinality(emitted_events(now, guid))
=============================================================================
