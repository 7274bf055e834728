------------------------- MODULE ValidationLifecycle -------------------------
(***************************************************************************)
(* What the validation layer promises its callers.  A request is opened     *)
(* once, with a deadline at most MaxTtl after the present.  It may be       *)
(* answered once, no later than its deadline, and its answer is final.      *)
(***************************************************************************)
EXTENDS MoveTable

CONSTANTS
  Ids,       \* names of requests
  Answers,   \* what a validator can say
  Instants,  \* the values of the clock
  MaxTtl     \* the longest time a request can be open

VARIABLES
  now,       \* the clock
  requests   \* id -> [phase, deadline] or [phase, answer, at]

vars == <<now, requests>>

Init == now = 0 /\ requests = new

Open(id, ttl) ==
  /\ ~contains(requests, id)
  /\ requests' = add(requests, id, [phase |-> "open", deadline |-> now + ttl])
  /\ UNCHANGED now

Answer(id, answer) ==
  /\ contains(requests, id)
  /\ requests[id].phase = "open"
  /\ now <= requests[id].deadline
  /\ requests' = write(requests, id,
                       [phase |-> "answered", answer |-> answer, at |-> now])
  /\ UNCHANGED now

Advance ==
  /\ \E t \in Instants : now < t /\ now' = t
  /\ UNCHANGED requests

Next ==
  \/ \E id \in Ids, ttl \in 1 .. MaxTtl : Open(id, ttl)
  \/ \E id \in Ids, answer \in Answers : Answer(id, answer)
  \/ Advance

Spec == Init /\ [][Next]_vars
=============================================================================
