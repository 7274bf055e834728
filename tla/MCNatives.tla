------------------------------- MODULE MCNatives -------------------------------
(***************************************************************************)
(* The natives for TLC.  Their extensions share a session (NativeSession)   *)
(* and no other state, so that a property of one depends on no other: each  *)
(* behaviour calls the natives of one extension, chosen at the start, and   *)
(* the state space is the sum of theirs rather than their product.          *)
(***************************************************************************)
EXTENDS TableNatives, AggregatorV1, AggregatorV2, TransactionContext, EventNatives,
        CryptoAlgebra, RistrettoPoints, SignatureNatives

CONSTANT MaxAlgebraSessions   \* bound: each starts from an empty AlgebraContext

VARIABLE extension

\* The state of each extension, with what Move keeps for it
tables == <<store, lengths, given, tableSession>>
aggregatorsV1 == <<counters, resources, held, contextV1, calls, minted, ids>>
aggregatorsV2 == <<v2Storage, v2Session>>
transactions == <<script_hash, user_transaction_context, auid_counter, objectContext,
                  randomnessContext, auids, blobs, requested, drawn, answers>>
eventStreams == <<ledger, handles, held_handles, guids, held_guids, events>>
algebra == <<features, algebraContext>>

MCInit ==
  /\ TableInit /\ V1Init /\ V2Init /\ ContextInit /\ EventInit /\ AlgebraInit /\ RistrettoInit
  /\ SignatureInit
  /\ extension \in {"table", "aggregator_v1", "aggregator_v2", "context", "event", "algebra",
                    "ristretto", "signature"}
  \* What the other extensions start from is of no consequence.
  /\ extension # "algebra" => features = CHOOSE f \in Features : TRUE

MCNext ==
  /\ UNCHANGED extension
  /\ \/ extension = "table" /\ TableNext
     \/ extension # "table" /\ UNCHANGED tables
  /\ \/ extension = "aggregator_v1" /\ V1Next
     \/ extension # "aggregator_v1" /\ UNCHANGED aggregatorsV1
  /\ \/ extension = "aggregator_v2" /\ V2Next
     \/ extension # "aggregator_v2" /\ UNCHANGED aggregatorsV2
  /\ \/ extension = "context" /\ ContextNext
     \/ extension # "context" /\ UNCHANGED transactions
  /\ \/ extension = "event" /\ EventNext
     \/ extension # "event" /\ UNCHANGED eventStreams
  /\ \/ extension = "algebra" /\ AlgebraNext /\ Cardinality(used') <= MaxAlgebraSessions
     \/ extension # "algebra" /\ UNCHANGED algebra
  /\ \/ extension = "ristretto" /\ RistrettoNext
     \/ extension # "ristretto" /\ UNCHANGED ristrettoContext
  /\ \/ extension = "signature" /\ SignatureNext /\ UNCHANGED sessionVars
     \/ extension # "signature" /\ UNCHANGED signatureVars

MCvars ==
  <<extension, sessionVars, tables, aggregatorsV1, aggregatorsV2, transactions, eventStreams,
    algebra, ristrettoContext, signatureVars>>

MCSpec == MCInit /\ [][MCNext]_MCvars

\* Units of size_of: an element of Fq12 is larger than the others.
MCsize_of == [kind \in Fields \cup Groups |-> IF kind = "Fq12" THEN 3 ELSE 2]
MCFeatures == {{"BLS12381"}, {"BN254"}}

Symmetry == Permutations(TxnHash)
=============================================================================
