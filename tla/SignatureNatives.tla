---------------------------- MODULE SignatureNatives ----------------------------
(***************************************************************************)
(* The natives of bls12381.move, ed25519.move and multi_ed25519.move.  They *)
(* keep nothing of their own: they judge bytes, and Move makes a struct of  *)
(* what they accept, whose type then stands for what they have checked.  A  *)
(* native is a sequence of stages, each charged for before it is tried, and *)
(* stops at the first that fails.                                           *)
(*                                                                         *)
(* blst and curve25519_dalek are external.  A curve has a subgroup of prime *)
(* order and a cofactor: a point is its component in each, and the bytes of *)
(* no point are <<>>.  A pairing, and 8 * P, see the first component only.  *)
(***************************************************************************)
EXTENDS Integers, Sequences, FiniteSets, SequencesExt

CONSTANTS
  SubgroupOrder, Cofactor,
  Message,            \* the messages, as the exponents of their hashes
  MAX_NUM_OF_KEYS,    \* sub-keys of a MultiEd25519 key
  MaxList             \* bound: keys, signatures and messages in a list

ASSUME SignatureConstants ==
  /\ SubgroupOrder \in Nat \ {0} /\ Cofactor \in Nat \ {0}
  /\ Message \subseteq 1 .. SubgroupOrder - 1
  /\ MAX_NUM_OF_KEYS \in Nat /\ MaxList \in Nat

VARIABLES
  keys_with_pop,  \* the PublicKeyWithPoPs that Move has
  made,           \* the last struct of another type that a call gave to Move
  charged         \* the stages of the last call: what was done, at which price

signatureVars == <<keys_with_pop, made, charged>>

CurvePoint == (0 .. SubgroupOrder - 1) \X (0 .. Cofactor - 1)
CurveBytes == CurvePoint \cup {<<>>}
NoStruct == [type |-> "none"]

curve_sum(list) ==
  LET sum[i \in 0 .. Len(list)] ==
        IF i = 0 THEN <<0, 0>>
        ELSE <<(sum[i - 1][1] + list[i][1]) % SubgroupOrder, (sum[i - 1][2] + list[i][2]) % Cofactor>>
  IN sum[Len(list)]

\* The signature on a message with the secret key of a public key
sign(pk, message) == <<(pk[1] * message) % SubgroupOrder, 0>>
-----------------------------------------------------------------------------
outcome(work, ok) == [work |-> work, price |-> work, ok |-> ok]
stage(work, ok) == <<outcome(work, ok)>>

accepts(stages) == \A i \in DOMAIN stages : stages[i].ok
bill(stages) ==
  LET last == IF accepts(stages) THEN Len(stages) ELSE SelectInSeq(stages, LAMBDA s : ~s.ok)
  IN [i \in 1 .. last |-> [work |-> stages[i].work, price |-> stages[i].price]]

is_curve_point(bytes) == bytes \in CurvePoint
\* PublicKey::subgroup_check also refuses the identity, that of Signature does not.
pk_subgroup_check(bytes) == is_curve_point(bytes) /\ bytes[2] = 0 /\ bytes[1] # 0
sig_subgroup_check(bytes) == is_curve_point(bytes) /\ bytes[2] = 0

\* core_verify and aggregate_verify refuse the identity as a key; they look for
\* the subgroup of the signature and not for that of the keys.
pairings_match(sig, pks, messages) ==
  /\ pks # <<>> /\ sig_subgroup_check(sig)
  /\ \A i \in DOMAIN pks : is_curve_point(pks[i]) /\ pks[i] # <<0, 0>>
  /\ sig = curve_sum([i \in DOMAIN pks |-> sign(pks[i], messages[i])])

\* ProofOfPossession::verify validates the key and a signature on its bytes.
pop_verify(pop, pk) == pk_subgroup_check(pk) /\ pop = sign(pk, 1)
-----------------------------------------------------------------------------
bls12381_deserialize_pk(bytes) == stage("pubkey_deserialize", is_curve_point(bytes))
bls12381_deserialize_sig(bytes) == stage("sig_deserialize", is_curve_point(bytes))
\* break at the first that fails
bls12381_deserialize_pks(list) ==
  [i \in DOMAIN list |-> outcome("pubkey_deserialize", is_curve_point(list[i]))]
bls12381_deserialize_sigs(list) ==
  [i \in DOMAIN list |-> outcome("sig_deserialize", is_curve_point(list[i]))]

\* The price is that of BLS12381_PER_PUBKEY_DESERIALIZE.
bls12381_pk_subgroub_check(bytes) ==
  <<[work |-> "pubkey_subgroup_check", price |-> "pubkey_deserialize", ok |-> pk_subgroup_check(bytes)]>>
bls12381_sig_subgroub_check(bytes) == stage("sig_subgroup_check", sig_subgroup_check(bytes))

signature_verify(sig, pk, message) == stage("sig_verify", pairings_match(sig, <<pk>>, <<message>>))

bls12381_verify_signature_helper(sig, pk, message, check_pk_subgroup) ==
  stage("base", TRUE) \o bls12381_deserialize_pk(pk)
  \o (IF check_pk_subgroup THEN bls12381_pk_subgroub_check(pk) ELSE <<>>)
  \o bls12381_deserialize_sig(sig) \o signature_verify(sig, pk, message)

native_bls12381_verify_normal_signature(sig, pk, message) ==
  bls12381_verify_signature_helper(sig, pk, message, TRUE)
native_bls12381_verify_multisignature(sig, pk, message) ==
  bls12381_verify_signature_helper(sig, pk, message, FALSE)
native_bls12381_verify_signature_share(sig, pk, message) ==
  bls12381_verify_signature_helper(sig, pk, message, FALSE)

native_bls12381_aggregate_pubkeys(pks) ==
  stage("base", pks # <<>>) \o bls12381_deserialize_pks(pks) \o stage("pubkey_aggregate", TRUE)

\* Fault: the lengths are not compared after the loop broke off.
native_bls12381_aggregate_signatures_so_far(sigs) ==
  stage("base", sigs # <<>> /\ is_curve_point(sigs[1])) \o stage("sig_aggregate", TRUE)

native_bls12381_aggregate_signatures(sigs) ==
  stage("base", sigs # <<>>) \o bls12381_deserialize_sigs(sigs) \o stage("sig_aggregate", TRUE)

native_bls12381_signature_subgroup_check(sig) ==
  stage("base", TRUE) \o bls12381_deserialize_sig(sig) \o bls12381_sig_subgroub_check(sig)
native_bls12381_validate_pubkey(pk) ==
  stage("base", TRUE) \o bls12381_deserialize_pk(pk) \o bls12381_pk_subgroub_check(pk)

native_bls12381_verify_aggregate_signature(sig, pks, messages) ==
  stage("base", Len(pks) = Len(messages))
  \o bls12381_deserialize_pks(pks) \o bls12381_deserialize_sig(sig)
  \o stage("pairing", Len(pks) = Len(messages) /\ pairings_match(sig, pks, messages))

native_bls12381_verify_proof_of_possession(pk, pop) ==
  stage("base", TRUE) \o bls12381_deserialize_pk(pk) \o stage("sig_deserialize", is_curve_point(pop))
  \o stage("pop_verify", pop_verify(pop, pk))
-----------------------------------------------------------------------------
is_small_order(bytes) == bytes[1] = 0

\* A key of the wrong length is refused, or aborts without its feature.
native_public_key_validate(bytes) ==
  stage("base_and_deserialize", is_curve_point(bytes))
  \o stage("small_order_check", is_curve_point(bytes) /\ ~is_small_order(bytes))

\* verify_strict: a signature is the prime-order part of its key and the message.
ed25519_verifies(sig, pk, message) ==
  is_curve_point(pk) /\ ~is_small_order(pk) /\ sig = <<pk[1], message>>

native_ed25519_signature_verify_strict(sig, pk, message) ==
  stage("base", TRUE) \o stage("pubkey_deserialize", is_curve_point(pk))
  \o stage("sig_deserialize", sig # <<>>) \o stage("strict_verify", ed25519_verifies(sig, pk, message))

\* The sub-keys of a key, each of which is charged for before it is looked at
num_valid_subpks(pk) ==
  [i \in DOMAIN pk.subs |->
     outcome("subpk_check", is_curve_point(pk.subs[i]) /\ ~is_small_order(pk.subs[i]))]

check_and_get_threshold(pk) ==
  /\ Len(pk.subs) \in 1 .. MAX_NUM_OF_KEYS
  /\ pk.threshold \in 1 .. Len(pk.subs)

native_public_key_validate_with_gas_fix(pk) ==
  stage("base", Len(pk.subs) <= MAX_NUM_OF_KEYS) \o num_valid_subpks(pk)
native_public_key_validate_v2(pk) ==
  stage("base", check_and_get_threshold(pk)) \o num_valid_subpks(pk)

\* The signatures of a multi-signature by the positions of the bitmap:
\* MultiEd25519PublicKey and MultiEd25519Signature decode the two and verify.
multi_verifies(sigs, pk, message) ==
  /\ DOMAIN sigs \subseteq DOMAIN pk.subs /\ Cardinality(DOMAIN sigs) >= pk.threshold
  /\ \A i \in DOMAIN sigs : ed25519_verifies(sigs[i], pk.subs[i], message)

native_multi_signature_verify_strict(sigs, pk, message) ==
  stage("base", TRUE)
  \o stage("pubkey_deserialize",
           check_and_get_threshold(pk) /\ \A i \in DOMAIN pk.subs : is_curve_point(pk.subs[i]))
  \o stage("sig_deserialize", DOMAIN sigs # {})
  \o stage("strict_verify", multi_verifies(sigs, pk, message))
-----------------------------------------------------------------------------
SignatureInit == keys_with_pop = {} /\ made = NoStruct /\ charged = <<>>

\* A call charges for what it did, and gives Move a struct if it accepts.
answer(stages, struct) ==
  /\ charged' = bill(stages)
  /\ made' = IF accepts(stages) THEN struct ELSE made
  /\ UNCHANGED keys_with_pop

public_key_from_bytes(pk) ==
  answer(native_bls12381_validate_pubkey(pk), [type |-> "PublicKey", bytes |-> pk])

public_key_from_bytes_with_pop(pk, pop) ==
  LET stages == native_bls12381_verify_proof_of_possession(pk, pop)
  IN /\ charged' = bill(stages)
     /\ keys_with_pop' = IF accepts(stages) THEN keys_with_pop \cup {pk} ELSE keys_with_pop
     /\ UNCHANGED made

\* aggregate_pubkeys aborts where the native refuses: no struct either way.
aggregate_pubkeys(pks) ==
  answer(native_bls12381_aggregate_pubkeys(pks),
         [type |-> "AggrPublicKeysWithPoP", bytes |-> curve_sum(pks), of |-> pks])

aggregate_signatures(sigs) ==
  LET read == SelectInSeq(sigs, LAMBDA s : ~is_curve_point(s))
      viable == IF read = 0 THEN sigs ELSE SubSeq(sigs, 1, read - 1)
  IN answer(native_bls12381_aggregate_signatures(sigs),
            [type |-> "AggrOrMultiSignature", bytes |-> curve_sum(viable), of |-> sigs])

\* The natives that only say yes or no
verify_signature(sig, message) ==
  \/ \E pk \in keys_with_pop :
       \/ answer(native_bls12381_verify_signature_share(sig, pk, message), made)
       \/ answer(native_bls12381_verify_normal_signature(sig, pk, message), made)
  \/ made.type = "PublicKey"
     /\ answer(native_bls12381_verify_normal_signature(sig, made.bytes, message), made)
  \/ made.type = "AggrPublicKeysWithPoP"
     /\ \/ answer(native_bls12381_verify_multisignature(sig, made.bytes, message), made)
        \/ \E messages \in SeqOf(Message, MaxList) :
             answer(native_bls12381_verify_aggregate_signature(sig, made.of, messages), made)
  \/ answer(native_bls12381_signature_subgroup_check(sig), made)

ed25519_public_key_validate(pk) ==
  answer(native_public_key_validate(pk), [type |-> "Ed25519", bytes |-> pk])

multi_ed25519_public_key_validate(pk) ==
  \/ answer(native_public_key_validate_with_gas_fix(pk), [type |-> "MultiEd25519", key |-> pk])
  \/ answer(native_public_key_validate_v2(pk), [type |-> "MultiEd25519V2", key |-> pk])

ed25519_verify(message) ==
  \/ \E sig \in ((0 .. SubgroupOrder - 1) \X Message) \cup {<<>>}, pk \in CurveBytes :
       answer(native_ed25519_signature_verify_strict(sig, pk, message), made)
  \/ /\ made.type \in {"MultiEd25519", "MultiEd25519V2"}
     /\ \E bitmap \in SUBSET (1 .. MAX_NUM_OF_KEYS + 1) :
          LET sigs == [i \in bitmap |-> <<IF i \in DOMAIN made.key.subs
                                          THEN made.key.subs[i][1] ELSE 1, message>>]
          IN answer(native_multi_signature_verify_strict(sigs, made.key, message), made)

\* The keys have a component each, and one is no point.
SubKey == {<<1, 0>>, <<0, 1 % Cofactor>>, <<>>}

SignatureNext ==
  \/ \E pk \in CurveBytes : public_key_from_bytes(pk) \/ ed25519_public_key_validate(pk)
  \/ \E pk, pop \in CurveBytes : public_key_from_bytes_with_pop(pk, pop)
  \/ \E pks \in SeqOf(keys_with_pop, MaxList) : aggregate_pubkeys(pks)
  \/ \E sigs \in SeqOf(CurveBytes, MaxList) : aggregate_signatures(sigs)
  \/ \E message \in Message :
       (\E sig \in CurveBytes : verify_signature(sig, message)) \/ ed25519_verify(message)
  \/ \E subs \in SeqOf(SubKey, MAX_NUM_OF_KEYS + 1), threshold \in 0 .. MAX_NUM_OF_KEYS + 1 :
       multi_ed25519_public_key_validate([subs |-> subs, threshold |-> threshold])

SignatureSpec == SignatureInit /\ [][SignatureNext]_signatureVars
-----------------------------------------------------------------------------
\* A single key accepts one signature for a message, which takes its secret key.
KeySigns(pk) ==
  /\ pk_subgroup_check(pk)
  /\ \A sig \in CurveBytes, message \in Message :
       /\ accepts(native_bls12381_verify_normal_signature(sig, pk, message)) <=> sig = sign(pk, message)
       /\ accepts(native_bls12381_verify_signature_share(sig, pk, message)) <=> sig = sign(pk, message)

\* Keys together accept what the signatures of all of them add up to, on one
\* message, unless the keys add up to nothing, and on a message for each.
KeysSign(aggregate) ==
  LET total(messages) == curve_sum([i \in DOMAIN messages |-> sign(aggregate.of[i], messages[i])])
  IN \A sig \in CurveBytes, messages \in [DOMAIN aggregate.of -> Message] :
       /\ accepts(native_bls12381_verify_aggregate_signature(sig, aggregate.of, messages))
          <=> sig = total(messages)
       /\ (\A i \in DOMAIN messages : messages[i] = messages[1]) =>
            (accepts(native_bls12381_verify_multisignature(sig, aggregate.bytes, messages[1]))
             <=> aggregate.bytes # <<0, 0>> /\ sig = total(messages))

\* A key with sub-keys accepts as many of their signatures as its threshold says.
SubKeysSign(key) ==
  \A bitmap \in SUBSET (1 .. MAX_NUM_OF_KEYS), message \in Message :
    LET sigs == [i \in bitmap |-> <<IF i \in DOMAIN key.subs THEN key.subs[i][1] ELSE 1, message>>]
    IN accepts(native_multi_signature_verify_strict(sigs, key, message))
       <=> bitmap \subseteq DOMAIN key.subs /\ Cardinality(bitmap) >= key.threshold

\* The type of a struct says what its bytes were checked for, so that whatever
\* calls it came from, a verification accepts exactly what its signers have signed,
\* each of them and nothing else: keys one by one, aggregated, with a message each
\* and under a threshold; and no signature is left out of an aggregate of them.
AcceptedMeansSigned ==
  /\ \A pk \in keys_with_pop : KeySigns(pk)
  /\ made.type = "PublicKey" => KeySigns(made.bytes)
  /\ made.type = "AggrPublicKeysWithPoP" => KeysSign(made)
  /\ made.type = "AggrOrMultiSignature" =>
       (\A i \in DOMAIN made.of : is_curve_point(made.of[i])) /\ made.bytes = curve_sum(made.of)
  /\ made.type = "Ed25519" => \A message \in Message : \E sig \in (0 .. SubgroupOrder - 1) \X Message :
       accepts(native_ed25519_signature_verify_strict(sig, made.bytes, message))
  /\ made.type = "MultiEd25519V2" => SubKeysSign(made.key)

\* What a native does is charged at the price that its comment gives for it: a
\* validation costs "base_cost + per_pubkey_deserialize_cost +?
\* per_pubkey_subgroup_check_cost".  The code charges a subgroup check as another
\* deserialization.
ChargedAsDocumented == \A i \in DOMAIN charged : charged[i].price = charged[i].work
=============================================================================
