------------------------------ MODULE CryptoAlgebra ------------------------------
(***************************************************************************)
(* The natives of crypto_algebra.move (cryptography/algebra).  The elements *)
(* of fields and groups live in AlgebraContext as long as the session; Move *)
(* has handles, each in an Element<S> with the structure S as a type.  An   *)
(* element of Gt is kept as one of Fq12, the field that Gt is a subgroup of,*)
(* and natives cannot tell the two apart.                                   *)
(*                                                                         *)
(* Arkworks is external: Fr and the groups G1, G2 of a curve are the        *)
(* integers modulo R, Fq and Fq12 those modulo Q, and Gt the powers of      *)
(* GtGenerator modulo Q, a subgroup of order R.  A byte has two values.     *)
(***************************************************************************)
EXTENDS NativeSession, FiniteSetsExt, SequencesExt

CONSTANTS
  Features,        \* the sets of curves that may be enabled
  R, Q, GtGenerator,
  Integer,         \* the integers that from_u64 is called with
  size_of,         \* the bytes of an element, by kind
  MEMORY_LIMIT_IN_BYTES

ASSUME AlgebraConstants ==
  /\ R \in Nat /\ Q \in Nat /\ 1 < R /\ R < Q
  /\ GtGenerator \in 2 .. Q - 1
  /\ MEMORY_LIMIT_IN_BYTES \in Nat /\ Integer \subseteq Nat

VARIABLES
  features,             \* BLS12_381_STRUCTURES and BN254_STRUCTURES
  bytes_used, objs,     \* AlgebraContext
  elements              \* the handles that Move has, with their structures

algebraContext == <<bytes_used, objs, elements>>
algebraVars == <<sessionVars, features, algebraContext>>

Fields == {"Fr", "Fq", "Fq12"}
Groups == {"G1", "G2", "Gt"}

\* Structure; only BN254 has its base field.
Structure ==
  {s \in [curve : {"BLS12381", "BN254"}, kind : Fields \cup Groups] :
     s.kind = "Fq" => s.curve = "BN254"}

of_curve(s, kind) == [curve |-> s.curve, kind |-> kind]

\* The Rust type of an element.
typ(s) == of_curve(s, IF s.kind = "Gt" THEN "Fq12" ELSE s.kind)

\* order_internal
order(s) == IF s.kind \in {"Fq", "Fq12"} THEN Q ELSE R

\* pow and inverse of a field, modulo its order
pow(a, n, modulus) ==
  LET p[k \in 0 .. n] == IF k = 0 THEN 1 ELSE (p[k - 1] * a) % modulus IN p[n]
inverse(a, modulus) == {b \in 1 .. modulus - 1 : (a * b) % modulus = 1}

\* Q divides into cosets of Gt: the test of downcast and of deserialization.
in_subgroup(a) == pow(a, R, Q) = 1

ASSUME GeneratorOfGt == in_subgroup(GtGenerator)

\* The elements of a structure, as they are represented.
Elements(s) == IF s.kind = "Gt" THEN {a \in 0 .. Q - 1 : in_subgroup(a)} ELSE 0 .. order(s) - 1

\* safe_borrow_element, of a handle that Move has
value(x) == objs[x.handle + 1].val
-----------------------------------------------------------------------------
AlgebraInit ==
  /\ SessionInit
  /\ features \in Features
  /\ bytes_used = 0 /\ objs = <<>> /\ elements = {}

start_algebra(hash) ==
  /\ open_session(hash)
  /\ bytes_used' = 0 /\ objs' = <<>> /\ elements' = {}
  /\ UNCHANGED features

end_algebra ==
  /\ status \in {"running", "failed"} /\ close_session
  /\ bytes_used' = 0 /\ objs' = <<>> /\ elements' = {}
  /\ UNCHANGED features

\* store_element!, whose handle becomes an Element<s> in Move
store_element(s, val) ==
  \/ /\ bytes_used + size_of[typ(s).kind] <= MEMORY_LIMIT_IN_BYTES
     /\ bytes_used' = bytes_used + size_of[typ(s).kind]
     /\ objs' = Append(objs, [typ |-> typ(s), val |-> val])
     /\ elements' = elements \cup {[of |-> s, handle |-> Len(objs)]}
     /\ UNCHANGED sessionVars
  \/ /\ bytes_used + size_of[typ(s).kind] > MEMORY_LIMIT_IN_BYTES
     /\ fail /\ UNCHANGED algebraContext

\* A native that is implemented for s and enabled stores its result, if any;
\* without a result it returns false and 0.
native(s, kinds, result) ==
  /\ status = "running" /\ s.curve \in features /\ s.kind \in kinds
  /\ \/ \E val \in result : store_element(s, val)
     \/ result = {} /\ UNCHANGED <<sessionVars, algebraContext>>
  /\ UNCHANGED features

\* MOVE_ABORT_CODE_NOT_IMPLEMENTED, vectors that do not match, or no more gas
abort_native ==
  /\ status = "running" /\ fail
  /\ UNCHANGED <<features, algebraContext>>
-----------------------------------------------------------------------------
\* The group operation is a multiplication where the group is Gt.
plus(s, a, b) == (IF s.kind = "Gt" THEN a * b ELSE a + b) % order(typ(s))
minus(s, a) == IF s.kind = "Gt" THEN inverse(a, Q) ELSE {(order(s) - a) % order(s)}
times(s, a, n) == IF s.kind = "Gt" THEN pow(a, n, Q) ELSE (a * n) % order(s)

zero_internal(s) == native(s, Fields \cup Groups, {IF s.kind = "Gt" THEN 1 ELSE 0})
one_internal(s) == native(s, Fields \cup Groups, {IF s.kind = "Gt" THEN GtGenerator ELSE 1})
from_u64_internal(s, n) == native(s, Fields, {n % order(s)})

add_internal(x, y) ==
  x.of = y.of /\ native(x.of, Fields \cup Groups, {plus(x.of, value(x), value(y))})
sub_internal(x, y) ==
  /\ x.of = y.of
  /\ native(x.of, Fields \cup Groups, {plus(x.of, value(x), b) : b \in minus(x.of, value(y))})
neg_internal(x) == native(x.of, Fields \cup Groups, minus(x.of, value(x)))
double_internal(x) == native(x.of, Groups, {plus(x.of, value(x), value(x))})

mul_internal(x, y) ==
  x.of = y.of /\ native(x.of, Fields, {(value(x) * value(y)) % order(x.of)})
sqr_internal(x) == native(x.of, Fields, {(value(x) * value(x)) % order(x.of)})
inv_internal(x) == native(x.of, Fields, inverse(value(x), order(x.of)))
div_internal(x, y) ==
  /\ x.of = y.of
  /\ native(x.of, Fields, {(value(x) * b) % order(x.of) : b \in inverse(value(y), order(x.of))})

scalar_mul_internal(x, scalar) ==
  /\ scalar.of = of_curve(x.of, "Fr")
  /\ native(x.of, Groups, {times(x.of, value(x), value(scalar))})

\* The vectors have one or two elements.
multi_scalar_mul_internal(x, m, y, n) ==
  /\ x.of = y.of /\ m.of = of_curve(x.of, "Fr") /\ m.of = n.of
  /\ native(x.of, {"G1", "G2"},
            {plus(x.of, times(x.of, value(x), value(m)), times(y.of, value(y), value(n)))})

pair(x, y) == pow(GtGenerator, (value(x) * value(y)) % R, Q)

pairing_internal(x, y) ==
  /\ x.of.kind = "G1" /\ y.of = of_curve(x.of, "G2")
  /\ native(of_curve(x.of, "Gt"), {"Gt"}, {pair(x, y)})

multi_pairing_internal(x1, y1, x2, y2) ==
  /\ x1.of.kind = "G1" /\ y1.of = of_curve(x1.of, "G2") /\ x2.of = x1.of /\ y2.of = y1.of
  /\ native(of_curve(x1.of, "Gt"), {"Gt"}, {(pair(x1, y1) * pair(x2, y2)) % Q})

\* Some element of the group; only BLS12381 has a suite for each of its groups.
hash_to_internal(s) ==
  \E val \in Elements(s) : s.curve = "BLS12381" /\ native(s, {"G1", "G2"}, {val})

\* Fault: every element of the field is taken for one of the subgroup.
downcast_internal_unchecked(x) ==
  /\ status = "running" /\ x.of.curve \in features /\ x.of.kind = "Fq12"
  /\ elements' = elements \cup {[x EXCEPT !.of.kind = "Gt"]}
  /\ UNCHANGED <<sessionVars, features, bytes_used, objs>>

\* The handle stays; it becomes that of an Element<Gt> only when the test holds.
downcast_internal(x) ==
  /\ status = "running" /\ x.of.curve \in features /\ x.of.kind = "Fq12"
  /\ elements' = elements \cup
       (IF in_subgroup(value(x)) THEN {[x EXCEPT !.of.kind = "Gt"]} ELSE {})
  /\ UNCHANGED <<sessionVars, features, bytes_used, objs>>

upcast_internal(x) ==
  /\ status = "running" /\ x.of.curve \in features /\ x.of.kind = "Gt"
  /\ elements' = elements \cup {[x EXCEPT !.of.kind = "Fq12"]}
  /\ UNCHANGED <<sessionVars, features, bytes_used, objs>>
-----------------------------------------------------------------------------
\* SerializationFormat of a structure: fields in one or two byte orders, points
\* compressed or not, and Gt like Fq12.
formats(s) ==
  CASE s.kind \in {"Fr", "Fq"}   -> {"Lsb", "Msb"}
    [] s.kind \in {"G1", "G2"}   -> {"Compr", "Uncompr"}
    [] s.kind \in {"Fq12", "Gt"} -> {"Lsb"}

\* Three bytes for a coordinate, the least significant first; a point has two,
\* of which the compressed form has one.
bytes(n) == <<n % 2, (n \div 2) % 2, n \div 4>>
number(b) == b[1] + 2 * b[2] + 4 * b[3]

serialize(s, format, val) ==
  CASE format = "Msb"     -> Reverse(bytes(val))
    [] format = "Uncompr" -> bytes(val) \o bytes(val)
    [] OTHER              -> bytes(val)

\* The value of a serialization, if it is one of the structure.  The length is
\* looked at first; for Gt the subgroup last.
deserialize(s, format, b) ==
  IF Len(b) # (IF format = "Uncompr" THEN 6 ELSE 3) THEN {}
  ELSE IF format = "Uncompr" /\ SubSeq(b, 1, 3) # SubSeq(b, 4, 6) THEN {}
  ELSE {number(IF format = "Msb" THEN Reverse(b) ELSE SubSeq(b, 1, 3))} \cap Elements(s)

\* Every coordinate, alone or with another that is zero or the same.
Coordinates == [1 .. 3 -> {0, 1}]
Bytes == {<<>>} \cup Coordinates
         \cup {b \o <<0, 0, 0>> : b \in Coordinates} \cup {b \o b : b \in Coordinates}

deserialize_internal(s, format, b) ==
  format \in formats(s) /\ native(s, Fields \cup Groups, deserialize(s, format, b))
-----------------------------------------------------------------------------
AlgebraCall ==
  \/ \E s \in Structure :
       \/ zero_internal(s) \/ one_internal(s) \/ hash_to_internal(s)
       \/ \E n \in Integer : from_u64_internal(s, n)
       \/ \E format \in formats(s), b \in Bytes : deserialize_internal(s, format, b)
  \/ \E x \in elements :
       \/ neg_internal(x) \/ double_internal(x) \/ sqr_internal(x) \/ inv_internal(x)
       \/ downcast_internal(x) \/ upcast_internal(x)
       \/ \E y \in elements :
            \/ add_internal(x, y) \/ sub_internal(x, y)
            \/ mul_internal(x, y) \/ div_internal(x, y)
            \/ scalar_mul_internal(x, y)
            \/ pairing_internal(x, y)
            \/ \E z, w \in elements :
                 multi_scalar_mul_internal(x, y, z, w) \/ multi_pairing_internal(x, y, z, w)
  \/ abort_native

AlgebraNext == (\E hash \in TxnHash : start_algebra(hash)) \/ AlgebraCall \/ end_algebra

AlgebraSpec == AlgebraInit /\ [][AlgebraNext]_algebraVars
-----------------------------------------------------------------------------
\* A handle in an Element<S> stands for an element of S: of its Rust type, so
\* that no borrow fails with an invariant violation, and for Gt a member of the
\* subgroup, which the Rust type does not tell.  It is what the deserialization,
\* the casts and the closure of every operation have to keep up; neg_internal
\* relies on it for an inverse.
ElementsMatchTypes ==
  \A x \in elements :
    /\ x.handle \in 0 .. Len(objs) - 1
    /\ objs[x.handle + 1].typ = typ(x.of)
    /\ value(x) \in Elements(x.of)
=============================================================================
