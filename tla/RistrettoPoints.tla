----------------------------- MODULE RistrettoPoints -----------------------------
(***************************************************************************)
(* The natives of ristretto255.move (cryptography/ristretto255*.rs).  The   *)
(* points are in the PointStore of the session and a RistrettoPoint of Move *)
(* is a handle to one; the operations that end in _assign change the point  *)
(* that the handle stands for.  Scalars and compressed points are bytes,    *)
(* whose canonicity is decided when Move makes a struct of them.            *)
(*                                                                         *)
(* curve25519_dalek is external: points and scalars are the integers modulo *)
(* L, a compressed point is its integer, and the bytes of a scalar are one  *)
(* below 2 * HighBit.                                                       *)
(***************************************************************************)
EXTENDS NativeSession

CONSTANTS L, HighBit, NUM_POINTS_LIMIT

ASSUME RistrettoConstants ==
  /\ L \in Nat /\ HighBit \in Nat /\ 0 < L /\ L < HighBit
  /\ NUM_POINTS_LIMIT \in Nat

VARIABLES
  points,        \* PointStore
  moved_points,  \* the RistrettoPoints of Move: each handle, and the point that
                 \* Move means by it, as if it had the point itself
  scalars,       \* the bytes of the Scalars of Move
  compressed     \* those of its CompressedRistrettos

pointStore == <<points, moved_points>>
ristrettoContext == <<pointStore, scalars, compressed>>
ristrettoVars == <<sessionVars, ristrettoContext>>

Scalar == 0 .. L - 1
ScalarBytes == 0 .. 2 * HighBit - 1
PointBytes == 0 .. L                       \* those of L are of no point

\* scalar_from_valid_bytes, after from_bits has cleared the high bit
scalar_of(bytes) == bytes % HighBit
-----------------------------------------------------------------------------
RistrettoInit ==
  /\ SessionInit
  /\ points = <<>> /\ moved_points = <<>> /\ scalars = {} /\ compressed = {}

start_ristretto(hash) ==
  /\ open_session(hash)
  /\ points' = <<>> /\ moved_points' = <<>> /\ UNCHANGED <<scalars, compressed>>

\* Scalars and compressed points can be stored, if the session has not failed.
end_ristretto ==
  /\ close_session
  /\ points' = <<>> /\ moved_points' = <<>>
  /\ \/ status = "running" /\ UNCHANGED <<scalars, compressed>>
     \/ status \in {"running", "failed"} /\ scalars' = {} /\ compressed' = {}

running == status = "running"

\* safe_add_point, whose handle Move makes a RistrettoPoint of
safe_add_point(point) ==
  /\ running
  /\ \/ /\ Len(points) < NUM_POINTS_LIMIT
        /\ points' = Append(points, point)
        /\ moved_points' = Append(moved_points, [handle |-> Len(points), plain |-> point])
        /\ UNCHANGED sessionVars
     \/ Len(points) >= NUM_POINTS_LIMIT /\ fail /\ UNCHANGED pointStore
  /\ UNCHANGED <<scalars, compressed>>

\* get_point of the i-th point of Move
get_point(i) == points[moved_points[i].handle + 1]

\* get_point_mut of the i-th point of Move, and what is assigned to it
assign(i, point, plain) ==
  /\ running
  /\ points' = [points EXCEPT ![moved_points[i].handle + 1] = point]
  /\ moved_points' = [moved_points EXCEPT ![i].plain = plain]
  /\ UNCHANGED <<sessionVars, scalars, compressed>>

\* get_two_muts panics when the handles are the same.
assign_with(i, j, point, plain) ==
  IF moved_points[i].handle # moved_points[j].handle
  THEN assign(i, point, plain)
  ELSE running /\ fail /\ UNCHANGED ristrettoContext
-----------------------------------------------------------------------------
native_point_identity == safe_add_point(0)
native_basepoint_mul(a) == safe_add_point(scalar_of(a) % L)      \* of the base point 1
native_basepoint_double_mul(a, i, b) ==
  safe_add_point((scalar_of(a) * get_point(i) + scalar_of(b)) % L)

\* native_new_point_from_sha512 and native_new_point_from_64_uniform_bytes
native_new_point(point) == safe_add_point(point)

\* new_point_from_bytes makes no point where there is none;
\* point_decompress does not look, as its bytes are of a CompressedRistretto.
native_point_decompress(bytes) ==
  \/ bytes < L /\ safe_add_point(bytes)
  \/ bytes \notin compressed /\ bytes = L /\ running /\ UNCHANGED <<sessionVars, ristrettoContext>>
  \/ /\ bytes \in compressed /\ bytes = L /\ running
     /\ moved_points' = Append(moved_points, [handle |-> -1, plain |-> L])  \* u64::MAX
     /\ UNCHANGED <<sessionVars, points, scalars, compressed>>

\* Fault: the clone is of the handle and not of the point.
native_point_clone_handle(i) ==
  /\ running
  /\ moved_points' = Append(moved_points, moved_points[i])
  /\ Len(moved_points) < NUM_POINTS_LIMIT
  /\ UNCHANGED <<sessionVars, points, scalars, compressed>>

native_point_clone(i) == safe_add_point(get_point(i))

native_point_mul(i, a, in_place) ==
  LET multiple(point) == (scalar_of(a) * point) % L
  IN IF in_place THEN assign(i, multiple(get_point(i)), multiple(moved_points[i].plain))
     ELSE safe_add_point(multiple(get_point(i)))

native_point_neg(i, in_place) ==
  LET negative(point) == (L - point) % L
  IN IF in_place THEN assign(i, negative(get_point(i)), negative(moved_points[i].plain))
     ELSE safe_add_point(negative(get_point(i)))

native_point_add(i, j, in_place) ==
  LET sum(a, b) == (a + b) % L
  IN IF in_place
     THEN assign_with(i, j, sum(get_point(i), get_point(j)),
                      sum(moved_points[i].plain, moved_points[j].plain))
     ELSE safe_add_point(sum(get_point(i), get_point(j)))

native_point_sub(i, j, in_place) ==
  LET difference(a, b) == (a + L - b) % L
  IN IF in_place
     THEN assign_with(i, j, difference(get_point(i), get_point(j)),
                      difference(moved_points[i].plain, moved_points[j].plain))
     ELSE safe_add_point(difference(get_point(i), get_point(j)))

native_double_scalar_mul(i, j, a, b) ==
  safe_add_point((scalar_of(a) * get_point(i) + scalar_of(b) * get_point(j)) % L)

\* safe_native_multi_scalar_mul_no_floating_point, of all the points of Move
native_multi_scalar_mul(a) ==
  /\ moved_points # <<>>
  /\ \E total \in [0 .. Len(moved_points) -> Scalar] :
       /\ total[0] = 0
       /\ \A i \in DOMAIN moved_points :
            total[i] = (total[i - 1] + scalar_of(a) * get_point(i)) % L
       /\ safe_add_point(total[Len(moved_points)])

\* A RistrettoPoint goes out of scope; its point stays.
drop_point(i) ==
  /\ running
  /\ moved_points' = SubSeq(moved_points, 1, i - 1) \o SubSeq(moved_points, i + 1, Len(moved_points))
  /\ UNCHANGED <<sessionVars, points, scalars, compressed>>
-----------------------------------------------------------------------------
\* Move has one more Scalar, or one more CompressedRistretto.
new_scalar(bytes) ==
  running /\ scalars' = scalars \cup {bytes} /\ UNCHANGED <<sessionVars, pointStore, compressed>>
new_compressed(bytes) ==
  running /\ compressed' = compressed \cup {bytes} /\ UNCHANGED <<sessionVars, pointStore, scalars>>

native_scalar_is_canonical(bytes) == bytes < L
native_point_is_canonical(bytes) == bytes < L

new_scalar_from_bytes(bytes) == native_scalar_is_canonical(bytes) /\ new_scalar(bytes)
new_compressed_point_from_bytes(bytes) == native_point_is_canonical(bytes) /\ new_compressed(bytes)
native_point_compress(i) == new_compressed(get_point(i))

native_scalar_from_sha512(scalar) == new_scalar(scalar)
\* native_scalar_from_u64, _from_u128, _reduced_from_32_bytes and
\* _uniform_from_64_bytes
native_scalar_reduced(n) == new_scalar(n % L)

\* scalar_invert has no inverse for zero.
native_scalar_invert(a) ==
  \E b \in Scalar : (scalar_of(a) * b) % L = 1 /\ new_scalar(b)
native_scalar_mul(a, b) == new_scalar((scalar_of(a) * scalar_of(b)) % L)
native_scalar_add(a, b) == new_scalar((scalar_of(a) + scalar_of(b)) % L)
native_scalar_sub(a, b) == new_scalar((scalar_of(a) + HighBit * L - scalar_of(b)) % L)
native_scalar_neg(a) == new_scalar((HighBit * L - scalar_of(a)) % L)

\* Bytes that are no scalar, too few of them, vectors that do not match, or no gas
abort_ristretto == running /\ fail /\ UNCHANGED ristrettoContext
-----------------------------------------------------------------------------
pointCall ==
  \/ native_point_identity
  \/ \E point \in Scalar : native_new_point(point)
  \/ \E bytes \in PointBytes : native_point_decompress(bytes) \/ new_compressed_point_from_bytes(bytes)
  \/ \E a \in scalars : native_basepoint_mul(a) \/ native_multi_scalar_mul(a)
  \/ \E i \in DOMAIN moved_points :
       \/ native_point_clone(i)
       \/ native_point_compress(i)
       \/ drop_point(i)
       \/ \E in_place \in BOOLEAN :
            \/ native_point_neg(i, in_place)
            \/ \E a \in scalars : native_point_mul(i, a, in_place)
       \/ \E a, b \in scalars : native_basepoint_double_mul(a, i, b)
       \/ \E j \in DOMAIN moved_points :
            \/ native_point_add(i, j, FALSE) \/ native_point_sub(i, j, FALSE)
            \* Move borrows one of two points as mutable.
            \/ i # j /\ (native_point_add(i, j, TRUE) \/ native_point_sub(i, j, TRUE))
            \/ \E a, b \in scalars : native_double_scalar_mul(i, j, a, b)

scalarCall ==
  \/ \E bytes \in ScalarBytes :
       \/ new_scalar_from_bytes(bytes)
       \/ native_scalar_reduced(bytes)
  \/ \E scalar \in Scalar : native_scalar_from_sha512(scalar)
  \/ \E a \in scalars :
       \/ native_scalar_invert(a)
       \/ native_scalar_neg(a)
       \/ \E b \in scalars : native_scalar_mul(a, b) \/ native_scalar_add(a, b) \/ native_scalar_sub(a, b)

RistrettoNext ==
  \/ \E hash \in TxnHash : start_ristretto(hash)
  \/ end_ristretto
  \/ pointCall
  \/ scalarCall
  \/ abort_ristretto

RistrettoSpec == RistrettoInit /\ [][RistrettoNext]_ristrettoVars
-----------------------------------------------------------------------------
\* However points are made, dropped, copied and changed in place, Move sees what
\* it would see if each RistrettoPoint held its own point: no two of them share a
\* handle (so that get_two_muts never panics), and an assignment to one changes
\* no other.
PointsLikeValues ==
  /\ Len(points) <= NUM_POINTS_LIMIT
  /\ \A i \in DOMAIN moved_points :
       /\ moved_points[i].handle \in 0 .. Len(points) - 1
       /\ get_point(i) = moved_points[i].plain
       /\ \A j \in DOMAIN moved_points :
            i # j => moved_points[i].handle # moved_points[j].handle
=============================================================================
