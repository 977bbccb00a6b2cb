--------------------------- MODULE MCIdempotency ---------------------------
(* Small instances of Idempotency for TLC. *)
EXTENDS Idempotency, TLC

CONSTANTS r1, r2, r3, k1, k2, i1, i2

OneRequest == {r1}
TwoRequests == {r1, r2}
ThreeRequests == {r1, r2, r3}
OneKey == {k1}
TwoKeys == {k1, k2}
TwoInputs == {i1, i2}
Nothing == <<>>
SymmetricRequests == Permutations(ThreeRequests)
=============================================================================
