----------------------------- MODULE MCDispatch -----------------------------
(* Small instances of Dispatch for TLC. *)
EXTENDS Dispatch, TLC

CONSTANTS b1, b2, c1, c2

OneBroadcast == {b1}
TwoBroadcasts == {b1, b2}
OneContact == {c1}
TwoContacts == {c1, c2}
Nobody == <<>>

\* Contacts are interchangeable in every action and invariant.
ContactSymmetry == Permutations({c1, c2})
=============================================================================
