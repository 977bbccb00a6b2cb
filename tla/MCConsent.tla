----------------------------- MODULE MCConsent -----------------------------
(* Small instances of Consent for TLC. *)
EXTENDS Consent, TLC

CONSTANTS c1, c2, h1, h2

OneContact == {c1}
TwoContacts == {c1, c2}
OneHandler == {h1}
TwoHandlers == {h1, h2}
ThreeTerms == 1..3
PurposesOfFirst == (1 :> 1) @@ (2 :> 2) @@ (3 :> 1)
Nobody == <<>>
Symmetric == Permutations(TwoHandlers)
=============================================================================
