----------------------------- MODULE MCReleases -----------------------------
(* Small instances of Releases for TLC. *)
EXTENDS Releases, TLC

CONSTANTS r1, r2, l1, l2

TwoReleasers == {r1, r2}
OneReleaser == {r1}
TwoLists == {l1, l2}
OneList == {l1}
ThreeTerms == 1..3
PurposesOfFirst == (1 :> 1) @@ (2 :> 1) @@ (3 :> 2)
Both(p, q) == (l1 :> p) @@ (l2 :> q)
FourManifests == {Both(1, 0), Both(2, 0), Both(3, 0), Both(1, 1)}
Nothing == <<>>
Symmetric == Permutations(TwoReleasers)
=============================================================================
