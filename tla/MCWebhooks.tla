----------------------------- MODULE MCWebhooks -----------------------------
(* Small instances of Webhooks for TLC. *)
EXTENDS Webhooks

CONSTANTS e1, e2, p1, p2

OneEvent == {e1}
TwoEvents == {e1, e2}
OneEndpoint == {p1}
TwoEndpoints == {p1, p2}
All == Keys
Nothing == <<>>
=============================================================================
