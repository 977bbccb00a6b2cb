----------------------------- MODULE MCSending ------------------------------
(* A small instance of Sending for TLC: one transport provisioned for a     *)
(* stream and a second one that may be made, for that stream or for none;   *)
(* one delivery with a stream; two addresses that share the project's       *)
(* bucket, of which one has confirmed before.                               *)
EXTENDS Sending

CONSTANTS t1, t2, d1, w1, a1, m1, s1, s2

Nothing == "none"
Installed == "__installation__"
Somebody == "maker"

TwoTransports == {t1, t2}
OneProvisioned == <<t1>>
OneDomain == {d1}
OneForAll == [t \in TwoTransports |-> d1]
OneWebhook == {w1}
OneAdmin == {a1}
TwoStreams == {"", "news"}
ForNews == [t \in TwoTransports |-> "news"]
PinOrNot == {t1, Nothing}

OneDelivery == {m1}
TwoSubscribers == {s1, s2}
OneConfirmed == {s2}
NewsAndNone == [m \in {m1, s1, s2} |-> IF m = m1 THEN "news" ELSE ""]

ByMinute == {t1, t2, Installed}
ByHour == {"project", s1, s2}
OwnAndProject == [s \in TwoSubscribers |-> {"project", s}]
OneEach == [b \in ByMinute \union ByHour |-> 1]
=============================================================================
