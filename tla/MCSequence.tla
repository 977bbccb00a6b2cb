----------------------------- MODULE MCSequence -----------------------------
(* Small instances of Sequence for TLC. *)
EXTENDS Sequence, TLC

CONSTANTS e1, e2, r1, r2, welcome, fork, tips, nap, done

OneEnrollment == {e1}
OneRelease == {r1}
TwoReleases == {r1, r2}
AllSteps == {welcome, fork, tips, nap, done}
EmptyString == "end"
Nothing == <<>>
Nowhere == "nowhere"

SendStep(next) == [type |-> "send", next |-> next, else |-> End]
DelayStep(next) == [type |-> "delay", next |-> next, else |-> End]
Branch(next, else) == [type |-> "condition", next |-> next, else |-> else]
CompleteStep == [type |-> "complete", next |-> End, else |-> End]

\* A mail, a choice between another mail and a delay, the end.
Journey1 ==
  welcome :> SendStep(fork) @@ fork :> Branch(tips, nap)
    @@ tips :> SendStep(End) @@ nap :> DelayStep(End)

\* The next release drops the choice, moves a step and ends in a complete step.
Journey2 ==
  welcome :> DelayStep(tips) @@ tips :> SendStep(done) @@ done :> CompleteStep

Journeys == r1 :> Journey1 @@ r2 :> Journey2
\* One step of each type.
Journey3 ==
  welcome :> SendStep(fork) @@ fork :> Branch(nap, done)
    @@ nap :> DelayStep(End) @@ done :> CompleteStep

OneJourney == r1 :> Journey3
FirstSteps == r1 :> welcome @@ r2 :> welcome
=============================================================================
