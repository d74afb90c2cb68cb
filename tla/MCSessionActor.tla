---------------------------- MODULE MCSessionActor ----------------------------
(* Instances of SessionActor for TLC. *)
EXTENDS SessionActor

CONSTANTS c1, c2

TwoCallers == {c1, c2}
OneCaller == {c1}
AllOps == Methods
BoundedOps == {"status", "reset", "close"}
SendOnly == {"send"}

Calm == {<<>>, <<"send">>, <<"deliver">>}
Closing == {<<>>, <<"send">>, <<"send", "close">>}
=============================================================================
