----------------------------- MODULE MCScriptRuns -----------------------------
(***************************************************************************)
(* Scripts under way, for TLC: two of them streamed to a browser           *)
(* (ScriptStream), and one whose command waits for the session             *)
(* (ScriptWait).  One part moves at a time, the other stays where it       *)
(* began; there, nothing is enabled that is scheduled fairly.              *)
(***************************************************************************)
EXTENDS ScriptStream, ScriptWait

CONSTANTS s1, s2

\* ScriptStream: a stream with a logger, one without.
TwoStreams == {s1, s2}
OneVerbose == {s1}

\* ScriptWait: each command once, with a timeout or without; a counterparty
\* that logs on, skips numbers or is refused; a tick finds it stale or gives up.
OneScript == {s1}
Command(what, target, hurried) == [do |-> what, for |-> target, timed |-> hurried]
SomeCommands ==
  {Command("wait", {"order"}, TRUE), Command("expect", {"order"}, FALSE),
   Command("waitstatus", "Active", FALSE), Command("waitstatus", "Closed", FALSE)}
SomeMsgs == {"heartbeat", "order"}
Beats == {"heartbeat"}
OneOrder == {"order"}
Reacts(passes, does) == [passes |-> passes, does |-> does]
Starts == {Reacts(<<"Listening">>, <<"Listening">>)}
FromPeer ==
  {Reacts(<<>>, <<>>), Reacts(<<"Closed">>, <<"close">>),
   Reacts(<<"Active", "OutOfSync">>, <<"Active", "OutOfSync">>)}
FromTime ==
  {Reacts(<<"Stale">>, <<"Stale">>), Reacts(<<"Closed">>, <<"close", "Closed">>)}

RunsNext ==
  \/ StreamNext /\ WaitInit /\ UNCHANGED commandVars
  \/ WaitNext /\ StreamInit /\ UNCHANGED streamVars

RunsInit == StreamInit /\ WaitInit
RunsSpec ==
  /\ RunsInit /\ [][RunsNext]_<<streamVars, commandVars>>
  /\ StreamFairness /\ WaitFairness
=============================================================================
