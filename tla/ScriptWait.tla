------------------------------ MODULE ScriptWait ------------------------------
(***************************************************************************)
(* The commands of a script that wait for the session: wait, expect and    *)
(* waitstatus, against the run loop that writes the log they listen to and *)
(* a disconnect given elsewhere: another script, the GUI or the shell.     *)
(*                                                                         *)
(* A command subscribes to the log and selects between its context, the    *)
(* end of the session, its timeout and the log.  What the engine decides   *)
(* is abstracted to reactions: the states it passes and what execute still *)
(* has to do for them, the entry of a transition or a close.  Scripts of   *)
(* the GUI run at the same time and share the store with its buffer.       *)
(***************************************************************************)
EXTENDS Naturals, Sequences

CONSTANTS
  Scripts,     \* scripts that run against the session
  Commands,    \* the commands they give
  Msgs,        \* messages of the counterparty
  Lenient,     \* the Heartbeats and TestRequests among them
  Outgoing,    \* messages that are sent meanwhile
  OnStart,     \* what the engine does when the run loop starts
  OnMessage,   \* what a message may make of the engine
  OnTick,      \* what a tick may make of it
  TapCap,      \* capacity of a log subscription (256)
  MaxCommands, \* bound on the commands given
  MaxEvents    \* bound on messages and ticks

States == {"New", "Listening", "LoggingIn", "Active", "Stale", "OutOfSync", "Closed"}
CommandType ==
  [do : {"wait", "expect"}, for : SUBSET Msgs, timed : BOOLEAN]
    \cup [do : {"waitstatus"}, for : States, timed : BOOLEAN]

ASSUME CommandsAssumption == Commands \subseteq CommandType
ASSUME ReactionsAssumption ==
  \A r \in OnStart \cup OnMessage \cup OnTick : r.passes \in Seq(States) /\ r.does \in Seq(States \cup {"close"})
\* Engine.transition changes the state and returns the entry for it, as one.
ASSUME TransitionAssumption ==
  \A r \in OnStart \cup OnMessage \cup OnTick : \A i \in DOMAIN r.does :
    r.does[i] = "close" \/ \E j \in DOMAIN r.passes : r.passes[j] = r.does[i]
ASSUME MsgsAssumption == Lenient \cup Outgoing \subseteq Msgs /\ "empty" \notin Msgs /\ TapCap \in Nat \ {0}
ASSUME WaitBoundAssumption == {MaxCommands, MaxEvents} \subseteq Nat

VARIABLES
  state,       \* Engine.state
  runAt,       \* where the run loop is; past "running" it is in its deferred block
  due,         \* what execute has still to do in this iteration
  sockDone,    \* transport.ctx is cancelled
  closeAsked,  \* Session.closeRequested
  requests,    \* Session.requests: closes, and scripts that ask for a snapshot
  ended,       \* Session.closed
  tomb,        \* the state in Session.tombstone, or "none"
  tappers,     \* Session.logSubs: the scripts that subscribed
  tap,         \* script -> entries in its log channel
  cmd, at,     \* script -> the command it runs, with or without a timeout, and where it is in it
  orElse,      \* script -> what follows if the snapshot has another state
  interrupted, \* script -> its GoCtx is done
  how,         \* script -> how its last command ended
  buffer,      \* Store.buffer
  closer,      \* the goroutine that disconnects: "idle", "queueing" or "done"
  given, events, \* commands and events so far (bounds)
  reached,     \* history: script -> the engine was in the state its waitstatus wants
  heard,       \* history: script -> messages its wait or expect could have taken
  lost         \* history: script -> a message was dropped since it subscribed

sessionVars == <<state, runAt, due, sockDone, closeAsked, requests, ended, tomb>>
tapVars == <<tappers, tap, heard, lost>>
jobVars == <<cmd, orElse, reached>>
scriptVars == <<cmd, orElse, at, how, buffer>>
envVars == <<interrupted, closer, given>>
commandVars == <<sessionVars, tapVars, jobVars, at, how, buffer, envVars, events>>

Each(x) == [s \in Scripts |-> x]
Nothing == [do |-> "wait", for |-> {}, timed |-> FALSE]

WaitInit ==
  /\ state = "New" /\ runAt = "new" /\ due = <<>> /\ sockDone = FALSE
  /\ closeAsked = FALSE /\ requests = <<>> /\ ended = FALSE /\ tomb = "none"
  /\ tappers = {} /\ tap = Each(<<>>) /\ heard = Each(<<>>) /\ lost = Each(FALSE)
  /\ cmd = Each(Nothing) /\ at = Each("idle") /\ orElse = Each("waiting")
  /\ how = Each("none") /\ buffer = "empty"
  /\ interrupted = Each(FALSE) /\ closer = "idle" /\ given = 0 /\ events = 0 /\ reached = Each(FALSE)

DoneReady == runAt = "new" \/ sockDone
Waiting(s) == at[s] = "waiting"

Recv(m) == [type |-> "RECV", msg |-> m]
Sent(m) == [type |-> "SEND", msg |-> m]
Tran(st) == [type |-> "TRAN", to |-> st]
Entries == {Recv(m) : m \in Msgs} \cup {Sent(m) : m \in Outgoing} \cup {Tran(st) : st \in States}

-----------------------------------------------------------------------------
\* Mutations: what a slip in the code would turn a definition below into.  No
\* specification uses them; each breaks a property of this module.

\* A log channel that takes more than it holds.
FitsAlways(s) == s \in tappers

\* A Status that does not ask whether the session was started: it would find
\* Done() closed.
KnownStateStarted ==
  CASE runAt = "new" -> "Closed"
    [] ended -> tomb
    [] OTHER -> "ask"

\* A wait that looks at what was sent, too.
ConcernsBoth(e) == e.type \in {"RECV", "SEND"}

\* A select without a case for its context.
InterruptedNever(s) == FALSE

-----------------------------------------------------------------------------
\* The log: a write that never blocks, to every subscriber.

Fits(s) == s \in tappers /\ Len(tap[s]) < TapCap

Matches(c, m) == m \in c.for

LogEntry(e) ==
  /\ tap' = [s \in Scripts |-> IF Fits(s) THEN Append(tap[s], e) ELSE tap[s]]
  /\ lost' = [s \in Scripts |-> lost[s] \/ (s \in tappers /\ e.type = "RECV" /\ ~Fits(s))]
  /\ heard' = [s \in Scripts |-> IF s \in tappers /\ cmd[s].do # "waitstatus" /\ e.type = "RECV"
                                 THEN Append(heard[s], e.msg) ELSE heard[s]]
  /\ UNCHANGED tappers

-----------------------------------------------------------------------------
\* The run loop.

InRun == runAt = "running" /\ due = <<>>
Elements(q) == {q[i] : i \in DOMAIN q}

React(r) ==
  /\ state' = IF r.passes = <<>> THEN state ELSE r.passes[Len(r.passes)]
  /\ due' = r.does
  /\ reached' = [s \in Scripts |->
                  reached[s] \/ (cmd[s].do = "waitstatus" /\ cmd[s].for \in Elements(r.passes))]

\* A transition leaves the state.  Of a closed engine only a tick makes something
\* else, as long as the run loop goes on: a stale one.
Possible(r) ==
  r.passes # <<>> => r.passes[1] # state /\ (state = "Closed" => r.passes[1] = "Stale")

\* Bound: events are counted, and come while commands do.
Observed == given < MaxCommands \/ \E s \in Scripts : at[s] # "idle"
Watched == events < MaxEvents /\ Observed

StartRun ==
  /\ runAt = "new" /\ Observed /\ runAt' = "running"
  /\ \E r \in OnStart : React(r)
  /\ UNCHANGED <<sockDone, closeAsked, requests, ended, tomb, tapVars, scriptVars, envVars, events>>

\* A message of the counterparty: its entry is written before the engine sees it.
Receive(m) ==
  /\ InRun /\ Watched /\ events' = events + 1
  /\ LogEntry(Recv(m))
  /\ \E r \in OnMessage : Possible(r) /\ React(r)
  /\ UNCHANGED <<runAt, sockDone, closeAsked, requests, ended, tomb, scriptVars, envVars>>

Tick ==
  /\ InRun /\ Watched /\ events' = events + 1
  /\ \E r \in OnTick : Possible(r) /\ React(r)
  /\ UNCHANGED <<runAt, sockDone, closeAsked, requests, ended, tomb, tapVars, scriptVars, envVars>>

\* A message of the user, or of the engine, went out.
SentOne(m) ==
  /\ InRun /\ Watched /\ events' = events + 1
  /\ LogEntry(Sent(m))
  /\ UNCHANGED <<sessionVars, scriptVars, envVars, reached>>

\* Session.Close, of the user or of execute: the flag first, and who sets it
\* queues the request, unless Done() is ready.
Closable == runAt # "new" /\ ~closeAsked
QueueClose == requests' = Append(requests, "close") \/ (sockDone /\ UNCHANGED requests)

Disconnect ==
  /\ closer = "idle" /\ Observed /\ Closable /\ closeAsked' = TRUE /\ closer' = "queueing"
  /\ UNCHANGED <<state, runAt, due, sockDone, requests, ended, tomb, tapVars, scriptVars,
                 interrupted, given, events, reached>>

Disconnected ==
  /\ closer = "queueing" /\ QueueClose /\ closer' = "done"
  /\ UNCHANGED <<state, runAt, due, sockDone, closeAsked, ended, tomb, tapVars, scriptVars,
                 interrupted, given, events, reached>>

Execute ==
  /\ runAt = "running" /\ due # <<>>
  /\ CASE Head(due) = "close" ->
            /\ due' = IF Closable THEN <<"queue">> \o Tail(due) ELSE Tail(due)
            /\ closeAsked' = TRUE /\ UNCHANGED <<tapVars, requests>>
       [] Head(due) = "queue" ->
            due' = Tail(due) /\ QueueClose /\ UNCHANGED <<tapVars, closeAsked>>
       [] OTHER ->
            due' = Tail(due) /\ LogEntry(Tran(Head(due))) /\ UNCHANGED <<closeAsked, requests>>
  /\ UNCHANGED <<state, runAt, sockDone, ended, tomb, scriptVars, envVars, events, reached>>

\* closeRequest.apply: the actions of off() are dropped, the entry of its
\* transition among them.
ApplyClose ==
  /\ InRun /\ requests # <<>> /\ Head(requests) = "close" /\ requests' = Tail(requests)
  /\ React([passes |-> <<"Closed">>, does |-> <<>>])
  /\ sockDone' = TRUE
  /\ UNCHANGED <<runAt, closeAsked, ended, tomb, tapVars, scriptVars, envVars, events>>

\* snapshotRequest.apply for a script that no longer waits.
ApplyStale ==
  /\ InRun /\ requests # <<>> /\ Head(requests) # "close" /\ at[Head(requests)] # "asked"
  /\ requests' = Tail(requests)
  /\ UNCHANGED <<state, runAt, due, sockDone, closeAsked, ended, tomb, tapVars, scriptVars,
                 envVars, events, reached>>

\* The socket breaks or the counterparty hangs up.
SocketEnds ==
  /\ runAt # "new" /\ Observed /\ ~sockDone /\ sockDone' = TRUE
  /\ UNCHANGED <<state, runAt, due, closeAsked, requests, ended, tomb, tapVars, scriptVars,
                 envVars, events, reached>>

\* Done(), or a channel of the transport that was closed: OnDisconnect.
LeaveLoop ==
  /\ InRun /\ sockDone /\ runAt' = "storing"
  /\ React([passes |-> <<"Closed">>, does |-> <<>>])
  /\ UNCHANGED <<sockDone, closeAsked, requests, ended, tomb, tapVars, scriptVars, envVars, events>>

\* The deferred block, a flag at a time.
Defer(from, to) ==
  /\ runAt = from /\ runAt' = to
  /\ UNCHANGED <<state, due, sockDone, requests, scriptVars, envVars, events, reached>>

StoreTomb ==
  Defer("storing", "requesting") /\ tomb' = state /\ UNCHANGED <<closeAsked, ended, tapVars>>
SetRequested ==
  Defer("requesting", "ending") /\ closeAsked' = TRUE /\ UNCHANGED <<tomb, ended, tapVars>>
SetClosed ==
  Defer("ending", "closing") /\ ended' = TRUE /\ UNCHANGED <<tomb, closeAsked, tapVars>>
CloseTaps ==
  /\ Defer("closing", "ended") /\ tappers' = {}
  /\ UNCHANGED <<tomb, closeAsked, ended, tap, heard, lost>>

RunLoop ==
  Execute \/ ApplyClose \/ ApplyStale \/ LeaveLoop \/ StoreTomb \/ SetRequested \/ SetClosed \/ CloseTaps

-----------------------------------------------------------------------------
\* The commands.

Goes(s, to) == at' = [at EXCEPT ![s] = to]

\* A command ends: the result, and unsubscribe on the way out.
Ends(s, result) ==
  /\ Goes(s, "idle") /\ how' = [how EXCEPT ![s] = result]
  /\ tappers' = tappers \ {s} /\ tap' = [tap EXCEPT ![s] = <<>>]
  /\ heard' = [heard EXCEPT ![s] = <<>>] /\ lost' = [lost EXCEPT ![s] = FALSE]
  /\ cmd' = [cmd EXCEPT ![s] = Nothing] /\ orElse' = [orElse EXCEPT ![s] = "waiting"]
  /\ reached' = [reached EXCEPT ![s] = FALSE]

\* It goes on, at place to.
GoesOn(s, to) == Goes(s, to) /\ UNCHANGED how

\* EvalBatch gives a command unless its context is done.  The states that count
\* for waitstatus are those of the iteration under way, and later ones.
Begin(s, c) ==
  /\ at[s] = "idle" /\ ~interrupted[s] /\ given < MaxCommands /\ given' = given + 1
  /\ Goes(s, "subscribe") /\ how' = [how EXCEPT ![s] = "none"]
  /\ cmd' = [cmd EXCEPT ![s] = c] /\ UNCHANGED orElse
  /\ reached' = [reached EXCEPT ![s] =
                   c.do = "waitstatus" /\ c.for \in {state} \cup Elements(due)]
  /\ UNCHANGED <<sessionVars, tapVars, buffer, interrupted, closer, events>>

Quietly == UNCHANGED <<sessionVars, buffer, envVars, events>>

Refuse(s) ==
  /\ at[s] = "subscribe" /\ closeAsked /\ Quietly
  /\ \/ /\ cmd[s].do = "waitstatus" /\ GoesOn(s, "check")
        /\ orElse' = [orElse EXCEPT ![s] = "failed"]
        /\ UNCHANGED <<tapVars, cmd, reached>>
     \/ cmd[s].do # "waitstatus" /\ Ends(s, "falsy")

Tapping(s) ==
  /\ at[s] = "subscribe" /\ ~closeAsked /\ Quietly
  /\ tappers' = tappers \cup {s}
  /\ GoesOn(s, IF cmd[s].do = "waitstatus" THEN "check" ELSE "waiting")
  /\ UNCHANGED <<tap, heard, lost, jobVars>>

\* checkFromSnap has its answer.
Learns(s, st) ==
  IF st = cmd[s].for THEN Ends(s, "ok")
  ELSE IF orElse[s] # "waiting" THEN Ends(s, orElse[s])
  ELSE GoesOn(s, "waiting") /\ UNCHANGED <<tapVars, jobVars>>

\* Session.Status: what the flags decide, or a request to the run loop.
KnownState ==
  CASE runAt = "new" -> "New"
    [] runAt # "new" /\ ended -> tomb
    [] OTHER -> "ask"

Check(s) ==
  /\ at[s] = "check" /\ KnownState # "ask"
  /\ Learns(s, KnownState) /\ Quietly

Ask(s) ==
  /\ at[s] = "check" /\ KnownState = "ask"
  /\ requests' = Append(requests, s) /\ GoesOn(s, "asked")
  /\ UNCHANGED <<state, runAt, due, sockDone, closeAsked, ended, tomb, tapVars, jobVars, buffer,
                 envVars, events>>

Answered(s) ==
  /\ at[s] = "asked" /\ InRun /\ requests # <<>> /\ Head(requests) = s
  /\ requests' = Tail(requests) /\ Learns(s, state)
  /\ UNCHANGED <<state, runAt, due, sockDone, closeAsked, ended, tomb, buffer,
                 envVars, events>>

AnsweredByDone(s) ==
  /\ at[s] = "asked" /\ sockDone /\ Quietly
  /\ Learns(s, IF tomb = "none" THEN "Closed" ELSE tomb)

\* The select, a case per action.
Interrupted(s) == Waiting(s) /\ interrupted[s] /\ Ends(s, "failed") /\ Quietly
TimesOut(s) == Waiting(s) /\ cmd[s].timed /\ Ends(s, "falsy") /\ Quietly

SeesDone(s) ==
  /\ Waiting(s) /\ DoneReady /\ Quietly
  /\ \/ /\ cmd[s].do = "waitstatus" /\ GoesOn(s, "check")
        /\ orElse' = [orElse EXCEPT ![s] = "falsy"]
        /\ UNCHANGED <<tapVars, cmd, reached>>
     \/ cmd[s].do # "waitstatus" /\ Ends(s, "falsy")

TapClosed(s) ==
  Waiting(s) /\ tap[s] = <<>> /\ s \notin tappers /\ Ends(s, "falsy") /\ Quietly

Concerns(e) == e.type = "RECV"
Hit(s, e) == Concerns(e) /\ Matches(cmd[s], e.msg)

Skips(s, e) ==
  CASE cmd[s].do = "wait" -> ~Hit(s, e)
    [] cmd[s].do = "expect" -> ~Hit(s, e) /\ (Concerns(e) => e.msg \in Lenient)
    [] OTHER -> e # Tran(cmd[s].for)

Takes(s) ==
  LET e == Head(tap[s]) IN
  /\ Waiting(s) /\ tap[s] # <<>>
  /\ \/ /\ Skips(s, e) /\ tap' = [tap EXCEPT ![s] = Tail(@)]
        /\ UNCHANGED <<tappers, heard, lost, jobVars, at, how, buffer>>
     \/ /\ ~Skips(s, e) /\ cmd[s].do = "waitstatus" /\ Ends(s, "ok") /\ UNCHANGED buffer
     \/ /\ ~Skips(s, e) /\ cmd[s].do # "waitstatus"
        /\ buffer' = IF Hit(s, e) THEN e.msg ELSE buffer
        /\ Ends(s, IF Hit(s, e) THEN "ok" ELSE "falsy")
  /\ UNCHANGED <<sessionVars, envVars, events>>

Interrupt(s) ==
  /\ ~interrupted[s] /\ at[s] # "idle"
  /\ interrupted' = [interrupted EXCEPT ![s] = TRUE]
  /\ UNCHANGED <<sessionVars, tapVars, scriptVars, closer, given, events, reached>>

\* What a script's goroutine does by itself once a command has begun.
Proceeds(s) ==
  \/ Refuse(s) \/ Tapping(s) \/ Check(s) \/ Ask(s) \/ Answered(s) \/ AnsweredByDone(s)
  \/ Interrupted(s) \/ TimesOut(s) \/ SeesDone(s) \/ TapClosed(s) \/ Takes(s)

\* Nobody has anything left to do: the bounds are reached and no command runs.
AllQuiet == (\A s \in Scripts : at[s] = "idle") /\ UNCHANGED commandVars

WaitNext ==
  \/ StartRun \/ Tick \/ SocketEnds \/ Disconnect \/ Disconnected \/ RunLoop \/ AllQuiet
  \/ \E m \in Msgs : Receive(m)
  \/ \E m \in Outgoing : SentOne(m)
  \/ \E s \in Scripts :
       (\E c \in Commands : Begin(s, c)) \/ Interrupt(s) \/ Proceeds(s)

WaitSpec == WaitInit /\ [][WaitNext]_commandVars

\* The run loop and the scripts are scheduled; the timer of a command fires in
\* the end.  That select is random is not needed: the log entries are bounded.
WaitFairness ==
  /\ WF_commandVars(RunLoop)
  /\ \A s \in Scripts : WF_commandVars(Proceeds(s))

WaitFairSpec == WaitSpec /\ WaitFairness

-----------------------------------------------------------------------------
WaitTypeOK ==
  /\ state \in States /\ due \in Seq(States \cup {"close", "queue"})
  /\ runAt \in {"new", "running", "storing", "requesting", "ending", "closing", "ended"}
  /\ {sockDone, closeAsked, ended} \subseteq BOOLEAN
  /\ requests \in Seq(Scripts \cup {"close"})
  /\ tomb \in {"none", "Closed"}
  /\ tappers \subseteq Scripts
  /\ \A s \in Scripts : tap[s] \in Seq(Entries) /\ Len(tap[s]) <= TapCap
  /\ cmd \in [Scripts -> CommandType]
  /\ at \in [Scripts -> {"idle", "subscribe", "check", "asked", "waiting"}]
  /\ orElse \in [Scripts -> {"waiting", "failed", "falsy"}]
  /\ how \in [Scripts -> {"none", "ok", "falsy", "failed"}]
  /\ reached \in [Scripts -> BOOLEAN] /\ lost \in [Scripts -> BOOLEAN]
  /\ buffer \in Msgs \cup {"empty"}
  /\ \A s \in Scripts : at[s] = "idle" => s \notin tappers /\ tap[s] = <<>>

Succeeds(s, what) ==
  cmd[s].do \in what /\ at[s] # "idle" /\ at'[s] = "idle" /\ how'[s] = "ok"

\* A waitstatus that succeeds was right: the session has been in that state
\* since the command began, whatever the snapshot, the log and the flags of a
\* session that ends say; "Closed" may come a moment early, when the transport
\* is gone and the run loop has not noticed.
ToldWhatWas ==
  [][\A s \in Scripts : Succeeds(s, {"waitstatus"}) =>
       \/ reached[s]
       \/ cmd[s].for = "Closed" /\ sockDone]_commandVars

\* A wait or an expect that succeeds leaves the first message it could have
\* meant in the buffer: received, not sent, since it subscribed, and with
\* nothing in front of it but what the command may pass over.
GotWhatItWaitedFor ==
  [][\A s \in Scripts : Succeeds(s, {"wait", "expect"}) =>
       \E i \in DOMAIN heard[s] :
         /\ buffer' = heard[s][i] /\ buffer' \in cmd[s].for
         /\ lost[s] \/ \A j \in 1..(i - 1) :
              /\ heard[s][j] \notin cmd[s].for
              /\ cmd[s].do = "expect" => heard[s][j] \in Lenient]_commandVars

\* No command waits for ever once its script is cancelled or the session is
\* over, nor with a timeout configured.
CommandEnds ==
  \A s \in Scripts :
    at[s] # "idle" /\ (cmd[s].timed \/ interrupted[s] \/ sockDone) ~> at[s] = "idle"
=============================================================================
