------------------------------- MODULE AppReset -------------------------------
(***************************************************************************)
(* An application (GUI or shell) around its sessions: the log channels of  *)
(* every session, the broker that hands the log entries of the current one *)
(* to whoever shows them, the commands that connect, and resetSession,     *)
(* which replaces the session while all of that runs.                      *)
(*                                                                         *)
(* A critical section under logMu, under Application.mu, or under the      *)
(* broker's mutex when nothing in it waits, is one step; Bind, which takes *)
(* the logMu of two sessions under the broker's mutex, is two.             *)
(***************************************************************************)
EXTENDS Naturals, FiniteSets

CONSTANTS
  Resetters,    \* goroutines that may call resetSession
  Dialers,      \* goroutines that may call Connect or Listen, once each
  Waiters,      \* script commands that subscribe to a session, once each
  Viewers,      \* subscribers of the broker
  MaxSessions,  \* bound on the sessions made
  ChanCap       \* capacity of a log channel (256)

ASSUME SessionsAssumption == MaxSessions \in Nat \ {0}
ASSUME CapAssumption == ChanCap \in Nat \ {0}

Sessions == 1..MaxSessions

VARIABLES
  made,            \* sessions 1..made exist
  current,         \* Application.session
  started,         \* the sessions a connection was given to
  closeRequested,  \* Session.closeRequested
  loop,            \* session -> "new", "running", "ending", "marked", "ended"
  logSubs,         \* session -> its open log channels, by their owner
  queued,          \* session -> entries in the broker's channel on it
  closes,          \* owner -> how often its channel was closed
  mu,              \* who holds Broker.mu to bind: a resetter, or "free"
  bound,           \* the session Broker.cancel unsubscribes from
  pump,            \* session -> the goroutine Bind started for it
  viewing,         \* Broker.subs: the viewers
  rpc, fresh, old, \* resetter -> where it is, its newSess and oldSess
  dial, target,    \* dialer -> where it is, the session it dials for
  wait, tapped,    \* waiter -> where it is, the session it subscribes to
  live             \* history: sessions replaced after they were started

sessVars == <<made, current, started, closeRequested, loop>>
logVars == <<logSubs, queued, closes>>
brokerVars == <<mu, bound, pump>>
resetVars == <<rpc, fresh, old>>
dialVars == <<dial, target>>
waitVars == <<wait, tapped>>
vars == <<sessVars, logVars, brokerVars, viewing, resetVars, dialVars, waitVars, live>>

\* The owner of the channel the broker has on session s is s itself.
Owners == Sessions \cup Waiters

ASSUME NamesAssumption == Sessions \cap Waiters = {} /\ "free" \notin Resetters

\* NewApplication: one session, to which the broker is bound.
Init ==
  /\ made = 1 /\ current = 1
  /\ started = {} /\ closeRequested = {}
  /\ loop = [s \in Sessions |-> "new"]
  /\ logSubs = [s \in Sessions |-> IF s = 1 THEN {1} ELSE {}]
  /\ queued = [s \in Sessions |-> 0] /\ closes = [o \in Owners |-> 0]
  /\ mu = "free" /\ bound = 1
  /\ pump = [s \in Sessions |-> IF s = 1 THEN "ranging" ELSE "none"]
  /\ viewing = {}
  /\ rpc = [r \in Resetters |-> "idle"]
  /\ fresh = [r \in Resetters |-> 1] /\ old = [r \in Resetters |-> 1]
  /\ dial = [d \in Dialers |-> "idle"] /\ target = [d \in Dialers |-> 1]
  /\ wait = [w \in Waiters |-> "idle"] /\ tapped = [w \in Waiters |-> 1]
  /\ live = {}

-----------------------------------------------------------------------------
\* Mutations: what a slip in the code would turn a definition below into.  No
\* specification uses them; each breaks a property of this module.

\* An unsubscribe that does not look whether the channel is still there.
UnsubscribeAnyway(s, o) ==
  /\ logSubs' = [logSubs EXCEPT ![s] = @ \ {o}]
  /\ closes' = [closes EXCEPT ![o] = @ + 1]

\* A SubscribeLog that does not test closeRequested.
TapAlways(w) ==
  /\ wait[w] = "got"
  /\ wait' = [wait EXCEPT ![w] = "tapped"]
  /\ logSubs' = [logSubs EXCEPT ![tapped[w]] = @ \cup {w}]
  /\ UNCHANGED <<sessVars, queued, closes, brokerVars, viewing, resetVars, dialVars, tapped, live>>

\* A Bind that does not unsubscribe from the session before.
CancelNothing == UNCHANGED <<logSubs, closes>>

\* A reset that closes the session made before its own, as if no other reset
\* could have come in between.
SwapLate(r) ==
  /\ rpc[r] = "bound"
  /\ old' = [old EXCEPT ![r] = fresh[r] - 1]
  /\ current' = fresh[r]
  /\ rpc' = [rpc EXCEPT ![r] = "swapped"]
  /\ live' = IF current \in started THEN live \cup {current} ELSE live
  /\ UNCHANGED <<made, started, closeRequested, loop, fresh>>
  /\ UNCHANGED <<logVars, brokerVars, viewing, dialVars, waitVars>>

\* A Write that queues more than the channel holds.
LogOverfull(s) ==
  /\ loop[s] = "running"
  /\ queued' = IF s \in logSubs[s] THEN [queued EXCEPT ![s] = @ + 1] ELSE queued
  /\ UNCHANGED <<sessVars, logSubs, closes>>
  /\ UNCHANGED <<brokerVars, viewing, resetVars, dialVars, waitVars, live>>

-----------------------------------------------------------------------------
\* Session, as far as others see it.

\* unsubscribe, the function that SubscribeLog returns.
Unsubscribe(s, o) ==
  IF o \in logSubs[s]
  THEN /\ logSubs' = [logSubs EXCEPT ![s] = @ \ {o}]
       /\ closes' = [closes EXCEPT ![o] = @ + 1]
  ELSE UNCHANGED <<logSubs, closes>>

\* writeLog drops the entry where the channel is full.  What a waiter reads
\* from its own channel does not matter here.
WriteLog(s) ==
  queued' = IF s \in logSubs[s] /\ queued[s] < ChanCap THEN [queued EXCEPT ![s] = @ + 1]
            ELSE queued

Log(s) ==
  /\ loop[s] = "running"
  /\ WriteLog(s)
  /\ UNCHANGED <<sessVars, logSubs, closes>>
  /\ UNCHANGED <<brokerVars, viewing, resetVars, dialVars, waitVars, live>>

\* The loop ends, asked to or because the connection is gone, and the deferred
\* block logs that it did.
LoopEnds(s) ==
  /\ loop[s] = "running" /\ loop' = [loop EXCEPT ![s] = "ending"]
  /\ WriteLog(s)
  /\ UNCHANGED <<made, current, started, closeRequested, logSubs, closes>>
  /\ UNCHANGED <<brokerVars, viewing, resetVars, dialVars, waitVars, live>>

\* Close, by the disconnect command or by the engine: CloseOld is a reset's.
Close(s) ==
  /\ s \in started \ closeRequested
  /\ closeRequested' = closeRequested \cup {s}
  /\ UNCHANGED <<made, current, started, loop>>
  /\ UNCHANGED <<logVars, brokerVars, viewing, resetVars, dialVars, waitVars, live>>

MarkClosed(s) ==
  /\ loop[s] = "ending" /\ loop' = [loop EXCEPT ![s] = "marked"]
  /\ closeRequested' = closeRequested \cup {s}
  /\ UNCHANGED <<made, current, started>>
  /\ UNCHANGED <<logVars, brokerVars, viewing, resetVars, dialVars, waitVars, live>>

CloseAllLogs(s) ==
  /\ loop[s] = "marked" /\ loop' = [loop EXCEPT ![s] = "ended"]
  /\ closes' = [o \in Owners |-> IF o \in logSubs[s] THEN closes[o] + 1 ELSE closes[o]]
  /\ logSubs' = [logSubs EXCEPT ![s] = {}]
  /\ UNCHANGED <<made, current, started, closeRequested, queued>>
  /\ UNCHANGED <<brokerVars, viewing, resetVars, dialVars, waitVars, live>>

-----------------------------------------------------------------------------
\* Connect and Listen test started, wait for the network, and start then.
Dial(d) ==
  /\ dial[d] = "idle" /\ current \notin started
  /\ dial' = [dial EXCEPT ![d] = "dialing"]
  /\ target' = [target EXCEPT ![d] = current]
  /\ UNCHANGED <<sessVars, logVars, brokerVars, viewing, resetVars, waitVars, live>>

\* What a goroutine looked up is out of scope once it is done.
DialDone(d) ==
  /\ dial[d] = "dialing" /\ dial' = [dial EXCEPT ![d] = "done"]
  /\ target' = [target EXCEPT ![d] = 1]

DialFails(d) ==
  /\ DialDone(d)
  /\ UNCHANGED <<sessVars, logVars, brokerVars, viewing, resetVars, waitVars, live>>

\* Start: the compare-and-swap fails for the second connection.
Connected(d) ==
  /\ DialDone(d)
  /\ started' = started \cup {target[d]}
  /\ loop' = IF target[d] \in started THEN loop ELSE [loop EXCEPT ![target[d]] = "running"]
  /\ UNCHANGED <<made, current, closeRequested>>
  /\ UNCHANGED <<logVars, brokerVars, viewing, resetVars, waitVars, live>>

-----------------------------------------------------------------------------
\* wait, expect and waitstatus: fetch the session, subscribe, unsubscribe.
GetSession(w) ==
  /\ wait[w] = "idle" /\ wait' = [wait EXCEPT ![w] = "got"]
  /\ tapped' = [tapped EXCEPT ![w] = current]
  /\ UNCHANGED <<sessVars, logVars, brokerVars, viewing, resetVars, dialVars, live>>

WaitDone(w) ==
  /\ wait' = [wait EXCEPT ![w] = "done"]
  /\ tapped' = [tapped EXCEPT ![w] = 1]

\* SubscribeLog.
Tap(w) ==
  /\ wait[w] = "got"
  /\ IF tapped[w] \in closeRequested
     THEN WaitDone(w) /\ UNCHANGED logSubs
     ELSE /\ wait' = [wait EXCEPT ![w] = "tapped"]
          /\ logSubs' = [logSubs EXCEPT ![tapped[w]] = @ \cup {w}]
          /\ UNCHANGED tapped
  /\ UNCHANGED <<sessVars, queued, closes, brokerVars, viewing, resetVars, dialVars, live>>

Untap(w) ==
  /\ wait[w] = "tapped" /\ WaitDone(w)
  /\ Unsubscribe(tapped[w], w)
  /\ UNCHANGED <<sessVars, queued, brokerVars, viewing, resetVars, dialVars, live>>

-----------------------------------------------------------------------------
\* The broker: its viewers and the goroutines that Bind starts.
Subscribe(v) ==
  /\ v \notin viewing /\ mu = "free"
  /\ viewing' = viewing \cup {v}
  /\ UNCHANGED <<sessVars, logVars, brokerVars, resetVars, dialVars, waitVars, live>>

Leave(v) ==
  /\ v \in viewing /\ mu = "free"
  /\ viewing' = viewing \ {v}
  /\ UNCHANGED <<sessVars, logVars, brokerVars, resetVars, dialVars, waitVars, live>>

\* The goroutine ranges over its channel until that is closed and empty.
Take(s) ==
  /\ pump[s] = "ranging" /\ queued[s] > 0
  /\ queued' = [queued EXCEPT ![s] = @ - 1]
  /\ pump' = [pump EXCEPT ![s] = "holding"]
  /\ UNCHANGED <<sessVars, logSubs, closes, mu, bound, viewing, resetVars, dialVars, waitVars, live>>

\* publish, under a read lock, drops the entry where a viewer is slow: it
\* waits for a Bind under way only.
Publish(s) ==
  /\ pump[s] = "holding" /\ mu = "free"
  /\ pump' = [pump EXCEPT ![s] = "ranging"]
  /\ UNCHANGED <<sessVars, logVars, mu, bound, viewing, resetVars, dialVars, waitVars, live>>

\* The deferred unsub of a goroutine whose channel was closed.
PumpEnds(s) ==
  /\ pump[s] = "ranging" /\ queued[s] = 0 /\ closes[s] > 0
  /\ pump' = [pump EXCEPT ![s] = "ended"]
  /\ Unsubscribe(s, s)
  /\ UNCHANGED <<sessVars, queued, mu, bound, viewing, resetVars, dialVars, waitVars, live>>

-----------------------------------------------------------------------------
\* resetSession.
\* Broker.cancel.
Cancel == Unsubscribe(bound, bound)

\* newSession touches nothing that others see.  Bind: cancel the subscription
\* of the session before ...
Rebind(r) ==
  /\ rpc[r] = "idle" /\ made < MaxSessions /\ mu = "free"
  /\ made' = made + 1
  /\ fresh' = [fresh EXCEPT ![r] = made + 1]
  /\ mu' = r
  /\ Cancel
  /\ rpc' = [rpc EXCEPT ![r] = "binding"]
  /\ UNCHANGED <<current, started, closeRequested, loop, queued, bound, pump, viewing, old>>
  /\ UNCHANGED <<dialVars, waitVars, live>>

\* ... and subscribe to the new one, which nobody else has and so is open.
Bind(r) ==
  /\ rpc[r] = "binding"
  /\ logSubs' = [logSubs EXCEPT ![fresh[r]] = @ \cup {fresh[r]}]
  /\ bound' = fresh[r] /\ mu' = "free"
  /\ pump' = [pump EXCEPT ![fresh[r]] = "ranging"]
  /\ rpc' = [rpc EXCEPT ![r] = "bound"]
  /\ UNCHANGED <<sessVars, queued, closes, viewing, fresh, old, dialVars, waitVars, live>>

Swap(r) ==
  /\ rpc[r] = "bound"
  /\ old' = [old EXCEPT ![r] = current]
  /\ current' = fresh[r]
  /\ rpc' = [rpc EXCEPT ![r] = "swapped"]
  /\ live' = IF current \in started THEN live \cup {current} ELSE live
  /\ UNCHANGED <<made, started, closeRequested, loop, fresh>>
  /\ UNCHANGED <<logVars, brokerVars, viewing, dialVars, waitVars>>

\* Session.Close, which does nothing to a session that was not started.
CloseOld(r) ==
  /\ rpc[r] = "swapped" /\ rpc' = [rpc EXCEPT ![r] = "idle"]
  /\ closeRequested' = closeRequested \cup ({old[r]} \cap started)
  /\ fresh' = [fresh EXCEPT ![r] = 1] /\ old' = [old EXCEPT ![r] = 1]
  /\ UNCHANGED <<made, current, started, loop>>
  /\ UNCHANGED <<logVars, brokerVars, viewing, dialVars, waitVars, live>>

-----------------------------------------------------------------------------
ResetStep(r) == Bind(r) \/ Swap(r) \/ CloseOld(r)
PumpStep(s) == Take(s) \/ Publish(s) \/ PumpEnds(s)
Deferred(s) == MarkClosed(s) \/ CloseAllLogs(s)

\* Nothing is under way: only here may the application rest.
Quiet ==
  /\ \A r \in Resetters : rpc[r] = "idle"
  /\ \A s \in Sessions : pump[s] # "holding" /\ loop[s] \notin {"ending", "marked"}
  /\ UNCHANGED vars

Next ==
  \/ \E r \in Resetters : Rebind(r) \/ ResetStep(r)
  \/ \E s \in Sessions : Log(s) \/ Close(s) \/ LoopEnds(s) \/ Deferred(s) \/ PumpStep(s)
  \/ \E d \in Dialers : Dial(d) \/ DialFails(d) \/ Connected(d)
  \/ \E w \in Waiters : GetSession(w) \/ Tap(w) \/ Untap(w)
  \/ \E v \in Viewers : Subscribe(v) \/ Leave(v)
  \/ Quiet

Spec == Init /\ [][Next]_vars

\* Goroutines are scheduled, and a session that is asked to close ends
\* (CloseShutsDown of SessionActor).  Nobody has to connect, wait or look.
AppFairness ==
  /\ \A r \in Resetters : WF_vars(ResetStep(r))
  /\ \A s \in Sessions :
       /\ WF_vars(PumpStep(s)) /\ WF_vars(Deferred(s))
       /\ WF_vars(s \in closeRequested /\ LoopEnds(s))

FairSpec == Spec /\ AppFairness

-----------------------------------------------------------------------------
TypeOK ==
  /\ made \in Sessions /\ current \in 1..made /\ bound \in 1..made
  /\ started \subseteq 1..made /\ closeRequested \subseteq started
  /\ loop \in [Sessions -> {"new", "running", "ending", "marked", "ended"}]
  /\ started = {s \in Sessions : loop[s] # "new"}
  /\ logSubs \in [Sessions -> SUBSET Owners]
  /\ queued \in [Sessions -> 0..ChanCap] /\ closes \in [Owners -> Nat]
  /\ mu \in Resetters \cup {"free"}
  /\ pump \in [Sessions -> {"none", "ranging", "holding", "ended"}]
  /\ viewing \subseteq Viewers
  /\ rpc \in [Resetters -> {"idle", "binding", "bound", "swapped"}]
  /\ fresh \in [Resetters -> 1..made] /\ old \in [Resetters -> 1..made]
  /\ dial \in [Dialers -> {"idle", "dialing", "done"}] /\ target \in [Dialers -> 1..made]
  /\ wait \in [Waiters -> {"idle", "got", "tapped", "done"}] /\ tapped \in [Waiters -> 1..made]
  /\ live \subseteq started

\* A log channel is closed at most once, and never written after it: whoever
\* subscribed, Bind, the goroutine of the broker and closeAllLogs may all try.
\* (A second close, or a send on a closed channel, is a panic in Go.)
ClosedOnce ==
  /\ \A o \in Owners : closes[o] <= 1
  /\ \A s \in Sessions, o \in Owners : o \in logSubs[s] => closes[o] = 0

\* Once a session has closed its log channels none is open or opened again, so
\* nobody waits for ever on a session that ended.
NoneLeftOpen == \A s \in Sessions : loop[s] = "ended" => logSubs[s] = {}

\* The goroutine of the broker does not outlive what it reads: it ends when
\* its session ended, and when the broker went on to another session.
PumpEndsToo ==
  \A s \in Sessions :
    (loop[s] = "ended" \/ bound # s) /\ pump[s] \notin {"none", "ended"} ~> pump[s] = "ended"

\* A session that was running when a reset replaced it is closed in the end,
\* however many resets run at the same time.
ReplacedEnds == \A s \in Sessions : s \in live ~> loop[s] = "ended"
=============================================================================
