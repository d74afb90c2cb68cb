----------------------------- MODULE ScriptStream -----------------------------
(***************************************************************************)
(* The script runner of the GUI: every request to handleAPIScriptStream    *)
(* starts a runner, a logger if the user wants one and an orchestrator,    *)
(* which meet in one channel of HTML; the request itself relays the channel*)
(* to the browser until it is closed or the browser is gone.  The function *)
(* that cancels the script is kept in one place for all requests.          *)
(***************************************************************************)
EXTENDS Naturals, Sequences

CONSTANTS
  Streams,   \* requests
  Verbose,   \* the ones with a logger
  SseCap,    \* capacity of sseChan (20)
  LogCap,    \* capacity of a subscription to the broker (256)
  MaxPrints, \* bound on the lines a script prints
  MaxLogs    \* bound on the log entries published to a stream

ASSUME VerboseAssumption == Verbose \subseteq Streams
ASSUME StreamCapAssumption == {SseCap, LogCap} \subseteq Nat \ {0}
ASSUME BoundAssumption == {MaxPrints, MaxLogs} \subseteq Nat
ASSUME NoneAssumption == "none" \notin Streams

VARIABLES
  cancelScript, \* Application.cancelScript: the stream it cancels, or "none"
  request,      \* stream -> "new", "open", "done", or "left" by the browser
  browser,      \* stream -> is it there: r.Context() is not done
  ctx,          \* stream -> is its script context cancelled
  runner,       \* stream -> where its runner is
  logger,       \* stream -> where its logger is
  sseChan,      \* stream -> "out", "log" and "verdict" on their way
  closed,       \* stream -> sseChan is closed
  logCh,        \* stream -> entries in its subscription
  subs,         \* Broker.subs: the streams that subscribed
  prints, logs, \* stream -> lines printed, entries published (bounds)
  shown         \* history: stream -> verdicts the browser was sent

appVars == <<cancelScript, request, browser, ctx>>
workers == <<runner, logger>>
channels == <<sseChan, closed, logCh, subs>>
counts == <<prints, logs, shown>>
streamVars == <<appVars, workers, channels, counts>>

All(x) == [s \in Streams |-> x]

StreamInit ==
  /\ cancelScript = "none" /\ request = All("new") /\ browser = All(TRUE) /\ ctx = All(FALSE)
  /\ runner = All("none") /\ logger = All("none")
  /\ sseChan = All(<<>>) /\ closed = All(FALSE) /\ logCh = All(0) /\ subs = {}
  /\ prints = All(0) /\ logs = All(0) /\ shown = All(0)

-----------------------------------------------------------------------------
\* Mutations: what a slip in the code would turn a definition below into.  No
\* specification uses them; each breaks a property of this module.

\* An orchestrator that waits for the runner only.
WorkersDoneRunner(s) == runner[s] = "ended"

\* A request that ends when its script does.
StreamEndsEarly(s) ==
  /\ request[s] = "open" /\ ctx[s] /\ sseChan[s] = <<>>
  /\ request' = [request EXCEPT ![s] = "done"]
  /\ ctx' = [ctx EXCEPT ![s] = TRUE]
  /\ UNCHANGED <<cancelScript, browser, workers, channels, counts>>

\* A runner that does not tell the logger that it is through.
RunnerEndsSilently(s) ==
  /\ runner[s] = "stopping" /\ runner' = [runner EXCEPT ![s] = "ended"]
  /\ UNCHANGED <<appVars, logger, channels, counts>>

-----------------------------------------------------------------------------
\* handleAPIScriptStream up to its loop.
OpenStream(s) ==
  /\ request[s] = "new" /\ request' = [request EXCEPT ![s] = "open"]
  /\ cancelScript' = s
  /\ runner' = [runner EXCEPT ![s] = "running"]
  /\ IF s \in Verbose
     THEN subs' = subs \cup {s} /\ logger' = [logger EXCEPT ![s] = "listening"]
     ELSE UNCHANGED <<subs, logger>>
  /\ UNCHANGED <<browser, ctx, sseChan, closed, logCh, counts>>

\* Sending on sseChan blocks while it is full, and does not look at anything
\* else.
Put(s, what) ==
  /\ Len(sseChan[s]) < SseCap
  /\ sseChan' = [sseChan EXCEPT ![s] = Append(@, what)]

\* The runner: EvalBatch with commands that print, its verdict, stop.
RunnerTo(s, from, to) == runner[s] = from /\ runner' = [runner EXCEPT ![s] = to]

\* A command that is under way when the script is cancelled may still print.
StartPrint(s) ==
  /\ RunnerTo(s, "running", "printing")
  /\ prints[s] < MaxPrints
  /\ prints' = [prints EXCEPT ![s] = @ + 1]
  /\ UNCHANGED <<appVars, logger, channels, logs, shown>>

Printed(s) ==
  /\ RunnerTo(s, "printing", "running")
  /\ Put(s, "out")
  /\ UNCHANGED <<appVars, logger, closed, logCh, subs, counts>>

ScriptEnds(s) ==
  /\ RunnerTo(s, "running", "verdict")
  /\ UNCHANGED <<appVars, logger, channels, counts>>

Verdict(s) ==
  /\ RunnerTo(s, "verdict", "stopping")
  /\ Put(s, "verdict")
  /\ UNCHANGED <<appVars, logger, closed, logCh, subs, counts>>

\* The deferred stop of the runner.
RunnerEnds(s) ==
  /\ RunnerTo(s, "stopping", "ended")
  /\ ctx' = [ctx EXCEPT ![s] = TRUE]
  /\ UNCHANGED <<cancelScript, request, browser, logger, channels, counts>>

\* The logger: a select, then a send on sseChan.
PublishEntry(s) ==
  /\ s \in subs /\ logs[s] < MaxLogs
  /\ logs' = [logs EXCEPT ![s] = @ + 1]
  /\ logCh' = [logCh EXCEPT ![s] = IF @ < LogCap THEN @ + 1 ELSE @]
  /\ UNCHANGED <<appVars, workers, sseChan, closed, subs, prints, shown>>

LoggerTakes(s) ==
  /\ logger[s] = "listening" /\ logger' = [logger EXCEPT ![s] = "holding"]
  /\ logCh[s] > 0 /\ logCh' = [logCh EXCEPT ![s] = @ - 1]
  /\ UNCHANGED <<appVars, runner, sseChan, closed, subs, counts>>

LoggerPuts(s) ==
  /\ logger[s] = "holding" /\ logger' = [logger EXCEPT ![s] = "listening"]
  /\ Put(s, "log")
  /\ UNCHANGED <<appVars, runner, closed, logCh, subs, counts>>

LoggerEnds(s) ==
  /\ logger[s] = "listening" /\ ctx[s]
  /\ logger' = [logger EXCEPT ![s] = "ended"]
  /\ subs' = subs \ {s}
  /\ UNCHANGED <<appVars, runner, sseChan, closed, logCh, counts>>

\* The orchestrator.
WorkersDone(s) == runner[s] = "ended" /\ logger[s] \in {"none", "ended"}

CloseChannel(s) ==
  /\ ~closed[s] /\ WorkersDone(s)
  /\ closed' = [closed EXCEPT ![s] = TRUE]
  /\ UNCHANGED <<appVars, workers, sseChan, logCh, subs, counts>>

-----------------------------------------------------------------------------
\* The loop of the request: relay, be through, or notice that nobody listens.
Relay(s) ==
  /\ request[s] = "open" /\ sseChan[s] # <<>>
  /\ sseChan' = [sseChan EXCEPT ![s] = Tail(@)]
  /\ shown' = [shown EXCEPT ![s] = IF Head(sseChan[s]) = "verdict" THEN @ + 1 ELSE @]
  /\ UNCHANGED <<appVars, workers, closed, logCh, subs, prints, logs>>

StreamEnds(s) ==
  /\ request[s] = "open" /\ closed[s] /\ sseChan[s] = <<>>
  /\ request' = [request EXCEPT ![s] = "done"]
  /\ ctx' = [ctx EXCEPT ![s] = TRUE]
  /\ UNCHANGED <<cancelScript, browser, workers, channels, counts>>

BrowserLeaves(s) ==
  /\ request[s] = "open" /\ browser[s]
  /\ browser' = [browser EXCEPT ![s] = FALSE]
  /\ UNCHANGED <<cancelScript, request, ctx, workers, channels, counts>>

StreamLeft(s) ==
  /\ request[s] = "open" /\ ~browser[s]
  /\ request' = [request EXCEPT ![s] = "left"]
  /\ ctx' = [ctx EXCEPT ![s] = TRUE]
  /\ UNCHANGED <<cancelScript, browser, workers, channels, counts>>

\* handleAPIScriptCancel: the stream that was opened last, running or not.
CancelScript ==
  /\ cancelScript # "none" /\ ~ctx[cancelScript]
  /\ ctx' = [ctx EXCEPT ![cancelScript] = TRUE]
  /\ UNCHANGED <<cancelScript, request, browser, workers, channels, counts>>

-----------------------------------------------------------------------------
Runner(s) == StartPrint(s) \/ Printed(s) \/ ScriptEnds(s) \/ Verdict(s) \/ RunnerEnds(s)
Logger(s) == LoggerTakes(s) \/ LoggerPuts(s) \/ LoggerEnds(s)
Request(s) == Relay(s) \/ StreamEnds(s) \/ StreamLeft(s)

\* A goroutine whose browser left may stay at sseChan for ever.
StreamQuiet ==
  /\ \A s \in Streams : request[s] \in {"new", "done", "left"}
  /\ UNCHANGED streamVars

StreamNext ==
  \/ CancelScript
  \/ \E s \in Streams :
       \/ OpenStream(s) \/ Runner(s) \/ PublishEntry(s) \/ Logger(s)
       \/ CloseChannel(s) \/ Request(s) \/ BrowserLeaves(s)
  \/ StreamQuiet

StreamSpec == StreamInit /\ [][StreamNext]_streamVars

\* Goroutines are scheduled, and a script whose context is done ends (CancelEnds
\* of ScriptFlow).  That select is random and channels serve their senders in
\* order is not needed here: output and log entries are bounded.
StreamFairness ==
  \A s \in Streams :
    /\ WF_streamVars(Printed(s) \/ (ctx[s] /\ ScriptEnds(s)) \/ Verdict(s) \/ RunnerEnds(s))
    /\ WF_streamVars(Logger(s)) /\ WF_streamVars(CloseChannel(s)) /\ WF_streamVars(Request(s))

StreamFairSpec == StreamSpec /\ StreamFairness

-----------------------------------------------------------------------------
StreamTypeOK ==
  /\ cancelScript \in Streams \cup {"none"}
  /\ request \in [Streams -> {"new", "open", "done", "left"}]
  /\ browser \in [Streams -> BOOLEAN] /\ ctx \in [Streams -> BOOLEAN]
  /\ runner \in [Streams -> {"none", "running", "printing", "verdict", "stopping", "ended"}]
  /\ logger \in [Streams -> {"none", "listening", "holding", "ended"}]
  /\ sseChan \in [Streams -> Seq({"out", "log", "verdict"})]
  /\ \A s \in Streams : Len(sseChan[s]) <= SseCap
  /\ closed \in [Streams -> BOOLEAN] /\ logCh \in [Streams -> 0..LogCap]
  /\ subs \subseteq Verbose
  /\ prints \in [Streams -> 0..MaxPrints] /\ logs \in [Streams -> 0..MaxLogs]
  /\ shown \in [Streams -> 0..1]

\* The orchestrator closes sseChan when nobody will send on it any more: a send
\* on a closed channel would end the program.
ClosedWhenQuiet ==
  \A s \in Streams : closed[s] => runner[s] = "ended" /\ logger[s] \in {"none", "ended"}

\* "Safely send termination signal ONLY after sseChan is completely drained":
\* when the browser is told that a script is done it has seen the verdict, and
\* nothing of the script is left, neither output nor subscription.
DoneMeansAll ==
  \A s \in Streams : request[s] = "done" =>
    /\ shown[s] = 1 /\ sseChan[s] = <<>>
    /\ runner[s] = "ended" /\ s \notin subs

\* A script that is cancelled, by whomever, and one that ends by itself, is
\* reported as done to the browser if that is still there, also while runner
\* and logger compete for a full channel.
EndsForBrowser ==
  \A s \in Streams :
    ctx[s] \/ runner[s] = "stopping" ~> request[s] = "done" \/ ~browser[s]
=============================================================================
