-------------------------- MODULE ScriptRunsProofs ---------------------------
(***************************************************************************)
(* Proofs about ScriptStream, for any number of requests, capacities and   *)
(* bounds, and about ScriptWait, for any number of scripts, messages,      *)
(* reactions of the engine and capacities.                                 *)
(***************************************************************************)
EXTENDS ScriptStream, ScriptWait, TLAPS

-----------------------------------------------------------------------------
(* Verdicts in a channel. *)

HtmlType == {"out", "log", "verdict"}
NoVerdict(q) == \A i \in DOMAIN q : q[i] # "verdict"
OneVerdict(q) ==
  \E i \in DOMAIN q : q[i] = "verdict" /\ \A j \in DOMAIN q : q[j] = "verdict" => j = i

\* What a send does to the verdicts in the channel.
LEMMA AppendVerdicts ==
  ASSUME NEW q \in Seq(HtmlType), NEW x \in HtmlType
  PROVE  /\ Append(q, x) \in Seq(HtmlType) /\ Len(Append(q, x)) = Len(q) + 1
         /\ x # "verdict" /\ NoVerdict(q) => NoVerdict(Append(q, x))
         /\ x # "verdict" /\ OneVerdict(q) => OneVerdict(Append(q, x))
         /\ x = "verdict" /\ NoVerdict(q) => OneVerdict(Append(q, x))
<1> DEFINE r == Append(q, x)
<1>1. r \in Seq(HtmlType) /\ Len(r) = Len(q) + 1 /\ Len(q) \in Nat
  OBVIOUS
<1>2. DOMAIN r = 1..(Len(q) + 1) /\ DOMAIN q = 1..Len(q)
  BY <1>1
<1>3. r[Len(q) + 1] = x /\ \A i \in 1..Len(q) : r[i] = q[i]
  OBVIOUS
<1> HIDE DEF r
<1>4. x # "verdict" /\ NoVerdict(q) => NoVerdict(r)
  BY <1>1, <1>2, <1>3 DEF NoVerdict
<1>5. ASSUME x # "verdict", OneVerdict(q) PROVE OneVerdict(r)
  <2>1. PICK i \in 1..Len(q) : q[i] = "verdict" /\ \A j \in 1..Len(q) : q[j] = "verdict" => j = i
    BY <1>2, <1>5 DEF OneVerdict
  <2>2. i \in DOMAIN r /\ r[i] = "verdict" /\ \A j \in DOMAIN r : r[j] = "verdict" => j = i
    BY <1>1, <1>2, <1>3, <1>5, <2>1
  <2> QED BY <2>2 DEF OneVerdict
<1>6. ASSUME x = "verdict", NoVerdict(q) PROVE OneVerdict(r)
  <2> DEFINE i == Len(q) + 1
  <2>1. i \in DOMAIN r /\ r[i] = "verdict" /\ \A j \in DOMAIN r : r[j] = "verdict" => j = i
    BY <1>1, <1>2, <1>3, <1>6 DEF NoVerdict
  <2> HIDE DEF i
  <2> QED BY <2>1 DEF OneVerdict
<1> QED BY <1>1, <1>4, <1>5, <1>6 DEF r

\* What the relay does to them.
LEMMA TailVerdicts ==
  ASSUME NEW q \in Seq(HtmlType), q # <<>>
  PROVE  /\ Tail(q) \in Seq(HtmlType) /\ Len(Tail(q)) <= Len(q)
         /\ NoVerdict(q) => Head(q) # "verdict" /\ NoVerdict(Tail(q))
         /\ OneVerdict(q) => IF Head(q) = "verdict" THEN NoVerdict(Tail(q))
                             ELSE OneVerdict(Tail(q))
<1> DEFINE r == Tail(q)
<1>1. /\ Len(q) \in Nat /\ Len(q) >= 1 /\ r \in Seq(HtmlType) /\ Len(r) = Len(q) - 1
      /\ Head(q) = q[1]
  OBVIOUS
<1>2. DOMAIN q = 1..Len(q) /\ DOMAIN r = 1..(Len(q) - 1)
  BY <1>1
<1>3. \A i \in 1..(Len(q) - 1) : r[i] = q[i + 1]
  OBVIOUS
<1> HIDE DEF r
<1>4. NoVerdict(q) => Head(q) # "verdict" /\ NoVerdict(r)
  BY <1>1, <1>2, <1>3 DEF NoVerdict
<1>5. ASSUME OneVerdict(q), Head(q) = "verdict" PROVE NoVerdict(r)
  <2>1. \A j \in 1..Len(q) : q[j] = "verdict" => j = 1
    BY <1>1, <1>2, <1>5 DEF OneVerdict
  <2>2. \A i \in 1..(Len(q) - 1) : i + 1 \in 1..Len(q) /\ i + 1 # 1
    BY <1>1
  <2> QED BY <1>2, <1>3, <2>1, <2>2 DEF NoVerdict
<1>6. ASSUME OneVerdict(q), Head(q) # "verdict" PROVE OneVerdict(r)
  <2>1. PICK i \in 1..Len(q) : q[i] = "verdict" /\ \A j \in 1..Len(q) : q[j] = "verdict" => j = i
    BY <1>2, <1>6 DEF OneVerdict
  <2>2. i - 1 \in 1..(Len(q) - 1)
    BY <1>1, <1>6, <2>1
  <2>3. r[i - 1] = "verdict"
    BY <1>1, <1>3, <2>1, <2>2
  <2>4. \A j \in 1..(Len(q) - 1) : r[j] = "verdict" => j = i - 1
    BY <1>1, <1>3, <2>1
  <2> QED BY <1>2, <2>2, <2>3, <2>4 DEF OneVerdict
<1> QED BY <1>1, <1>4, <1>5, <1>6 DEF r

-----------------------------------------------------------------------------
(* The inductive invariant. *)

StreamTypes ==
  /\ cancelScript \in Streams \cup {"none"}
  /\ request \in [Streams -> {"new", "open", "done", "left"}]
  /\ browser \in [Streams -> BOOLEAN] /\ ctx \in [Streams -> BOOLEAN]
  /\ runner \in [Streams -> {"none", "running", "printing", "verdict", "stopping", "ended"}]
  /\ logger \in [Streams -> {"none", "listening", "holding", "ended"}]
  /\ sseChan \in [Streams -> Seq(HtmlType)]
  /\ \A s \in Streams : Len(sseChan[s]) <= SseCap
  /\ closed \in [Streams -> BOOLEAN] /\ logCh \in [Streams -> 0..LogCap]
  /\ subs \subseteq Verbose
  /\ prints \in [Streams -> 0..MaxPrints] /\ logs \in [Streams -> 0..MaxLogs]
  /\ shown \in [Streams -> Nat]

\* The runner gives one verdict, which is in the channel until it is relayed.
VerdictGiven(s) ==
  IF runner[s] \in {"stopping", "ended"}
  THEN \/ shown[s] = 0 /\ OneVerdict(sseChan[s])
       \/ shown[s] = 1 /\ NoVerdict(sseChan[s])
  ELSE shown[s] = 0 /\ NoVerdict(sseChan[s])

\* A request is new until its goroutines run; a logger that runs is subscribed;
\* the channel is closed once both are through, and the request is done once
\* the closed channel is empty.
Ordered(s) ==
  /\ request[s] = "new" => runner[s] = "none"
  /\ s \in subs => logger[s] \in {"listening", "holding"}
  /\ closed[s] => WorkersDone(s)
  /\ request[s] = "done" => closed[s] /\ sseChan[s] = <<>>

StreamInv == StreamTypes /\ \A s \in Streams : VerdictGiven(s) /\ Ordered(s)

LEMMA InitStreamInv == StreamInit => StreamInv
<1> SUFFICES ASSUME StreamInit PROVE StreamInv
  OBVIOUS
<1> USE DEF StreamInit, All
<1>1. StreamTypes
  BY StreamCapAssumption, BoundAssumption DEF StreamTypes
<1>2. ASSUME NEW s \in Streams PROVE VerdictGiven(s) /\ Ordered(s)
  BY DEF VerdictGiven, Ordered, NoVerdict
<1> QED BY <1>1, <1>2 DEF StreamInv

LEMMA PutType ==
  ASSUME StreamTypes, NEW s \in Streams, NEW x \in HtmlType, Put(s, x)
  PROVE  /\ sseChan' \in [Streams -> Seq(HtmlType)]
         /\ \A t \in Streams : Len(sseChan'[t]) <= SseCap
<1>1. Append(sseChan[s], x) \in Seq(HtmlType) /\ Len(Append(sseChan[s], x)) = Len(sseChan[s]) + 1
  BY AppendVerdicts DEF StreamTypes
<1>2. Len(sseChan[s]) \in Nat /\ SseCap \in Nat
  BY StreamCapAssumption DEF StreamTypes
<1>3. sseChan' = [sseChan EXCEPT ![s] = Append(sseChan[s], x)]
  BY DEF Put
<1> QED BY <1>1, <1>2, <1>3 DEF StreamTypes, Put

LEMMA NextStreamTypes == StreamTypes /\ [StreamNext]_streamVars => StreamTypes'
<1> SUFFICES ASSUME StreamTypes, [StreamNext]_streamVars PROVE StreamTypes'
  OBVIOUS
<1> USE DEF StreamTypes
<1>0. SseCap \in Nat /\ LogCap \in Nat /\ MaxPrints \in Nat /\ MaxLogs \in Nat
  BY StreamCapAssumption, BoundAssumption
<1>1. CASE CancelScript
  BY <1>1 DEF CancelScript, workers, channels, counts
<1>2. ASSUME NEW s \in Streams, OpenStream(s) PROVE StreamTypes'
  <2>1. /\ subs' \subseteq Verbose
        /\ logger' \in {logger, [logger EXCEPT ![s] = "listening"]}
    BY <1>2 DEF OpenStream
  <2>2. /\ request' = [request EXCEPT ![s] = "open"] /\ cancelScript' = s
        /\ runner' = [runner EXCEPT ![s] = "running"]
        /\ UNCHANGED <<browser, ctx, sseChan, closed, logCh, counts>>
    BY <1>2 DEF OpenStream
  <2> QED BY <2>1, <2>2 DEF counts
<1>3. ASSUME NEW s \in Streams, StartPrint(s) PROVE StreamTypes'
  <2>1. prints' \in [Streams -> 0..MaxPrints]
    <3>1. prints[s] + 1 \in 0..MaxPrints /\ prints' = [prints EXCEPT ![s] = prints[s] + 1]
      BY <1>0, <1>3 DEF StartPrint
    <3> QED BY <3>1
  <2>2. runner' = [runner EXCEPT ![s] = "printing"]
    BY <1>3 DEF StartPrint, RunnerTo
  <2> QED BY <1>3, <2>1, <2>2 DEF StartPrint, appVars, channels
<1>4. ASSUME NEW s \in Streams, Printed(s) \/ Verdict(s) PROVE StreamTypes'
  <2>1. PICK x \in HtmlType : Put(s, x)
    BY <1>4 DEF Printed, Verdict, HtmlType
  <2>2. runner' \in {[runner EXCEPT ![s] = "running"], [runner EXCEPT ![s] = "stopping"]}
    BY <1>4 DEF Printed, Verdict, RunnerTo
  <2>3. UNCHANGED <<appVars, logger, closed, logCh, subs, counts>>
    BY <1>4 DEF Printed, Verdict
  <2> QED BY <2>1, <2>2, <2>3, PutType DEF appVars, counts
<1>5. ASSUME NEW s \in Streams, ScriptEnds(s) \/ RunnerEnds(s) PROVE StreamTypes'
  BY <1>5 DEF ScriptEnds, RunnerEnds, RunnerTo, appVars, channels, counts
<1>6. ASSUME NEW s \in Streams, PublishEntry(s) PROVE StreamTypes'
  <2>1. logs[s] + 1 \in 0..MaxLogs /\ logs' = [logs EXCEPT ![s] = logs[s] + 1]
    BY <1>0, <1>6 DEF PublishEntry
  <2>2. \E n \in 0..LogCap : logCh' = [logCh EXCEPT ![s] = n]
    <3>1. (IF logCh[s] < LogCap THEN logCh[s] + 1 ELSE logCh[s]) \in 0..LogCap
      BY <1>0
    <3> QED BY <1>6, <3>1 DEF PublishEntry
  <2>3. UNCHANGED <<appVars, workers, sseChan, closed, subs, prints, shown>>
    BY <1>6 DEF PublishEntry
  <2> QED BY <2>1, <2>2, <2>3 DEF appVars, workers
<1>7. ASSUME NEW s \in Streams, LoggerTakes(s) PROVE StreamTypes'
  <2>1. logCh' \in [Streams -> 0..LogCap]
    <3>1. logCh[s] - 1 \in 0..LogCap /\ logCh' = [logCh EXCEPT ![s] = logCh[s] - 1]
      BY <1>0, <1>7 DEF LoggerTakes
    <3> QED BY <3>1
  <2> QED BY <1>7, <2>1 DEF LoggerTakes, appVars, counts
<1>8. ASSUME NEW s \in Streams, LoggerPuts(s) PROVE StreamTypes'
  <2>1. "log" \in HtmlType /\ Put(s, "log")
    BY <1>8 DEF LoggerPuts, HtmlType
  <2>2. logger' = [logger EXCEPT ![s] = "listening"]
    BY <1>8 DEF LoggerPuts
  <2>3. UNCHANGED <<appVars, runner, closed, logCh, subs, counts>>
    BY <1>8 DEF LoggerPuts
  <2> QED BY <2>1, <2>2, <2>3, PutType DEF appVars, counts
<1>9. ASSUME NEW s \in Streams, LoggerEnds(s) PROVE StreamTypes'
  BY <1>9 DEF LoggerEnds, appVars, counts
<1>10. ASSUME NEW s \in Streams, CloseChannel(s) PROVE StreamTypes'
  BY <1>10 DEF CloseChannel, appVars, workers, counts
<1>11. ASSUME NEW s \in Streams, Relay(s) PROVE StreamTypes'
  <2>1. Tail(sseChan[s]) \in Seq(HtmlType) /\ Len(Tail(sseChan[s])) <= Len(sseChan[s])
    BY <1>11, TailVerdicts DEF Relay
  <2>2. Len(sseChan[s]) \in Nat /\ Len(Tail(sseChan[s])) \in Nat
    BY <2>1
  <2>3. /\ sseChan' \in [Streams -> Seq(HtmlType)]
        /\ \A t \in Streams : Len(sseChan'[t]) <= SseCap
    BY <1>0, <1>11, <2>1, <2>2 DEF Relay
  <2>4. shown' \in [Streams -> Nat]
    BY <1>11 DEF Relay
  <2> QED BY <1>11, <2>3, <2>4 DEF Relay, appVars, workers
<1>12. ASSUME NEW s \in Streams, StreamEnds(s) \/ StreamLeft(s) \/ BrowserLeaves(s) PROVE StreamTypes'
  BY <1>12 DEF StreamEnds, StreamLeft, BrowserLeaves, workers, channels, counts
<1>13. CASE StreamQuiet \/ UNCHANGED streamVars
  BY <1>13 DEF StreamQuiet, streamVars, appVars, workers, channels, counts
<1> QED
  BY <1>1, <1>2, <1>3, <1>4, <1>5, <1>6, <1>7, <1>8, <1>9, <1>10, <1>11, <1>12, <1>13
  DEF StreamNext, Runner, Logger, Request

\* A step that leaves runner, channel and verdicts of a stream alone.
LEMMA VerdictKept ==
  ASSUME NEW s \in Streams, VerdictGiven(s),
         runner'[s] \in {"stopping", "ended"} <=> runner[s] \in {"stopping", "ended"},
         sseChan'[s] = sseChan[s], shown'[s] = shown[s]
  PROVE  VerdictGiven(s)'
BY DEF VerdictGiven

LEMMA NextStreamInv == StreamInv /\ [StreamNext]_streamVars => StreamInv'
<1> SUFFICES ASSUME StreamInv, [StreamNext]_streamVars PROVE StreamInv'
  OBVIOUS
<1>0. StreamTypes /\ StreamTypes' /\ \A s \in Streams : VerdictGiven(s) /\ Ordered(s)
  BY NextStreamTypes DEF StreamInv
<1>1. CASE CancelScript
  <2>1. UNCHANGED <<request, runner, logger, sseChan, closed, subs, shown>>
    BY <1>1 DEF CancelScript, workers, channels, counts
  <2> QED BY <1>0, <2>1 DEF VerdictGiven, Ordered, WorkersDone, StreamInv
<1>2. ASSUME NEW s \in Streams, OpenStream(s) PROVE StreamInv'
  <2>1. ASSUME NEW t \in Streams PROVE VerdictGiven(t)' /\ Ordered(t)'
    <3>1. /\ UNCHANGED <<sseChan, closed, shown>>
          /\ runner' = [runner EXCEPT ![s] = "running"]
          /\ request' = [request EXCEPT ![s] = "open"]
          /\ runner[s] = "none" /\ ~closed[s]
      BY <1>0, <1>2 DEF OpenStream, counts, Ordered, WorkersDone
    <3>2. VerdictGiven(t)'
      BY <1>0, <3>1, VerdictKept DEF StreamTypes
    <3>3. t \in subs' => logger'[t] \in {"listening", "holding"}
      <4>1. CASE s \in Verbose
        <5>1. subs' = subs \cup {s} /\ logger' = [logger EXCEPT ![s] = "listening"]
          BY <1>2, <4>1 DEF OpenStream
        <5> QED BY <1>0, <5>1 DEF Ordered, StreamTypes
      <4>2. CASE s \notin Verbose
        BY <1>0, <1>2, <4>2 DEF OpenStream, Ordered
      <4> QED BY <4>1, <4>2
    <3>4. t # s => logger'[t] = logger[t]
      BY <1>0, <1>2 DEF OpenStream, StreamTypes
    <3> QED BY <1>0, <3>1, <3>2, <3>3, <3>4 DEF StreamTypes, Ordered, WorkersDone
  <2> QED BY <1>0, <2>1 DEF StreamInv
<1>3. ASSUME NEW s \in Streams, StartPrint(s) \/ ScriptEnds(s) PROVE StreamInv'
  <2>1. /\ UNCHANGED <<request, logger, sseChan, closed, subs, shown>>
        /\ runner[s] = "running"
        /\ runner' \in {[runner EXCEPT ![s] = "printing"], [runner EXCEPT ![s] = "verdict"]}
    BY <1>3 DEF StartPrint, ScriptEnds, RunnerTo, appVars, channels, counts
  <2>2. ASSUME NEW t \in Streams PROVE VerdictGiven(t)' /\ Ordered(t)'
    <3>1. runner'[t] = runner[t] \/ (t = s /\ runner'[t] \in {"printing", "verdict"})
      BY <1>0, <2>1 DEF StreamTypes
    <3>2. VerdictGiven(t)'
      BY <1>0, <2>1, <3>1, VerdictKept
    <3> QED BY <1>0, <2>1, <3>1, <3>2 DEF Ordered, WorkersDone
  <2> QED BY <1>0, <2>2 DEF StreamInv
<1>4. ASSUME NEW s \in Streams, Printed(s) \/ Verdict(s) \/ LoggerPuts(s) PROVE StreamInv'
  <2>1. /\ UNCHANGED <<request, closed, subs, shown>>
        /\ ~closed[s] /\ request[s] # "done"
    <3>1. ~WorkersDone(s)
      BY <1>4 DEF Printed, Verdict, LoggerPuts, RunnerTo, WorkersDone
    <3> QED BY <1>0, <1>4, <3>1
        DEF Printed, Verdict, LoggerPuts, RunnerTo, appVars, counts, Ordered
  <2>2. PICK x \in HtmlType : /\ Put(s, x)
                              /\ x = "verdict" <=> Verdict(s)
    BY <1>4 DEF Printed, Verdict, LoggerPuts, RunnerTo, HtmlType
  <2>3. /\ request[s] = "new" => runner'[s] = "none"
        /\ \A t \in Streams : t # s => runner'[t] = runner[t] /\ logger'[t] = logger[t]
        /\ logger'[s] \in {"listening", "holding"} <=> logger[s] \in {"listening", "holding"}
    <3>1. /\ runner \in [Streams -> {"none", "running", "printing", "verdict", "stopping", "ended"}]
          /\ logger \in [Streams -> {"none", "listening", "holding", "ended"}]
      BY <1>0 DEF StreamTypes
    <3>2. request[s] = "new" => runner[s] = "none"
      BY <1>0, <2>1 DEF Ordered
    <3>3. CASE Printed(s) \/ Verdict(s)
      <4>1. /\ runner[s] \in {"printing", "verdict"} /\ logger' = logger
            /\ runner' \in {[runner EXCEPT ![s] = "running"], [runner EXCEPT ![s] = "stopping"]}
        BY <3>3 DEF Printed, Verdict, RunnerTo
      <4> QED BY <3>1, <3>2, <4>1
    <3>4. CASE LoggerPuts(s)
      <4>1. /\ logger[s] = "holding" /\ runner' = runner
            /\ logger' = [logger EXCEPT ![s] = "listening"]
        BY <3>4 DEF LoggerPuts
      <4> QED BY <3>1, <3>2, <4>1
    <3> QED BY <1>4, <3>3, <3>4
  <2>4. sseChan[s] \in Seq(HtmlType) /\ sseChan' = [sseChan EXCEPT ![s] = Append(sseChan[s], x)]
    BY <1>0, <2>2 DEF Put, StreamTypes
  <2>5. VerdictGiven(s)'
    <3>1. sseChan'[s] = Append(sseChan[s], x) /\ shown'[s] = shown[s]
      BY <1>0, <2>1, <2>4 DEF StreamTypes
    <3>2. CASE Verdict(s)
      <4>1. x = "verdict" /\ runner[s] = "verdict" /\ runner'[s] = "stopping"
        BY <1>0, <2>2, <3>2 DEF Verdict, RunnerTo, StreamTypes
      <4>2. shown[s] = 0 /\ NoVerdict(sseChan[s])
        BY <1>0, <4>1 DEF VerdictGiven
      <4>3. OneVerdict(sseChan'[s])
        BY <2>4, <3>1, <4>1, <4>2, AppendVerdicts
      <4>4. OneVerdict(sseChan[s])'
        BY <4>3 DEF OneVerdict
      <4> QED BY <3>1, <4>1, <4>2, <4>4 DEF VerdictGiven
    <3>3. CASE ~Verdict(s)
      <4>1. x # "verdict"
        BY <2>2, <3>3
      <4>2. runner'[s] \in {"stopping", "ended"} <=> runner[s] \in {"stopping", "ended"}
        BY <1>0, <1>4, <3>3 DEF Printed, LoggerPuts, RunnerTo, StreamTypes, appVars
      <4>3. /\ NoVerdict(sseChan[s]) => NoVerdict(sseChan'[s])
            /\ OneVerdict(sseChan[s]) => OneVerdict(sseChan'[s])
        BY <2>4, <3>1, <4>1, AppendVerdicts
      <4>4. /\ NoVerdict(sseChan[s]) => NoVerdict(sseChan[s])'
            /\ OneVerdict(sseChan[s]) => OneVerdict(sseChan[s])'
        BY <4>3 DEF NoVerdict, OneVerdict
      <4> QED BY <1>0, <3>1, <4>2, <4>4 DEF VerdictGiven
    <3> QED BY <3>2, <3>3
  <2>6. Ordered(s)'
    BY <1>0, <2>1, <2>3 DEF Ordered, StreamTypes
  <2>7. ASSUME NEW t \in Streams, t # s PROVE VerdictGiven(t)' /\ Ordered(t)'
    <3>1. sseChan'[t] = sseChan[t] /\ runner'[t] = runner[t] /\ logger'[t] = logger[t]
      BY <1>0, <2>3, <2>4, <2>7 DEF StreamTypes
    <3> QED BY <1>0, <2>1, <3>1, VerdictKept DEF Ordered, WorkersDone
  <2> QED BY <1>0, <2>5, <2>6, <2>7 DEF StreamInv
<1>5. ASSUME NEW s \in Streams, RunnerEnds(s) PROVE StreamInv'
  <2>1. /\ UNCHANGED <<request, logger, sseChan, closed, subs, shown>>
        /\ runner[s] = "stopping" /\ runner' = [runner EXCEPT ![s] = "ended"]
    BY <1>5 DEF RunnerEnds, RunnerTo, channels, counts
  <2>2. ASSUME NEW t \in Streams PROVE VerdictGiven(t)' /\ Ordered(t)'
    <3>1. runner'[t] = runner[t] \/ (t = s /\ runner'[t] = "ended")
      BY <1>0, <2>1 DEF StreamTypes
    <3> QED BY <1>0, <2>1, <3>1, VerdictKept DEF Ordered, WorkersDone
  <2> QED BY <1>0, <2>2 DEF StreamInv
<1>6. ASSUME NEW s \in Streams, PublishEntry(s) PROVE StreamInv'
  <2>1. UNCHANGED <<request, runner, logger, sseChan, closed, subs, shown>>
    BY <1>6 DEF PublishEntry, appVars, workers
  <2> QED BY <1>0, <2>1 DEF VerdictGiven, Ordered, WorkersDone, StreamInv
<1>7. ASSUME NEW s \in Streams, LoggerTakes(s) \/ LoggerEnds(s) PROVE StreamInv'
  <2>1. /\ UNCHANGED <<request, runner, sseChan, closed, shown>>
        /\ logger[s] = "listening"
        /\ \/ logger' = [logger EXCEPT ![s] = "holding"] /\ subs' = subs
           \/ logger' = [logger EXCEPT ![s] = "ended"] /\ subs' = subs \ {s}
    BY <1>7 DEF LoggerTakes, LoggerEnds, appVars, counts
  <2>2. ASSUME NEW t \in Streams PROVE VerdictGiven(t)' /\ Ordered(t)'
    <3>1. VerdictGiven(t)'
      BY <1>0, <2>1, VerdictKept
    <3>2. CASE t = s
      <4>1. ~closed[s]
        BY <1>0, <2>1 DEF Ordered, WorkersDone
      <4> QED BY <1>0, <2>1, <3>1, <3>2, <4>1 DEF Ordered, StreamTypes
    <3>3. CASE t # s
      BY <1>0, <2>1, <3>1, <3>3 DEF Ordered, WorkersDone, StreamTypes
    <3> QED BY <3>2, <3>3
  <2> QED BY <1>0, <2>2 DEF StreamInv
<1>8. ASSUME NEW s \in Streams, CloseChannel(s) PROVE StreamInv'
  <2>1. /\ UNCHANGED <<request, runner, logger, sseChan, subs, shown>>
        /\ WorkersDone(s) /\ closed' = [closed EXCEPT ![s] = TRUE]
    BY <1>8 DEF CloseChannel, appVars, workers, counts
  <2>2. ASSUME NEW t \in Streams PROVE VerdictGiven(t)' /\ Ordered(t)'
    <3>1. closed'[t] = closed[t] \/ (t = s /\ closed'[t])
      BY <1>0, <2>1 DEF StreamTypes
    <3> QED BY <1>0, <2>1, <3>1, VerdictKept DEF Ordered, WorkersDone
  <2> QED BY <1>0, <2>2 DEF StreamInv
<1>9. ASSUME NEW s \in Streams, Relay(s) PROVE StreamInv'
  <2>1. /\ UNCHANGED <<request, runner, logger, closed, subs>>
        /\ sseChan[s] \in Seq(HtmlType) /\ sseChan[s] # <<>> /\ request[s] = "open"
        /\ sseChan' = [sseChan EXCEPT ![s] = Tail(sseChan[s])]
        /\ shown' = [shown EXCEPT ![s] =
                       IF Head(sseChan[s]) = "verdict" THEN shown[s] + 1 ELSE shown[s]]
    BY <1>0, <1>9 DEF Relay, appVars, workers, StreamTypes
  <2>2. VerdictGiven(s)'
    <3>1. /\ sseChan'[s] = Tail(sseChan[s]) /\ runner'[s] = runner[s]
          /\ shown'[s] = IF Head(sseChan[s]) = "verdict" THEN shown[s] + 1 ELSE shown[s]
      BY <1>0, <2>1 DEF StreamTypes
    <3>2. /\ NoVerdict(sseChan[s]) => Head(sseChan[s]) # "verdict" /\ NoVerdict(sseChan'[s])
          /\ OneVerdict(sseChan[s]) =>
               IF Head(sseChan[s]) = "verdict" THEN NoVerdict(sseChan'[s])
               ELSE OneVerdict(sseChan'[s])
      BY <2>1, <3>1, TailVerdicts
    <3>3. NoVerdict(sseChan[s])' = NoVerdict(sseChan'[s]) /\ OneVerdict(sseChan[s])' = OneVerdict(sseChan'[s])
      BY DEF NoVerdict, OneVerdict
    <3> QED BY <1>0, <3>1, <3>2, <3>3 DEF VerdictGiven
  <2>3. Ordered(s)'
    BY <1>0, <2>1 DEF Ordered, WorkersDone
  <2>4. ASSUME NEW t \in Streams, t # s PROVE VerdictGiven(t)' /\ Ordered(t)'
    <3>1. sseChan'[t] = sseChan[t] /\ shown'[t] = shown[t]
      BY <1>0, <2>1, <2>4 DEF StreamTypes
    <3> QED BY <1>0, <2>1, <3>1, VerdictKept DEF Ordered, WorkersDone
  <2> QED BY <1>0, <2>2, <2>3, <2>4 DEF StreamInv
<1>10. ASSUME NEW s \in Streams, StreamEnds(s) \/ StreamLeft(s) \/ BrowserLeaves(s)
       PROVE  StreamInv'
  <2>1. /\ UNCHANGED <<runner, logger, sseChan, closed, subs, shown>>
        /\ request[s] = "open"
        /\ \/ request' = [request EXCEPT ![s] = "done"] /\ closed[s] /\ sseChan[s] = <<>>
           \/ request' = [request EXCEPT ![s] = "left"]
           \/ request' = request
    BY <1>10 DEF StreamEnds, StreamLeft, BrowserLeaves, workers, channels, counts
  <2>2. ASSUME NEW t \in Streams PROVE VerdictGiven(t)' /\ Ordered(t)'
    <3>1. \/ request'[t] = request[t]
          \/ request'[t] = "left"
          \/ request'[t] = "done" /\ closed[t] /\ sseChan[t] = <<>>
      BY <1>0, <2>1 DEF StreamTypes
    <3> QED BY <1>0, <2>1, <3>1, VerdictKept DEF Ordered, WorkersDone
  <2> QED BY <1>0, <2>2 DEF StreamInv
<1>11. CASE StreamQuiet \/ UNCHANGED streamVars
  <2>1. UNCHANGED <<request, runner, logger, sseChan, closed, subs, shown>>
    BY <1>11 DEF StreamQuiet, streamVars, appVars, workers, channels, counts
  <2> QED BY <1>0, <2>1 DEF VerdictGiven, Ordered, WorkersDone, StreamInv
<1> QED
  BY <1>1, <1>2, <1>3, <1>4, <1>5, <1>6, <1>7, <1>8, <1>9, <1>10, <1>11
  DEF StreamNext, Runner, Logger, Request

-----------------------------------------------------------------------------
(* The theorems. *)

LEMMA StreamInvHolds == StreamSpec => []StreamInv
BY InitStreamInv, NextStreamInv, PTL DEF StreamSpec

\* Type correctness of requests, goroutines and channels: in particular a script
\* has at most one verdict, whatever the logger and the relay do meanwhile.
THEOREM StreamTypeCorrect == StreamSpec => []StreamTypeOK
<1>1. StreamInv => StreamTypeOK
  <2> SUFFICES ASSUME StreamInv PROVE StreamTypeOK
    OBVIOUS
  <2>1. ASSUME NEW s \in Streams PROVE shown[s] \in 0..1
    <3>1. shown[s] = 0 \/ shown[s] = 1
      BY DEF StreamInv, VerdictGiven
    <3> QED BY <3>1
  <2>2. StreamTypes
    BY DEF StreamInv
  <2>3. shown \in [Streams -> 0..1]
    BY <2>1, <2>2 DEF StreamTypes
  <2> QED BY <2>2, <2>3 DEF StreamTypes, StreamTypeOK, HtmlType
<1> QED BY <1>1, StreamInvHolds, PTL

\* Nobody sends on a closed sseChan, for any number of streams: it is closed
\* only when runner and logger are through.
THEOREM ClosesWhenQuiet == StreamSpec => []ClosedWhenQuiet
<1>1. StreamInv => ClosedWhenQuiet
  BY DEF StreamInv, Ordered, WorkersDone, ClosedWhenQuiet
<1> QED BY <1>1, StreamInvHolds, PTL

\* A browser that is told that its script is done has been sent the verdict and
\* everything before it, and nothing of the script is left.
THEOREM DoneIsAll == StreamSpec => []DoneMeansAll
<1>1. StreamInv => DoneMeansAll
  <2> SUFFICES ASSUME StreamInv, NEW s \in Streams, request[s] = "done"
               PROVE  /\ shown[s] = 1 /\ sseChan[s] = <<>>
                      /\ runner[s] = "ended" /\ s \notin subs
    BY DEF DoneMeansAll
  <2>1. sseChan[s] = <<>> /\ runner[s] = "ended" /\ logger[s] \in {"none", "ended"}
    BY DEF StreamInv, Ordered, WorkersDone
  <2>2. ~OneVerdict(sseChan[s])
    BY <2>1 DEF OneVerdict
  <2> QED BY <2>1, <2>2 DEF StreamInv, VerdictGiven, Ordered
<1> QED BY <1>1, StreamInvHolds, PTL

-----------------------------------------------------------------------------
(* The inductive invariant. *)

Types ==
  /\ state \in States /\ due \in Seq(States \cup {"close", "queue"})
  /\ runAt \in {"new", "running", "storing", "requesting", "ending", "closing", "ended"}
  /\ sockDone \in BOOLEAN /\ closeAsked \in BOOLEAN /\ ended \in BOOLEAN
  /\ requests \in Seq(Scripts \cup {"close"})
  /\ tomb \in {"none", "Closed"}
  /\ tappers \subseteq Scripts
  /\ tap \in [Scripts -> Seq(Entries)]
  /\ heard \in [Scripts -> Seq(Msgs)] /\ lost \in [Scripts -> BOOLEAN]
  /\ cmd \in [Scripts -> CommandType]
  /\ at \in [Scripts -> {"idle", "subscribe", "check", "asked", "waiting"}]
  /\ orElse \in [Scripts -> {"waiting", "failed", "falsy"}]
  /\ how \in [Scripts -> {"none", "ok", "falsy", "failed"}]
  /\ reached \in [Scripts -> BOOLEAN]
  /\ buffer \in Msgs \cup {"empty"}

\* A session whose run loop left is closed, and so is its socket; only then is
\* there a tombstone.
RunOrder ==
  /\ runAt = "new" => state = "New"
  /\ runAt \notin {"new", "running"} => state = "Closed" /\ sockDone
  /\ tomb # "none" => sockDone

\* A script at rest listens to nothing; only a waitstatus asks for snapshots.
Places ==
  \A s \in Scripts :
    /\ Len(tap[s]) <= TapCap
    /\ at[s] = "idle" => s \notin tappers /\ tap[s] = <<>> /\ heard[s] = <<>>
    /\ at[s] \in {"check", "asked"} => cmd[s].do = "waitstatus"

\* Whatever can tell a waitstatus that its state is there, the state itself, an
\* entry still to be logged or one in its channel, is true.
Tellable(s) ==
  {state} \cup Elements(due) \cup {st \in States : Tran(st) \in Elements(tap[s])}
Told == \A s \in Scripts : cmd[s].do = "waitstatus" /\ cmd[s].for \in Tellable(s) => reached[s]

\* The received messages in a channel are messages heard, in the order in which
\* they were; one that is not in the channel was passed over, or dropped.
RecvAt(q) == {i \in DOMAIN q : q[i].type = "RECV"}
PassedOver(c, m) == m \notin c.for /\ (c.do = "expect" => m \in Lenient)
Traces(f, c, q, h, l) ==
  /\ f \in [RecvAt(q) -> DOMAIN h]
  /\ \A i \in RecvAt(q) : h[f[i]] = q[i].msg
  /\ \A i, j \in RecvAt(q) : i < j => f[i] < f[j]
  /\ l \/ \A n \in DOMAIN h : PassedOver(c, h[n]) \/ \E i \in RecvAt(q) : f[i] = n
Traced(c, q, h, l) == \E f \in [RecvAt(q) -> DOMAIN h] : Traces(f, c, q, h, l)
Kept == \A s \in Scripts : cmd[s].do # "waitstatus" => Traced(cmd[s], tap[s], heard[s], lost[s])

WaitInv == Types /\ RunOrder /\ Places /\ Told /\ Kept

-----------------------------------------------------------------------------
(* Channels and what was heard. *)

LEMMA AppendFacts ==
  ASSUME NEW S, NEW q \in Seq(S), NEW e \in S
  PROVE  /\ Append(q, e) \in Seq(S) /\ Len(q) \in Nat /\ Len(Append(q, e)) = Len(q) + 1
         /\ DOMAIN q = 1..Len(q) /\ DOMAIN Append(q, e) = 1..(Len(q) + 1)
         /\ \A i \in 1..Len(q) : Append(q, e)[i] = q[i]
         /\ Append(q, e)[Len(q) + 1] = e
OBVIOUS

LEMMA TailFacts ==
  ASSUME NEW S, NEW q \in Seq(S), q # <<>>
  PROVE  /\ Tail(q) \in Seq(S) /\ Len(q) \in Nat \ {0} /\ Len(Tail(q)) = Len(q) - 1
         /\ DOMAIN q = 1..Len(q) /\ DOMAIN Tail(q) = 1..(Len(q) - 1)
         /\ \A i \in 1..(Len(q) - 1) : Tail(q)[i] = q[i + 1]
         /\ Head(q) = q[1] /\ Head(q) \in S
<1>1. /\ Tail(q) \in Seq(S) /\ Len(q) \in Nat \ {0} /\ Len(Tail(q)) = Len(q) - 1
      /\ Head(q) = q[1] /\ Head(q) \in S
  OBVIOUS
<1>2. \A i \in 1..(Len(q) - 1) : Tail(q)[i] = q[i + 1]
  OBVIOUS
<1>3. DOMAIN q = 1..Len(q) /\ DOMAIN Tail(q) = 1..Len(Tail(q))
  BY <1>1
<1> QED BY <1>1, <1>2, <1>3

\* Elements of a queue to which one is added, or whose head is taken.
LEMMA AppendElements ==
  ASSUME NEW S, NEW q \in Seq(S), NEW e \in S
  PROVE  Elements(Append(q, e)) = Elements(q) \cup {e}
<1>1. \A i \in 1..Len(q) : Append(q, e)[i] = q[i]
  BY AppendFacts
<1>2. /\ DOMAIN Append(q, e) = 1..(Len(q) + 1) /\ DOMAIN q = 1..Len(q)
      /\ Len(q) \in Nat /\ Append(q, e)[Len(q) + 1] = e
  BY AppendFacts
<1> QED BY <1>1, <1>2 DEF Elements

LEMMA TailElements ==
  ASSUME NEW S, NEW q \in Seq(S), q # <<>>
  PROVE  Elements(Tail(q)) \subseteq Elements(q) /\ Head(q) \in Elements(q)
<1>1. \A i \in 1..(Len(q) - 1) : Tail(q)[i] = q[i + 1] /\ i + 1 \in 1..Len(q)
  BY TailFacts
<1>2. /\ Len(q) \in Nat \ {0} /\ DOMAIN q = 1..Len(q) /\ DOMAIN Tail(q) = 1..(Len(q) - 1)
      /\ Head(q) = q[1] /\ 1 \in 1..Len(q)
  BY TailFacts
<1> QED BY <1>1, <1>2 DEF Elements

\* A command that begins, or has ended, has heard nothing.
LEMMA TracedEmpty ==
  ASSUME NEW c, NEW l
  PROVE  Traced(c, <<>>, <<>>, l)
<1>1. RecvAt(<<>>) = {} /\ DOMAIN <<>> = {}
  BY DEF RecvAt
<1>2. [i \in {} |-> 1] \in [RecvAt(<<>>) -> DOMAIN <<>>]
  BY <1>1
<1>3. Traces([i \in {} |-> 1], c, <<>>, <<>>, l)
  BY <1>1, <1>2 DEF Traces
<1> QED BY <1>2, <1>3 DEF Traced

\* A message is received, and the channel has room.
LEMMA TracedHeard ==
  ASSUME NEW S, NEW M, NEW c, NEW q \in Seq(S), NEW h \in Seq(M), NEW l,
         NEW e \in S, e.type = "RECV", e.msg \in M, Traced(c, q, h, l)
  PROVE  Traced(c, Append(q, e), Append(h, e.msg), l)
<1> DEFINE r == Append(q, e)
           g == Append(h, e.msg)
<1>1. /\ Len(q) \in Nat /\ DOMAIN q = 1..Len(q) /\ DOMAIN r = 1..(Len(q) + 1)
      /\ r[Len(q) + 1] = e
  BY AppendFacts
<1>2. \A i \in 1..Len(q) : r[i] = q[i]
  BY AppendFacts
<1>3. /\ Len(h) \in Nat /\ DOMAIN h = 1..Len(h) /\ DOMAIN g = 1..(Len(h) + 1)
      /\ g[Len(h) + 1] = e.msg
  BY AppendFacts
<1>4. \A i \in 1..Len(h) : g[i] = h[i]
  BY AppendFacts
<1> HIDE DEF r, g
<1>5. RecvAt(r) = RecvAt(q) \cup {Len(q) + 1} /\ RecvAt(q) \subseteq 1..Len(q)
  BY <1>1, <1>2 DEF RecvAt
<1>6. PICK f \in [RecvAt(q) -> DOMAIN h] : Traces(f, c, q, h, l)
  BY DEF Traced
<1> DEFINE k == [i \in RecvAt(r) |-> IF i = Len(q) + 1 THEN Len(h) + 1 ELSE f[i]]
<1>7. k[Len(q) + 1] = Len(h) + 1 /\ \A i \in RecvAt(q) : k[i] = f[i] /\ f[i] \in 1..Len(h)
  BY <1>1, <1>3, <1>5, <1>6
<1>8. k \in [RecvAt(r) -> DOMAIN g]
  BY <1>3, <1>5, <1>7
<1> HIDE DEF k
<1>9. \A i \in RecvAt(r) : g[k[i]] = r[i].msg
  BY <1>1, <1>2, <1>3, <1>4, <1>5, <1>6, <1>7 DEF Traces
<1>10. ASSUME NEW i \in RecvAt(r), NEW j \in RecvAt(r), i < j PROVE k[i] < k[j]
  <2>1. i \in RecvAt(q)
    BY <1>1, <1>5, <1>10
  <2> QED BY <1>1, <1>3, <1>5, <1>6, <1>7, <1>10, <2>1 DEF Traces
<1>11. l \/ \A n \in DOMAIN g : PassedOver(c, g[n]) \/ \E i \in RecvAt(r) : k[i] = n
  <2> SUFFICES ASSUME ~l, NEW n \in 1..(Len(h) + 1)
               PROVE  PassedOver(c, g[n]) \/ \E i \in RecvAt(r) : k[i] = n
    BY <1>3
  <2>1. CASE n = Len(h) + 1
    BY <1>5, <1>7, <2>1
  <2>2. CASE n \in 1..Len(h)
    <3>1. PassedOver(c, h[n]) \/ \E i \in RecvAt(q) : f[i] = n
      BY <1>3, <1>6, <2>2 DEF Traces
    <3> QED BY <1>4, <1>5, <1>7, <2>2, <3>1
  <2> QED BY <1>3, <2>1, <2>2
<1>12. Traces(k, c, r, g, l)
  BY <1>8, <1>9, <1>10, <1>11 DEF Traces
<1> QED BY <1>8, <1>12 DEF Traced, r, g

\* A message is received and dropped.
LEMMA TracedLost ==
  ASSUME NEW M, NEW c, NEW q, NEW h \in Seq(M), NEW l, NEW m \in M, Traced(c, q, h, l)
  PROVE  Traced(c, q, Append(h, m), TRUE)
<1> DEFINE g == Append(h, m)
<1>1. /\ Len(h) \in Nat /\ DOMAIN h = 1..Len(h) /\ DOMAIN g = 1..(Len(h) + 1)
  BY AppendFacts
<1>2. \A i \in 1..Len(h) : g[i] = h[i]
  BY AppendFacts
<1> HIDE DEF g
<1>3. PICK f \in [RecvAt(q) -> DOMAIN h] : Traces(f, c, q, h, l)
  BY DEF Traced
<1>4. f \in [RecvAt(q) -> DOMAIN g]
  BY <1>1, <1>3
<1>5. Traces(f, c, q, g, TRUE)
  BY <1>1, <1>2, <1>3, <1>4 DEF Traces
<1> QED BY <1>4, <1>5 DEF Traced, g

\* Any other entry.
LEMMA TracedOther ==
  ASSUME NEW S, NEW c, NEW q \in Seq(S), NEW h, NEW l, NEW e \in S,
         e.type # "RECV", Traced(c, q, h, l)
  PROVE  Traced(c, Append(q, e), h, l)
<1> DEFINE r == Append(q, e)
<1>1. /\ Len(q) \in Nat /\ DOMAIN q = 1..Len(q) /\ DOMAIN r = 1..(Len(q) + 1)
      /\ r[Len(q) + 1] = e
  BY AppendFacts
<1>2. \A i \in 1..Len(q) : r[i] = q[i]
  BY AppendFacts
<1> HIDE DEF r
<1>3. RecvAt(r) = RecvAt(q) /\ \A i \in RecvAt(q) : r[i] = q[i]
  BY <1>1, <1>2 DEF RecvAt
<1>4. PICK f \in [RecvAt(q) -> DOMAIN h] : Traces(f, c, q, h, l)
  BY DEF Traced
<1>5. Traces(f, c, r, h, l)
  BY <1>3, <1>4 DEF Traces
<1> QED BY <1>3, <1>4, <1>5 DEF Traced, r

\* The head is taken and passed over.
LEMMA TracedSkip ==
  ASSUME NEW S, NEW M, NEW c, NEW q \in Seq(S), NEW h \in Seq(M), NEW l, q # <<>>,
         Head(q).type = "RECV" => PassedOver(c, Head(q).msg), Traced(c, q, h, l)
  PROVE  Traced(c, Tail(q), h, l)
<1> DEFINE r == Tail(q)
<1>1. /\ Len(q) \in Nat \ {0} /\ DOMAIN q = 1..Len(q) /\ DOMAIN r = 1..(Len(q) - 1)
      /\ Head(q) = q[1]
  BY TailFacts
<1>2. \A i \in 1..(Len(q) - 1) : r[i] = q[i + 1]
  BY TailFacts
<1> HIDE DEF r
<1>3. \A i \in RecvAt(r) : i \in Nat /\ i + 1 \in RecvAt(q) /\ r[i] = q[i + 1]
  BY <1>1, <1>2 DEF RecvAt
<1>4. \A i \in RecvAt(q) : i = 1 \/ (i - 1 \in RecvAt(r) /\ i = (i - 1) + 1)
  BY <1>1, <1>2 DEF RecvAt
<1>5. PICK f \in [RecvAt(q) -> DOMAIN h] : Traces(f, c, q, h, l)
  BY DEF Traced
<1> DEFINE k == [i \in RecvAt(r) |-> f[i + 1]]
<1>6. k \in [RecvAt(r) -> DOMAIN h] /\ \A i \in RecvAt(r) : k[i] = f[i + 1]
  BY <1>3, <1>5
<1> HIDE DEF k
<1>7. \A i \in RecvAt(r) : h[k[i]] = r[i].msg
  BY <1>3, <1>5, <1>6 DEF Traces
<1>8. \A i, j \in RecvAt(r) : i < j => k[i] < k[j]
  BY <1>3, <1>5, <1>6 DEF Traces
<1>9. l \/ \A n \in DOMAIN h : PassedOver(c, h[n]) \/ \E i \in RecvAt(r) : k[i] = n
  <2> SUFFICES ASSUME ~l, NEW n \in DOMAIN h, NEW i \in RecvAt(q), f[i] = n
               PROVE  PassedOver(c, h[n]) \/ \E j \in RecvAt(r) : k[j] = n
    BY <1>5 DEF Traces
  <2>1. CASE i = 1
    BY <1>1, <1>5, <2>1 DEF Traces, RecvAt
  <2>2. CASE i - 1 \in RecvAt(r) /\ i = (i - 1) + 1
    BY <1>6, <2>2
  <2> QED BY <1>4, <2>1, <2>2
<1>10. Traces(k, c, r, h, l)
  BY <1>6, <1>7, <1>8, <1>9 DEF Traces
<1> QED BY <1>6, <1>10 DEF Traced, r

\* The head is a message that counts: it was heard, and unless one was dropped,
\* nothing that counts was heard before it.
LEMMA TracedHit ==
  ASSUME NEW S, NEW M, NEW c, NEW q \in Seq(S), NEW h \in Seq(M), NEW l, q # <<>>,
         Head(q).type = "RECV", Traced(c, q, h, l)
  PROVE  \E n \in DOMAIN h :
           /\ h[n] = Head(q).msg
           /\ l \/ \A j \in 1..(n - 1) : PassedOver(c, h[j])
<1>1. /\ Len(q) \in Nat \ {0} /\ DOMAIN q = 1..Len(q) /\ Head(q) = q[1]
      /\ Len(h) \in Nat /\ DOMAIN h = 1..Len(h)
  BY TailFacts
<1>2. 1 \in RecvAt(q) /\ RecvAt(q) \subseteq 1..Len(q)
  BY <1>1 DEF RecvAt
<1>3. PICK f \in [RecvAt(q) -> DOMAIN h] : Traces(f, c, q, h, l)
  BY DEF Traced
<1>4. f[1] \in 1..Len(h) /\ h[f[1]] = Head(q).msg
  BY <1>1, <1>2, <1>3 DEF Traces
<1>5. ASSUME ~l, NEW j \in 1..(f[1] - 1) PROVE PassedOver(c, h[j])
  <2>1. j \in 1..Len(h) /\ j < f[1]
    BY <1>1, <1>4
  <2>2. ASSUME NEW i \in RecvAt(q), f[i] = j PROVE FALSE
    <3>1. i = 1 \/ 1 < i
      BY <1>1, <1>2
    <3>2. CASE i = 1
      BY <1>4, <2>1, <2>2, <3>2
    <3>3. CASE 1 < i
      <4>1. f[1] < f[i]
        BY <1>2, <1>3, <3>3 DEF Traces
      <4> QED BY <1>4, <2>1, <2>2, <4>1
    <3> QED BY <3>1, <3>2, <3>3
  <2> QED BY <1>1, <1>3, <1>5, <2>1, <2>2 DEF Traces
<1> QED BY <1>1, <1>4, <1>5

-----------------------------------------------------------------------------
(* What a step does to the session. *)

SessionTypes ==
  /\ state \in States /\ due \in Seq(States \cup {"close", "queue"})
  /\ runAt \in {"new", "running", "storing", "requesting", "ending", "closing", "ended"}
  /\ sockDone \in BOOLEAN /\ closeAsked \in BOOLEAN /\ ended \in BOOLEAN
  /\ requests \in Seq(Scripts \cup {"close"})
  /\ tomb \in {"none", "Closed"}
TapTypes ==
  /\ tappers \subseteq Scripts
  /\ tap \in [Scripts -> Seq(Entries)]
  /\ heard \in [Scripts -> Seq(Msgs)] /\ lost \in [Scripts -> BOOLEAN]
JobTypes ==
  /\ cmd \in [Scripts -> CommandType]
  /\ at \in [Scripts -> {"idle", "subscribe", "check", "asked", "waiting"}]
  /\ orElse \in [Scripts -> {"waiting", "failed", "falsy"}]
  /\ how \in [Scripts -> {"none", "ok", "falsy", "failed"}]
  /\ reached \in [Scripts -> BOOLEAN]
  /\ buffer \in Msgs \cup {"empty"}

LEMMA TypesParts == Types <=> SessionTypes /\ TapTypes /\ JobTypes
BY DEF Types, SessionTypes, TapTypes, JobTypes

LEMMA TypesPartsNext == SessionTypes' /\ TapTypes' /\ JobTypes' => Types'
BY DEF Types, SessionTypes, TapTypes, JobTypes

LEMMA EntryFacts ==
  /\ \A m \in Msgs : Recv(m) \in Entries
  /\ \A m \in Outgoing : Sent(m) \in Entries
  /\ \A st \in States : Tran(st) \in Entries /\ Tran(st).type = "TRAN"
  /\ \A e \in Entries : e.type = "RECV" => e.msg \in Msgs
  /\ \A m : Recv(m).type = "RECV" /\ Sent(m).type = "SEND"
<1>1. /\ \A m \in Msgs : Recv(m) \in Entries
      /\ \A m \in Outgoing : Sent(m) \in Entries
      /\ \A st \in States : Tran(st) \in Entries
  BY DEF Entries
<1>2. ASSUME NEW e \in Entries, e.type = "RECV" PROVE e.msg \in Msgs
  <2>1. CASE \E m \in Msgs : e = Recv(m)
    BY <2>1 DEF Recv
  <2>2. CASE \E m \in Outgoing : e = Sent(m)
    BY <1>2, <2>2 DEF Sent
  <2>3. CASE \E st \in States : e = Tran(st)
    BY <1>2, <2>3 DEF Tran
  <2> QED BY <2>1, <2>2, <2>3 DEF Entries
<1>3. /\ \A st \in States : Tran(st).type = "TRAN"
      /\ \A m : Recv(m).type = "RECV" /\ Sent(m).type = "SEND"
  BY DEF Recv, Sent, Tran
<1> QED BY <1>1, <1>2, <1>3

\* What React may be given: only what was passed is logged.
Reaction(r) ==
  /\ r.passes \in Seq(States) /\ r.does \in Seq(States \cup {"close"})
  /\ \A i \in DOMAIN r.does : r.does[i] = "close" \/ \E j \in DOMAIN r.passes : r.passes[j] = r.does[i]

LEMMA ReactionFacts ==
  /\ \A r \in OnStart \cup OnMessage \cup OnTick : Reaction(r)
  /\ Reaction([passes |-> <<"Closed">>, does |-> <<>>])
<1>1. /\ <<"Closed">> \in Seq(States) /\ <<>> \in Seq(States \cup {"close"})
      /\ DOMAIN <<>> = {}
  BY DEF States
<1> QED BY <1>1, ReactionsAssumption, TransitionAssumption DEF Reaction

LEMMA ReactTypes ==
  ASSUME Types, NEW r, Reaction(r), React(r)
  PROVE  /\ state' \in States /\ due' \in Seq(States \cup {"close", "queue"})
         /\ reached' \in [Scripts -> BOOLEAN]
<1>1. r.passes # <<>> => r.passes[Len(r.passes)] \in States
  BY DEF Reaction
<1>2. r.does \in Seq(States \cup {"close", "queue"})
  BY DEF Reaction
<1>3. reached' \in [Scripts -> BOOLEAN]
  <2>1. \A s \in Scripts : reached'[s] \in BOOLEAN
    BY DEF React, Types
  <2> QED BY <2>1 DEF React
<1> QED BY <1>1, <1>2, <1>3 DEF React, Types

LEMMA ClosesTypes ==
  ASSUME Types, NEW r, React([passes |-> <<"Closed">>, does |-> <<>>])
  PROVE  state' = "Closed"
<1>1. <<"Closed">> # <<>> /\ <<"Closed">>[Len(<<"Closed">>)] = "Closed"
  OBVIOUS
<1> QED BY <1>1 DEF React

LEMMA QueueTypes ==
  ASSUME Types
  PROVE  /\ QueueClose => requests' \in Seq(Scripts \cup {"close"})
         /\ \A s \in Scripts \cup {"close"} : Append(requests, s) \in Seq(Scripts \cup {"close"})
         /\ requests # <<>> => Tail(requests) \in Seq(Scripts \cup {"close"})
<1>1. requests \in Seq(Scripts \cup {"close"})
  BY DEF Types
<1>2. /\ \A s \in Scripts \cup {"close"} : Append(requests, s) \in Seq(Scripts \cup {"close"})
      /\ requests # <<>> => Tail(requests) \in Seq(Scripts \cup {"close"})
  BY <1>1
<1> QED BY <1>1, <1>2 DEF QueueClose

LEMMA LogTypes ==
  ASSUME Types, Places, NEW e \in Entries, LogEntry(e)
  PROVE  TapTypes' /\ \A s \in Scripts : Len(tap'[s]) <= TapCap
<1>1. ASSUME NEW s \in Scripts
      PROVE  /\ tap'[s] \in Seq(Entries) /\ Len(tap'[s]) <= TapCap
             /\ heard'[s] \in Seq(Msgs) /\ lost'[s] \in BOOLEAN
  <2>1. tap[s] \in Seq(Entries) /\ Len(tap[s]) \in Nat /\ TapCap \in Nat /\ Len(tap[s]) <= TapCap
    BY MsgsAssumption DEF Types, Places
  <2>2. Append(tap[s], e) \in Seq(Entries) /\ Len(Append(tap[s], e)) = Len(tap[s]) + 1
    BY <2>1
  <2>3. tap'[s] = (IF Fits(s) THEN Append(tap[s], e) ELSE tap[s])
    BY DEF LogEntry
  <2>4. tap'[s] \in Seq(Entries) /\ Len(tap'[s]) <= TapCap
    BY <2>1, <2>2, <2>3 DEF Fits
  <2>5. e.type = "RECV" => Append(heard[s], e.msg) \in Seq(Msgs)
    BY EntryFacts DEF Types
  <2>6. heard'[s] \in Seq(Msgs)
    BY <2>5 DEF LogEntry, Types
  <2>7. lost'[s] \in BOOLEAN
    BY DEF LogEntry, Types
  <2> QED BY <2>4, <2>6, <2>7
<1>2. tap' \in [Scripts -> Seq(Entries)] /\ heard' \in [Scripts -> Seq(Msgs)]
  BY <1>1 DEF LogEntry
<1>3. lost' \in [Scripts -> BOOLEAN]
  BY <1>1 DEF LogEntry
<1> QED BY <1>1, <1>2, <1>3 DEF LogEntry, TapTypes, Types

\* How a step of the session, or of whoever closes it, may touch the scripts:
\* the engine reacts, or execute goes on with what there is to do; an entry is
\* logged, of a transition only if it is due, or the subscriptions end.
Reacted ==
  \/ \E r : Reaction(r) /\ React(r)
  \/ UNCHANGED <<state, reached>> /\ Elements(due') \subseteq Elements(due) \cup {"queue"}
Logged ==
  \/ \E e \in Entries :
       LogEntry(e) /\ \A st \in States : e = Tran(st) => st \in Elements(due)
  \/ UNCHANGED <<tap, heard, lost>> /\ tappers' \subseteq tappers

SessionStep ==
  \/ StartRun \/ Tick \/ SocketEnds \/ Disconnect \/ Disconnected \/ RunLoop
  \/ \E m \in Msgs : Receive(m)
  \/ \E m \in Outgoing : SentOne(m)

LEMMA SessionEffect ==
  ASSUME Types, RunOrder, SessionStep
  PROVE  /\ SessionTypes' /\ RunOrder' /\ Reacted /\ Logged
         /\ UNCHANGED <<cmd, orElse, at, how, buffer>>
         /\ reached' \in [Scripts -> BOOLEAN]
<1> DEFINE Goal == /\ SessionTypes' /\ RunOrder' /\ Reacted /\ Logged
                   /\ UNCHANGED <<cmd, orElse, at, how, buffer>>
                   /\ reached' \in [Scripts -> BOOLEAN]
<1>0. SessionTypes /\ TapTypes /\ JobTypes
  BY TypesParts
<1>1. CASE StartRun
  <2>1. PICK r \in OnStart : React(r)
    BY <1>1 DEF StartRun
  <2>2. Reaction(r)
    BY ReactionFacts
  <2>3. /\ state' \in States /\ due' \in Seq(States \cup {"close", "queue"})
        /\ reached' \in [Scripts -> BOOLEAN]
    BY <2>1, <2>2, ReactTypes
  <2>4. /\ runAt = "new" /\ runAt' = "running"
        /\ UNCHANGED <<sockDone, closeAsked, requests, ended, tomb, tapVars, scriptVars>>
    BY <1>1 DEF StartRun
  <2>5. Reacted /\ Logged
    BY <2>1, <2>2, <2>4 DEF Reacted, Logged, tapVars
  <2>6. SessionTypes'
    BY <1>0, <2>3, <2>4 DEF SessionTypes
  <2>7. RunOrder'
    BY <2>4 DEF RunOrder
  <2> QED BY <2>3, <2>4, <2>5, <2>6, <2>7 DEF scriptVars
<1>2. CASE Tick \/ \E m \in Msgs : Receive(m)
  <2>1. PICK r \in OnMessage \cup OnTick : React(r)
    BY <1>2 DEF Tick, Receive
  <2>2. Reaction(r)
    BY ReactionFacts
  <2>3. /\ state' \in States /\ due' \in Seq(States \cup {"close", "queue"})
        /\ reached' \in [Scripts -> BOOLEAN]
    BY <2>1, <2>2, ReactTypes
  <2>4. /\ runAt = "running"
        /\ UNCHANGED <<runAt, sockDone, closeAsked, requests, ended, tomb, scriptVars>>
    BY <1>2 DEF Tick, Receive, InRun
  <2>5. Logged
    <3>1. CASE Tick
      BY <3>1 DEF Tick, Logged, tapVars
    <3>2. ASSUME NEW m \in Msgs, Receive(m) PROVE Logged
      <4>1. LogEntry(Recv(m)) /\ Recv(m) \in Entries /\ \A st \in States : Recv(m) # Tran(st)
        BY <3>2, EntryFacts DEF Receive, Recv, Tran
      <4> QED BY <4>1 DEF Logged
    <3> QED BY <1>2, <3>1, <3>2
  <2>6. SessionTypes'
    BY <1>0, <2>3, <2>4 DEF SessionTypes
  <2>7. RunOrder'
    BY <2>4 DEF RunOrder
  <2>8. Reacted
    BY <2>1, <2>2 DEF Reacted
  <2> QED BY <2>3, <2>4, <2>5, <2>6, <2>7, <2>8 DEF scriptVars
<1>3. ASSUME NEW m \in Outgoing, SentOne(m) PROVE Goal
  <2>1. LogEntry(Sent(m)) /\ Sent(m) \in Entries /\ \A st \in States : Sent(m) # Tran(st)
    BY <1>3, EntryFacts DEF SentOne, Sent, Tran
  <2>2. UNCHANGED <<sessionVars, scriptVars, reached>>
    BY <1>3 DEF SentOne
  <2>3. Reacted /\ Logged
    BY <2>1, <2>2 DEF Reacted, Logged, sessionVars
  <2>4. SessionTypes' /\ RunOrder'
    BY <1>0, <2>2 DEF SessionTypes, RunOrder, sessionVars
  <2> QED BY <1>0, <2>2, <2>3, <2>4 DEF scriptVars, JobTypes
<1>4. CASE SocketEnds \/ Disconnect \/ Disconnected \/ ApplyStale
  <2>1. /\ UNCHANGED <<state, due, runAt, ended, tomb, tapVars, scriptVars, reached>>
        /\ (sockDone' = sockDone \/ sockDone' = TRUE)
        /\ (closeAsked' = closeAsked \/ closeAsked' = TRUE)
    BY <1>4 DEF SocketEnds, Disconnect, Disconnected, ApplyStale
  <2>2. requests' \in Seq(Scripts \cup {"close"})
    BY <1>0, <1>4, QueueTypes DEF SocketEnds, Disconnect, Disconnected, ApplyStale, SessionTypes
  <2>3. SessionTypes' /\ RunOrder'
    <3>1. SessionTypes'
      BY <1>0, <2>1, <2>2 DEF SessionTypes
    <3>2. RunOrder'
      BY <2>1 DEF RunOrder
    <3> QED BY <3>1, <3>2
  <2>4. Reacted /\ Logged
    BY <2>1 DEF Reacted, Logged, tapVars
  <2> QED BY <1>0, <2>1, <2>3, <2>4 DEF scriptVars, JobTypes
<1>5. CASE Execute
  <2>1. /\ UNCHANGED <<state, runAt, sockDone, ended, tomb, scriptVars, reached>>
        /\ runAt = "running" /\ due # <<>>
        /\ (closeAsked' = closeAsked \/ closeAsked' = TRUE)
    BY <1>5 DEF Execute
  <2>2. Head(due) \in States \cup {"close", "queue"} /\ Tail(due) \in Seq(States \cup {"close", "queue"})
    BY <1>0, <2>1 DEF SessionTypes
  <2>3. Elements(Tail(due)) \subseteq Elements(due) /\ Head(due) \in Elements(due)
    BY <1>0, <2>1, TailElements DEF SessionTypes
  <2>4. due' \in {Tail(due), <<"queue">> \o Tail(due)}
    BY <1>5 DEF Execute
  <2>5. /\ <<"queue">> \o Tail(due) \in Seq(States \cup {"close", "queue"})
        /\ Elements(<<"queue">> \o Tail(due)) \subseteq Elements(Tail(due)) \cup {"queue"}
    <3> DEFINE q == Tail(due)
               r == <<"queue">> \o q
    <3>1. r \in Seq(States \cup {"close", "queue"}) /\ Len(r) = Len(q) + 1 /\ Len(q) \in Nat
      BY <2>2
    <3>2. \A i \in 1..Len(r) : r[i] = IF i = 1 THEN "queue" ELSE q[i - 1]
      BY <2>2
    <3>3. DOMAIN q = 1..Len(q) /\ DOMAIN r = 1..Len(r)
      BY <2>2, <3>1
    <3> HIDE DEF q, r
    <3>4. \A i \in 1..Len(r) : i = 1 \/ i - 1 \in 1..Len(q)
      BY <3>1
    <3> QED BY <3>1, <3>2, <3>3, <3>4 DEF Elements, q, r
  <2>6. SessionTypes'
    <3>1. due' \in Seq(States \cup {"close", "queue"})
      BY <2>2, <2>4, <2>5
    <3>2. requests' \in Seq(Scripts \cup {"close"})
      BY <1>0, <1>5, QueueTypes DEF Execute, SessionTypes
    <3> QED BY <1>0, <2>1, <3>1, <3>2 DEF SessionTypes
  <2>7. RunOrder'
    BY <2>1 DEF RunOrder
  <2>8. Reacted
    <3>1. Elements(due') \subseteq Elements(due) \cup {"queue"}
      BY <2>3, <2>4, <2>5
    <3> QED BY <2>1, <3>1 DEF Reacted
  <2>9. Logged
    <3>1. CASE Head(due) \in {"close", "queue"}
      <4>1. UNCHANGED tapVars
        BY <1>5, <3>1 DEF Execute
      <4> QED BY <4>1 DEF Logged, tapVars
    <3>2. CASE Head(due) \notin {"close", "queue"}
      <4>1. LogEntry(Tran(Head(due))) /\ Head(due) \in States
        BY <1>5, <2>2, <3>2 DEF Execute
      <4>2. Tran(Head(due)) \in Entries
        BY <4>1, EntryFacts
      <4>3. \A st \in States : Tran(Head(due)) = Tran(st) => st \in Elements(due)
        BY <2>3 DEF Tran
      <4> QED BY <4>1, <4>2, <4>3 DEF Logged
    <3> QED BY <3>1, <3>2
  <2> QED BY <1>0, <2>1, <2>6, <2>7, <2>8, <2>9 DEF scriptVars, JobTypes
<1>6. CASE ApplyClose \/ LeaveLoop
  <2> DEFINE r == [passes |-> <<"Closed">>, does |-> <<>>]
  <2>1. React(r) /\ Reaction(r) /\ state' = "Closed"
    BY <1>6, ReactionFacts, ClosesTypes DEF ApplyClose, LeaveLoop
  <2>2. /\ state' \in States /\ due' \in Seq(States \cup {"close", "queue"})
        /\ reached' \in [Scripts -> BOOLEAN]
    BY <2>1, ReactTypes
  <2>3. Reacted
    BY <2>1 DEF Reacted
  <2> HIDE DEF r
  <2>4. /\ UNCHANGED <<closeAsked, ended, tomb, tapVars, scriptVars>>
        /\ runAt = "running"
        /\ (runAt' = runAt \/ (runAt' = "storing" /\ sockDone' = sockDone /\ sockDone))
        /\ (sockDone' = sockDone \/ sockDone' = TRUE)
    BY <1>6 DEF ApplyClose, LeaveLoop, InRun
  <2>5. requests' \in Seq(Scripts \cup {"close"})
    BY <1>0, <1>6, QueueTypes DEF ApplyClose, LeaveLoop, SessionTypes
  <2>6. SessionTypes'
    BY <1>0, <2>2, <2>4, <2>5 DEF SessionTypes
  <2>7. RunOrder'
    BY <2>1, <2>4 DEF RunOrder
  <2>8. Logged
    BY <2>4 DEF Logged, tapVars
  <2> QED BY <2>2, <2>3, <2>4, <2>6, <2>7, <2>8 DEF scriptVars
<1>7. CASE StoreTomb \/ SetRequested \/ SetClosed \/ CloseTaps
  <2>1. /\ UNCHANGED <<state, due, sockDone, requests, scriptVars, reached>>
        /\ runAt \notin {"new", "running"}
        /\ runAt' \in {"requesting", "ending", "closing", "ended"}
    BY <1>7 DEF StoreTomb, SetRequested, SetClosed, CloseTaps, Defer
  <2>2. state = "Closed" /\ sockDone
    BY <2>1 DEF RunOrder
  <2>3. tomb' \in {tomb, "Closed"} /\ closeAsked' \in {closeAsked, TRUE} /\ ended' \in {ended, TRUE}
    BY <1>7, <2>2 DEF StoreTomb, SetRequested, SetClosed, CloseTaps
  <2>4. UNCHANGED <<tap, heard, lost>> /\ tappers' \subseteq tappers
    BY <1>7 DEF StoreTomb, SetRequested, SetClosed, CloseTaps, tapVars
  <2>5. SessionTypes'
    BY <1>0, <2>1, <2>3 DEF SessionTypes
  <2>6. RunOrder'
    BY <2>1, <2>2 DEF RunOrder
  <2>7. Reacted /\ Logged
    BY <2>1, <2>4 DEF Reacted, Logged
  <2> QED BY <1>0, <2>1, <2>5, <2>6, <2>7 DEF scriptVars, JobTypes
<1> QED
  BY <1>1, <1>2, <1>3, <1>4, <1>5, <1>6, <1>7 DEF SessionStep, RunLoop

-----------------------------------------------------------------------------
(* What a step does to a script. *)

Results == {"ok", "falsy", "failed"}

\* A command moves on: to its select, or to a snapshot if it is a waitstatus.
Moves(s) ==
  /\ at[s] # "idle"
  /\ \E p \in {"check", "asked", "waiting"} :
       /\ at' = [at EXCEPT ![s] = p]
       /\ p # "waiting" => cmd[s].do = "waitstatus"
  /\ tappers' \in {tappers, tappers \cup {s}}
  /\ UNCHANGED <<tap, heard, lost, cmd, reached, how>>

\* It takes an entry and goes on.
TakesAndSkips(s) ==
  /\ at[s] = "waiting" /\ tap[s] # <<>> /\ Skips(s, Head(tap[s]))
  /\ tap' = [tap EXCEPT ![s] = Tail(@)]
  /\ UNCHANGED <<tappers, heard, lost, cmd, reached, at, how>>

Rests(s) == UNCHANGED <<tappers, tap, heard, lost, cmd, reached, at, how>>

LEMMA NothingType == Nothing \in CommandType /\ Nothing.do = "wait"
BY DEF Nothing, CommandType

LEMMA EndsEffect ==
  ASSUME Types, NEW s \in Scripts, NEW result \in Results, Ends(s, result)
  PROVE  /\ TapTypes'
         /\ cmd' \in [Scripts -> CommandType]
         /\ at' \in [Scripts -> {"idle", "subscribe", "check", "asked", "waiting"}]
         /\ orElse' \in [Scripts -> {"waiting", "failed", "falsy"}]
         /\ how' \in [Scripts -> {"none", "ok", "falsy", "failed"}]
         /\ reached' \in [Scripts -> BOOLEAN]
         /\ at'[s] = "idle" /\ how'[s] = result /\ s \notin tappers'
         /\ tap'[s] = <<>> /\ heard'[s] = <<>> /\ cmd'[s] = Nothing
         /\ \A x \in Scripts \ {s} :
              /\ at'[x] = at[x] /\ how'[x] = how[x] /\ (x \in tappers' <=> x \in tappers)
              /\ tap'[x] = tap[x] /\ heard'[x] = heard[x] /\ lost'[x] = lost[x]
              /\ cmd'[x] = cmd[x] /\ reached'[x] = reached[x]
<1>1. <<>> \in Seq(Entries) /\ <<>> \in Seq(Msgs)
  OBVIOUS
<1>2. TapTypes'
  BY <1>1 DEF Types, TapTypes, Ends
<1>3. /\ cmd' \in [Scripts -> CommandType]
      /\ at' \in [Scripts -> {"idle", "subscribe", "check", "asked", "waiting"}]
      /\ orElse' \in [Scripts -> {"waiting", "failed", "falsy"}]
  BY NothingType DEF Types, Ends, Goes
<1>4. /\ how' \in [Scripts -> {"none", "ok", "falsy", "failed"}]
      /\ reached' \in [Scripts -> BOOLEAN]
  BY DEF Types, Ends, Results
<1>5. /\ at'[s] = "idle" /\ how'[s] = result /\ s \notin tappers'
      /\ tap'[s] = <<>> /\ heard'[s] = <<>> /\ cmd'[s] = Nothing
  BY DEF Types, Ends, Goes
<1>6. ASSUME NEW x \in Scripts \ {s}
      PROVE  /\ at'[x] = at[x] /\ how'[x] = how[x] /\ (x \in tappers' <=> x \in tappers)
             /\ tap'[x] = tap[x] /\ heard'[x] = heard[x] /\ lost'[x] = lost[x]
             /\ cmd'[x] = cmd[x] /\ reached'[x] = reached[x]
  BY DEF Types, Ends, Goes
<1> QED BY <1>2, <1>3, <1>4, <1>5, <1>6

\* What a waitstatus makes of a state it is told.
LEMMA LearnsEffect ==
  ASSUME Types, Places, NEW s \in Scripts, NEW st, Learns(s, st), at[s] \in {"check", "asked"}
  PROVE  /\ \/ \E result \in Results :
                 Ends(s, result) /\ (result = "ok" => st = cmd[s].for)
            \/ Moves(s) /\ UNCHANGED orElse
         /\ cmd[s].do = "waitstatus"
<1>1. cmd[s].do = "waitstatus"
  BY DEF Places
<1>2. CASE st = cmd[s].for
  BY <1>1, <1>2 DEF Learns, Results
<1>3. CASE st # cmd[s].for /\ orElse[s] # "waiting"
  BY <1>1, <1>3 DEF Learns, Results, Types
<1>4. CASE st # cmd[s].for /\ orElse[s] = "waiting"
  BY <1>1, <1>4 DEF Learns, GoesOn, Goes, Moves, tapVars, jobVars
<1> QED BY <1>1, <1>2, <1>3, <1>4

\* Whatever a script does: its command ends, moves on, skips an entry or rests,
\* and one that succeeds has been told so by the state, the flags or its channel.
ToldSo(s) ==
  IF cmd[s].do = "waitstatus"
  THEN \/ cmd[s].for = state
       \/ cmd[s].for = "Closed" /\ sockDone
       \/ tap[s] # <<>> /\ Head(tap[s]) = Tran(cmd[s].for)
  ELSE tap[s] # <<>> /\ Hit(s, Head(tap[s])) /\ buffer' = Head(tap[s]).msg

LEMMA ScriptEffect ==
  ASSUME Types, RunOrder, Places, NEW s \in Scripts, Interrupt(s) \/ Proceeds(s)
  PROVE  /\ UNCHANGED <<state, due, runAt, sockDone, closeAsked, ended, tomb>>
         /\ requests' \in Seq(Scripts \cup {"close"}) /\ buffer' \in Msgs \cup {"empty"}
         /\ orElse' \in [Scripts -> {"waiting", "failed", "falsy"}]
         /\ \/ \E result \in Results : Ends(s, result) /\ (result = "ok" => ToldSo(s))
            \/ Moves(s) \/ TakesAndSkips(s) \/ Rests(s)
<1> DEFINE Frame ==
             /\ UNCHANGED <<state, due, runAt, sockDone, closeAsked, ended, tomb>>
             /\ requests' \in Seq(Scripts \cup {"close"}) /\ buffer' \in Msgs \cup {"empty"}
           Told1 == \E result \in Results : Ends(s, result) /\ (result = "ok" => ToldSo(s))
           Shape == Told1 \/ Moves(s) \/ TakesAndSkips(s) \/ Rests(s)
           OrElse == orElse' \in [Scripts -> {"waiting", "failed", "falsy"}]
<1> SUFFICES Frame /\ OrElse /\ Shape
  OBVIOUS
<1>1. Told1 => OrElse
  BY EndsEffect
<1>2. /\ Quietly => Frame
      /\ UNCHANGED sessionVars /\ buffer' \in Msgs \cup {"empty"} => Frame
  BY DEF Quietly, sessionVars, Types
<1>3. UNCHANGED orElse => OrElse
  BY DEF Types
<1>4. \A v \in {"failed", "falsy"} : orElse' = [orElse EXCEPT ![s] = v] => OrElse
  BY DEF Types
<1>5. \A result \in {"falsy", "failed"} : Ends(s, result) => Told1
  BY DEF Results
<1> HIDE DEF Frame, Told1, OrElse
<1>6. CASE Interrupt(s)
  <2>1. UNCHANGED <<sessionVars, tapVars, scriptVars, reached>>
    BY <1>6 DEF Interrupt
  <2>2. Rests(s) /\ UNCHANGED orElse
    BY <2>1 DEF Rests, tapVars, scriptVars
  <2>3. buffer' \in Msgs \cup {"empty"}
    BY <2>1 DEF scriptVars, Types
  <2> QED BY <1>2, <1>3, <2>1, <2>2, <2>3
<1>7. CASE Refuse(s)
  <2>1. CASE cmd[s].do = "waitstatus" /\ GoesOn(s, "check") /\ orElse' = [orElse EXCEPT ![s] = "failed"]
             /\ UNCHANGED <<tapVars, cmd, reached>>
    <3>1. Moves(s)
      BY <1>7, <2>1 DEF Refuse, GoesOn, Goes, Moves, tapVars
    <3> QED BY <1>2, <1>4, <1>7, <2>1, <3>1 DEF Refuse
  <2>2. CASE Ends(s, "falsy")
    BY <1>1, <1>2, <1>5, <1>7, <2>2 DEF Refuse
  <2> QED BY <1>7, <2>1, <2>2 DEF Refuse
<1>8. CASE Tapping(s)
  <2>1. Moves(s) /\ UNCHANGED orElse
    BY <1>8 DEF Tapping, GoesOn, Goes, Moves, jobVars
  <2> QED BY <1>2, <1>3, <1>8, <2>1 DEF Tapping
<1>9. ASSUME NEW st, Learns(s, st), at[s] \in {"check", "asked"},
             st = state \/ st \notin States \/ (st = "Closed" /\ sockDone)
      PROVE  OrElse /\ Shape
  <2>1. cmd[s].do = "waitstatus" /\ cmd[s].for \in States
    BY <1>9, LearnsEffect DEF Types, CommandType
  <2>2. CASE Moves(s) /\ UNCHANGED orElse
    BY <1>3, <2>2
  <2>3. ASSUME NEW result \in Results, Ends(s, result), result = "ok" => st = cmd[s].for
        PROVE  Told1
    BY <1>9, <2>1, <2>3 DEF ToldSo, Told1
  <2> QED BY <1>1, <1>9, <2>2, <2>3, LearnsEffect
<1>10. CASE Check(s)
  <2>1. KnownState = state \/ KnownState \notin States \/ (KnownState = "Closed" /\ sockDone)
    <3>1. CASE runAt = "new"
      BY <3>1 DEF KnownState, RunOrder
    <3>2. CASE runAt # "new" /\ ended
      <4>1. KnownState = tomb
        BY <3>2 DEF KnownState
      <4> QED BY <4>1 DEF Types, RunOrder, States
    <3>3. CASE runAt # "new" /\ ~ended
      BY <1>10, <3>3 DEF Check, KnownState
    <3> QED BY <3>1, <3>2, <3>3
  <2> QED BY <1>2, <1>9, <1>10, <2>1 DEF Check
<1>11. CASE Ask(s)
  <2>1. cmd[s].do = "waitstatus"
    BY <1>11 DEF Ask, Places
  <2>2. Moves(s) /\ UNCHANGED orElse
    BY <1>11, <2>1 DEF Ask, GoesOn, Goes, Moves, tapVars, jobVars
  <2>3. requests' \in Seq(Scripts \cup {"close"})
    BY <1>11, QueueTypes DEF Ask
  <2>4. Frame
    BY <1>11, <2>3 DEF Ask, Types, Frame
  <2> QED BY <1>3, <2>2, <2>4
<1>12. CASE Answered(s)
  <2>1. requests' \in Seq(Scripts \cup {"close"})
    BY <1>12, QueueTypes DEF Answered
  <2>2. Frame
    BY <1>12, <2>1 DEF Answered, Types, Frame
  <2> QED BY <1>9, <1>12, <2>1, <2>2 DEF Answered
<1>13. CASE AnsweredByDone(s)
  <2>1. (IF tomb = "none" THEN "Closed" ELSE tomb) = "Closed"
    BY DEF Types
  <2> QED BY <1>2, <1>9, <1>13, <2>1 DEF AnsweredByDone
<1>14. CASE Interrupted(s) \/ TimesOut(s) \/ TapClosed(s)
  BY <1>1, <1>2, <1>5, <1>14 DEF Interrupted, TimesOut, TapClosed
<1>15. CASE SeesDone(s)
  <2>1. CASE cmd[s].do = "waitstatus" /\ GoesOn(s, "check") /\ orElse' = [orElse EXCEPT ![s] = "falsy"]
             /\ UNCHANGED <<tapVars, cmd, reached>>
    <3>1. Moves(s)
      BY <1>15, <2>1 DEF SeesDone, Waiting, GoesOn, Goes, Moves, tapVars
    <3> QED BY <1>2, <1>4, <1>15, <2>1, <3>1 DEF SeesDone
  <2>2. CASE Ends(s, "falsy")
    BY <1>1, <1>2, <1>5, <1>15, <2>2 DEF SeesDone
  <2> QED BY <1>15, <2>1, <2>2 DEF SeesDone
<1>16. CASE Takes(s)
  <2> DEFINE e == Head(tap[s])
  <2>1. tap[s] # <<>> /\ at[s] = "waiting" /\ tap[s] \in Seq(Entries) /\ UNCHANGED sessionVars
    BY <1>16 DEF Takes, Waiting, Types
  <2>2. e \in Entries
    BY <2>1
  <2>3. Hit(s, e) => e.msg \in Msgs
    BY <2>2, EntryFacts DEF Hit, Concerns
  <2>4. CASE Skips(s, e) /\ tap' = [tap EXCEPT ![s] = Tail(@)]
             /\ UNCHANGED <<tappers, heard, lost, jobVars, at, how, buffer>>
    <3>1. TakesAndSkips(s) /\ UNCHANGED orElse
      BY <2>1, <2>4 DEF TakesAndSkips, jobVars
    <3>2. buffer' \in Msgs \cup {"empty"}
      BY <2>4 DEF Types
    <3> QED BY <1>2, <1>3, <2>1, <3>1, <3>2
  <2>5. CASE ~Skips(s, e) /\ cmd[s].do = "waitstatus" /\ Ends(s, "ok") /\ UNCHANGED buffer
    <3>1. e = Tran(cmd[s].for)
      BY <2>5 DEF Skips
    <3>2. Told1
      BY <2>1, <2>5, <3>1 DEF Told1, ToldSo, Results
    <3>3. buffer' \in Msgs \cup {"empty"}
      BY <2>5 DEF Types
    <3> QED BY <1>1, <1>2, <2>1, <3>2, <3>3
  <2>6. CASE ~Skips(s, e) /\ cmd[s].do # "waitstatus" /\ buffer' = (IF Hit(s, e) THEN e.msg ELSE buffer)
             /\ Ends(s, IF Hit(s, e) THEN "ok" ELSE "falsy")
    <3>1. Told1
      BY <2>1, <2>6 DEF Told1, ToldSo, Results
    <3>2. buffer' \in Msgs \cup {"empty"}
      BY <2>3, <2>6 DEF Types
    <3> QED BY <1>1, <1>2, <2>1, <3>1, <3>2
  <2> QED BY <1>16, <2>4, <2>5, <2>6 DEF Takes
<1> QED
  BY <1>6, <1>7, <1>8, <1>10, <1>11, <1>12, <1>13, <1>14, <1>15, <1>16 DEF Proceeds

-----------------------------------------------------------------------------
(* Preservation. *)

\* A command begins at a script that is at rest.
LEMMA BeginEffect ==
  ASSUME Types, Places, NEW s \in Scripts, NEW c \in Commands, Begin(s, c)
  PROVE  /\ UNCHANGED <<sessionVars, tapVars, buffer>>
         /\ c \in CommandType /\ cmd'[s] = c /\ at'[s] = "subscribe"
         /\ s \notin tappers /\ tap[s] = <<>> /\ heard[s] = <<>>
         /\ c.do = "waitstatus" /\ c.for \in {state} \cup Elements(due) => reached'[s]
         /\ \A x \in Scripts \ {s} : /\ cmd'[x] = cmd[x] /\ at'[x] = at[x]
                                     /\ reached'[x] = reached[x] /\ how'[x] = how[x]
         /\ JobTypes'
<1>1. UNCHANGED <<sessionVars, tapVars, buffer, orElse>> /\ c \in CommandType
  BY CommandsAssumption DEF Begin
<1>2. cmd'[s] = c /\ at'[s] = "subscribe"
  BY DEF Begin, Goes, Types
<1>3. s \notin tappers /\ tap[s] = <<>> /\ heard[s] = <<>>
  BY DEF Begin, Places
<1>4. reached'[s] = (c.do = "waitstatus" /\ c.for \in {state} \cup Elements(due))
  BY DEF Begin, Types
<1>5. ASSUME NEW x \in Scripts \ {s}
      PROVE  /\ cmd'[x] = cmd[x] /\ at'[x] = at[x]
             /\ reached'[x] = reached[x] /\ how'[x] = how[x]
  BY DEF Begin, Goes, Types
<1>6. /\ cmd' \in [Scripts -> CommandType]
      /\ at' \in [Scripts -> {"idle", "subscribe", "check", "asked", "waiting"}]
      /\ how' \in [Scripts -> {"none", "ok", "falsy", "failed"}]
      /\ reached' \in [Scripts -> BOOLEAN]
  BY <1>1 DEF Begin, Goes, Types
<1>7. JobTypes'
  BY <1>1, <1>6 DEF JobTypes, Types
<1> QED BY <1>1, <1>2, <1>3, <1>4, <1>5, <1>7

\* Every step is one of the session's, the beginning of a command, one of a
\* script or none at all.
LEMMA StepKinds ==
  ASSUME [WaitNext]_commandVars
  PROVE  \/ SessionStep
         \/ \E s \in Scripts, c \in Commands : Begin(s, c)
         \/ \E s \in Scripts : Interrupt(s) \/ Proceeds(s)
         \/ UNCHANGED commandVars
BY DEF WaitNext, SessionStep, AllQuiet

LEMMA StutterEffect ==
  ASSUME UNCHANGED commandVars
  PROVE  UNCHANGED <<state, runAt, due, sockDone, closeAsked, requests, ended, tomb, tappers, tap,
                     heard, lost, cmd, orElse, reached, at, how, buffer>>
BY DEF commandVars, sessionVars, tapVars, jobVars

LEMMA MovesTypes ==
  ASSUME Types, NEW s \in Scripts, Moves(s) \/ TakesAndSkips(s) \/ Rests(s)
  PROVE  /\ TapTypes'
         /\ cmd' \in [Scripts -> CommandType]
         /\ at' \in [Scripts -> {"idle", "subscribe", "check", "asked", "waiting"}]
         /\ how' \in [Scripts -> {"none", "ok", "falsy", "failed"}]
         /\ reached' \in [Scripts -> BOOLEAN]
<1>1. CASE Moves(s)
  BY <1>1 DEF Moves, Types, TapTypes
<1>2. CASE TakesAndSkips(s)
  <2>1. Tail(tap[s]) \in Seq(Entries)
    BY <1>2 DEF TakesAndSkips, Types
  <2>2. tap' \in [Scripts -> Seq(Entries)]
    BY <1>2, <2>1 DEF TakesAndSkips, Types
  <2> QED BY <1>2, <2>2 DEF TakesAndSkips, Types, TapTypes
<1>3. CASE Rests(s)
  BY <1>3 DEF Rests, Types, TapTypes
<1> QED BY <1>1, <1>2, <1>3

LEMMA NextTypes ==
  ASSUME Types, RunOrder, Places, [WaitNext]_commandVars
  PROVE  Types' /\ RunOrder'
<1>0. SessionTypes /\ TapTypes /\ JobTypes
  BY TypesParts
<1>1. CASE SessionStep
  <2>1. SessionTypes' /\ RunOrder'
    BY <1>1, SessionEffect
  <2>2. TapTypes'
    <3>1. Logged
      BY <1>1, SessionEffect
    <3>2. CASE \E e \in Entries : LogEntry(e)
      BY <3>2, LogTypes
    <3>3. CASE UNCHANGED <<tap, heard, lost>> /\ tappers' \subseteq tappers
      BY <1>0, <3>3 DEF TapTypes
    <3> QED BY <3>1, <3>2, <3>3 DEF Logged
  <2>3. JobTypes'
    BY <1>0, <1>1, SessionEffect DEF JobTypes
  <2> QED BY <2>1, <2>2, <2>3, TypesPartsNext
<1>2. ASSUME NEW s \in Scripts, NEW c \in Commands, Begin(s, c) PROVE Types' /\ RunOrder'
  <2>1. UNCHANGED <<sessionVars, tapVars>> /\ JobTypes'
    BY <1>2, BeginEffect
  <2>2. SessionTypes' /\ RunOrder'
    BY <1>0, <2>1 DEF sessionVars, SessionTypes, RunOrder
  <2>3. TapTypes'
    BY <1>0, <2>1 DEF tapVars, TapTypes
  <2> QED BY <2>1, <2>2, <2>3, TypesPartsNext
<1>3. ASSUME NEW s \in Scripts, Interrupt(s) \/ Proceeds(s) PROVE Types' /\ RunOrder'
  <2>1. SessionTypes' /\ RunOrder'
    BY <1>0, <1>3, ScriptEffect DEF SessionTypes, RunOrder
  <2>2. /\ TapTypes'
        /\ cmd' \in [Scripts -> CommandType]
        /\ at' \in [Scripts -> {"idle", "subscribe", "check", "asked", "waiting"}]
        /\ how' \in [Scripts -> {"none", "ok", "falsy", "failed"}]
        /\ reached' \in [Scripts -> BOOLEAN]
    <3>1. CASE \E result \in Results : Ends(s, result)
      BY <3>1, EndsEffect
    <3>2. CASE Moves(s) \/ TakesAndSkips(s) \/ Rests(s)
      BY <3>2, MovesTypes
    <3> QED BY <1>3, <3>1, <3>2, ScriptEffect
  <2>3. JobTypes'
    BY <1>3, <2>2, ScriptEffect DEF JobTypes
  <2> QED BY <2>1, <2>2, <2>3, TypesPartsNext
<1>4. CASE UNCHANGED commandVars
  <2>1. SessionTypes' /\ RunOrder'
    BY <1>0, <1>4, StutterEffect DEF SessionTypes, RunOrder
  <2>2. TapTypes' /\ JobTypes'
    BY <1>0, <1>4, StutterEffect DEF TapTypes, JobTypes
  <2> QED BY <2>1, <2>2, TypesPartsNext
<1> QED BY <1>1, <1>2, <1>3, <1>4, StepKinds

LEMMA NextPlaces ==
  ASSUME Types, RunOrder, Places, [WaitNext]_commandVars
  PROVE  Places'
<1> DEFINE Placed(x) ==
             /\ Len(tap'[x]) <= TapCap
             /\ at'[x] = "idle" => x \notin tappers' /\ tap'[x] = <<>> /\ heard'[x] = <<>>
             /\ at'[x] \in {"check", "asked"} => cmd'[x].do = "waitstatus"
<1> SUFFICES ASSUME NEW x \in Scripts PROVE Placed(x)
  BY DEF Places
<1>0. /\ Len(tap[x]) <= TapCap /\ tap[x] \in Seq(Entries) /\ Len(tap[x]) \in Nat
      /\ TapCap \in Nat \ {0} /\ Len(<<>>) = 0
      /\ at[x] = "idle" => x \notin tappers /\ tap[x] = <<>> /\ heard[x] = <<>>
      /\ at[x] \in {"check", "asked"} => cmd[x].do = "waitstatus"
  BY MsgsAssumption DEF Places, Types
<1>1. CASE SessionStep
  <2>1. Logged /\ UNCHANGED <<cmd, at>>
    BY <1>1, SessionEffect
  <2>2. CASE UNCHANGED <<tap, heard, lost>> /\ tappers' \subseteq tappers
    BY <1>0, <2>1, <2>2
  <2>3. ASSUME NEW e \in Entries, LogEntry(e) PROVE Placed(x)
    <3>1. Len(tap'[x]) <= TapCap
      BY <2>3, LogTypes
    <3>2. tappers' = tappers /\ (x \notin tappers => tap'[x] = tap[x] /\ heard'[x] = heard[x])
      BY <2>3 DEF LogEntry, Fits
    <3> QED BY <1>0, <2>1, <3>1, <3>2
  <2> QED BY <2>1, <2>2, <2>3 DEF Logged
<1>2. ASSUME NEW s \in Scripts, NEW c \in Commands, Begin(s, c) PROVE Placed(x)
  <2>1. UNCHANGED <<tappers, tap, heard>>
    BY <1>2, BeginEffect DEF tapVars
  <2>2. x # s => at'[x] = at[x] /\ cmd'[x] = cmd[x]
    BY <1>2, BeginEffect
  <2>3. x = s => at'[x] = "subscribe"
    BY <1>2, BeginEffect
  <2> QED BY <1>0, <2>1, <2>2, <2>3
<1>3. ASSUME NEW s \in Scripts, Interrupt(s) \/ Proceeds(s) PROVE Placed(x)
  <2>1. CASE \E result \in Results : Ends(s, result)
    <3>1. x = s => at'[x] = "idle" /\ x \notin tappers' /\ tap'[x] = <<>> /\ heard'[x] = <<>>
      BY <2>1, EndsEffect
    <3>2. x # s => /\ at'[x] = at[x] /\ (x \in tappers' <=> x \in tappers)
                   /\ tap'[x] = tap[x] /\ heard'[x] = heard[x] /\ cmd'[x] = cmd[x]
      BY <2>1, EndsEffect
    <3> QED BY <1>0, <3>1, <3>2
  <2>2. CASE Moves(s)
    <3>1. PICK p \in {"check", "asked", "waiting"} :
            at' = [at EXCEPT ![s] = p] /\ (p # "waiting" => cmd[s].do = "waitstatus")
      BY <2>2 DEF Moves
    <3>2. (x = s => at'[x] = p) /\ (x # s => at'[x] = at[x])
      BY <3>1 DEF Types
    <3>3. /\ UNCHANGED <<tap, heard, cmd>> /\ at[s] # "idle"
          /\ (x # s => (x \in tappers' <=> x \in tappers))
      BY <2>2 DEF Moves
    <3> QED BY <1>0, <3>1, <3>2, <3>3
  <2>3. CASE TakesAndSkips(s)
    <3>1. /\ UNCHANGED <<tappers, heard, cmd, at>> /\ at[s] = "waiting" /\ tap[s] # <<>>
          /\ tap' = [tap EXCEPT ![s] = Tail(@)]
      BY <2>3 DEF TakesAndSkips
    <3>2. (x = s => tap'[x] = Tail(tap[x])) /\ (x # s => tap'[x] = tap[x])
      BY <3>1 DEF Types
    <3>3. x = s => Len(Tail(tap[x])) <= TapCap
      BY <1>0, <3>1
    <3> QED BY <1>0, <3>1, <3>2, <3>3
  <2>4. CASE Rests(s)
    BY <1>0, <2>4 DEF Rests
  <2> QED BY <1>3, <2>1, <2>2, <2>3, <2>4, ScriptEffect
<1>4. CASE UNCHANGED commandVars
  BY <1>0, <1>4, StutterEffect
<1> QED BY <1>1, <1>2, <1>3, <1>4, StepKinds

LEMMA LoggedTells ==
  ASSUME Types, Logged, NEW x \in Scripts, NEW st \in States, Tran(st) \in Elements(tap'[x])
  PROVE  Tran(st) \in Elements(tap[x]) \/ st \in Elements(due)
<1>1. CASE UNCHANGED <<tap, heard, lost>>
  BY <1>1
<1>2. ASSUME NEW e \in Entries, LogEntry(e), \A t \in States : e = Tran(t) => t \in Elements(due)
      PROVE  Tran(st) \in Elements(tap[x]) \/ st \in Elements(due)
  <2>1. tap'[x] = tap[x] \/ tap'[x] = Append(tap[x], e)
    BY <1>2 DEF LogEntry
  <2>2. Elements(Append(tap[x], e)) = Elements(tap[x]) \cup {e}
    BY AppendElements DEF Types
  <2> QED BY <1>2, <2>1, <2>2
<1> QED BY <1>1, <1>2 DEF Logged

LEMMA NextTold ==
  ASSUME Types, RunOrder, Places, Told, [WaitNext]_commandVars
  PROVE  Told'
<1> DEFINE TellableNext(x) ==
             {state'} \cup Elements(due') \cup {st \in States : Tran(st) \in Elements(tap'[x])}
<1> SUFFICES ASSUME NEW x \in Scripts, cmd'[x].do = "waitstatus", cmd'[x].for \in TellableNext(x)
             PROVE  reached'[x]
  BY DEF Told, Tellable
<1>0. /\ cmd[x].do = "waitstatus" => cmd[x].for \in States
      /\ cmd[x].do = "waitstatus" /\ cmd[x].for = state => reached[x]
      /\ cmd[x].do = "waitstatus" /\ cmd[x].for \in Elements(due) => reached[x]
      /\ cmd[x].do = "waitstatus" /\ Tran(cmd[x].for) \in Elements(tap[x]) => reached[x]
  BY DEF Told, Tellable, Types, CommandType
<1>1. CASE SessionStep
  <2>1. Reacted /\ Logged /\ cmd' = cmd
    BY <1>1, SessionEffect
  <2>2. Tran(cmd[x].for) \in Elements(tap'[x]) => reached[x]
    BY <1>0, <2>1, LoggedTells
  <2>3. CASE UNCHANGED <<state, reached>> /\ Elements(due') \subseteq Elements(due) \cup {"queue"}
    BY <1>0, <2>1, <2>2, <2>3 DEF States
  <2>4. ASSUME NEW r, Reaction(r), React(r) PROVE reached'[x]
    <3>1. reached'[x] = (reached[x] \/ (cmd[x].do = "waitstatus" /\ cmd[x].for \in Elements(r.passes)))
      BY <2>4 DEF React
    <3>2. CASE reached[x]
      BY <3>1, <3>2
    <3>3. CASE cmd[x].for = state'
      <4>1. CASE r.passes = <<>>
        BY <1>0, <2>1, <2>4, <3>1, <3>3, <4>1 DEF React
      <4>2. CASE r.passes # <<>>
        <5>1. Len(r.passes) \in DOMAIN r.passes /\ state' = r.passes[Len(r.passes)]
          BY <2>4, <4>2 DEF React, Reaction
        <5> QED BY <2>1, <3>1, <3>3, <5>1 DEF Elements
      <4> QED BY <4>1, <4>2
    <3>4. CASE cmd[x].for \in Elements(due')
      <4>1. PICK i \in DOMAIN r.does : cmd[x].for = r.does[i]
        BY <2>4, <3>4 DEF React, Elements
      <4>2. cmd[x].for # "close"
        BY <1>0, <2>1 DEF States
      <4>3. cmd[x].for \in Elements(r.passes)
        BY <2>4, <4>1, <4>2 DEF Reaction, Elements
      <4> QED BY <2>1, <3>1, <4>3
    <3> QED BY <2>1, <2>2, <3>2, <3>3, <3>4
  <2> QED BY <2>1, <2>3, <2>4 DEF Reacted
<1>2. ASSUME NEW s \in Scripts, NEW c \in Commands, Begin(s, c) PROVE reached'[x]
  <2>1. UNCHANGED <<state, due, tap>>
    BY <1>2, BeginEffect DEF sessionVars, tapVars
  <2>2. CASE x = s
    <3>1. cmd'[x] = c /\ tap[x] = <<>> /\ (c.do = "waitstatus" /\ c.for \in {state} \cup Elements(due) => reached'[x])
      BY <1>2, <2>2, BeginEffect
    <3>2. Elements(<<>>) = {}
      BY DEF Elements
    <3> QED BY <2>1, <3>1, <3>2
  <2>3. CASE x # s
    <3>1. cmd'[x] = cmd[x] /\ reached'[x] = reached[x]
      BY <1>2, <2>3, BeginEffect
    <3> QED BY <1>0, <2>1, <3>1
  <2> QED BY <2>2, <2>3
<1>3. ASSUME NEW s \in Scripts, Interrupt(s) \/ Proceeds(s) PROVE reached'[x]
  <2>1. UNCHANGED <<state, due>>
    BY <1>3, ScriptEffect
  <2>2. CASE \E result \in Results : Ends(s, result)
    <3>1. x # s
      BY <2>2, EndsEffect, NothingType
    <3>2. cmd'[x] = cmd[x] /\ reached'[x] = reached[x] /\ tap'[x] = tap[x]
      BY <2>2, <3>1, EndsEffect
    <3> QED BY <1>0, <2>1, <3>2
  <2>3. CASE TakesAndSkips(s)
    <3>1. UNCHANGED <<cmd, reached>> /\ tap[s] # <<>> /\ tap' = [tap EXCEPT ![s] = Tail(@)]
      BY <2>3 DEF TakesAndSkips
    <3>2. tap'[x] = tap[x] \/ (tap[x] # <<>> /\ tap'[x] = Tail(tap[x]))
      BY <3>1 DEF Types
    <3>3. Elements(tap'[x]) \subseteq Elements(tap[x])
      BY <3>2, TailElements DEF Types
    <3> QED BY <1>0, <2>1, <3>1, <3>3
  <2>4. CASE Moves(s) \/ Rests(s)
    <3>1. UNCHANGED <<cmd, reached, tap>>
      BY <2>4 DEF Moves, Rests
    <3> QED BY <1>0, <2>1, <3>1
  <2> QED BY <1>3, <2>2, <2>3, <2>4, ScriptEffect
<1>4. CASE UNCHANGED commandVars
  BY <1>0, <1>4, StutterEffect
<1> QED BY <1>1, <1>2, <1>3, <1>4, StepKinds

LEMMA LoggedKeeps ==
  ASSUME Types, Logged, NEW x \in Scripts, cmd[x].do # "waitstatus",
         Traced(cmd[x], tap[x], heard[x], lost[x])
  PROVE  Traced(cmd[x], tap'[x], heard'[x], lost'[x])
<1>1. CASE UNCHANGED <<tap, heard, lost>>
  BY <1>1
<1>2. ASSUME NEW e \in Entries, LogEntry(e)
      PROVE  Traced(cmd[x], tap'[x], heard'[x], lost'[x])
  <2>0. /\ tap[x] \in Seq(Entries) /\ heard[x] \in Seq(Msgs) /\ lost[x] \in BOOLEAN
        /\ e.type = "RECV" => e.msg \in Msgs
    BY EntryFacts DEF Types
  <2>1. /\ tap'[x] = IF Fits(x) THEN Append(tap[x], e) ELSE tap[x]
        /\ lost'[x] = (lost[x] \/ (x \in tappers /\ e.type = "RECV" /\ ~Fits(x)))
        /\ heard'[x] = IF x \in tappers /\ e.type = "RECV" THEN Append(heard[x], e.msg) ELSE heard[x]
    BY <1>2 DEF LogEntry
  <2>2. CASE x \notin tappers
    <3>1. tap'[x] = tap[x] /\ heard'[x] = heard[x] /\ lost'[x] = lost[x]
      BY <2>0, <2>1, <2>2 DEF Fits
    <3> QED BY <3>1
  <2>3. CASE x \in tappers /\ e.type # "RECV"
    <3>1. heard'[x] = heard[x] /\ lost'[x] = lost[x] /\ tap'[x] \in {tap[x], Append(tap[x], e)}
      BY <2>0, <2>1, <2>3
    <3> QED BY <2>0, <2>3, <3>1, TracedOther
  <2>4. CASE x \in tappers /\ e.type = "RECV" /\ Fits(x)
    <3>1. /\ tap'[x] = Append(tap[x], e) /\ heard'[x] = Append(heard[x], e.msg)
          /\ lost'[x] = lost[x]
      BY <2>0, <2>1, <2>4
    <3> QED BY <2>0, <2>4, <3>1, TracedHeard
  <2>5. CASE x \in tappers /\ e.type = "RECV" /\ ~Fits(x)
    <3>1. /\ tap'[x] = tap[x] /\ heard'[x] = Append(heard[x], e.msg) /\ lost'[x] = TRUE
      BY <2>0, <2>1, <2>5
    <3> QED BY <2>0, <2>5, <3>1, TracedLost
  <2> QED BY <2>2, <2>3, <2>4, <2>5
<1> QED BY <1>1, <1>2 DEF Logged

\* What wait and expect skip may be passed over.
LEMMA SkipsPassOver ==
  ASSUME Types, NEW s \in Scripts, NEW e \in Entries, cmd[s].do # "waitstatus", Skips(s, e),
         e.type = "RECV"
  PROVE  PassedOver(cmd[s], e.msg)
<1>1. cmd[s].do \in {"wait", "expect"}
  BY DEF Types, CommandType
<1> QED BY <1>1 DEF Skips, Hit, Concerns, Matches, PassedOver

LEMMA NextKept ==
  ASSUME Types, RunOrder, Places, Kept, [WaitNext]_commandVars
  PROVE  Kept'
<1> SUFFICES ASSUME NEW x \in Scripts, cmd'[x].do # "waitstatus"
             PROVE  Traced(cmd'[x], tap'[x], heard'[x], lost'[x])
  BY DEF Kept
<1>0. /\ cmd[x].do # "waitstatus" => Traced(cmd[x], tap[x], heard[x], lost[x])
      /\ tap[x] \in Seq(Entries) /\ heard[x] \in Seq(Msgs)
  BY DEF Kept, Types
<1>1. CASE SessionStep
  <2>1. Logged /\ cmd' = cmd
    BY <1>1, SessionEffect
  <2> QED BY <1>0, <2>1, LoggedKeeps
<1>2. ASSUME NEW s \in Scripts, NEW c \in Commands, Begin(s, c)
      PROVE  Traced(cmd'[x], tap'[x], heard'[x], lost'[x])
  <2>1. UNCHANGED <<tap, heard, lost>>
    BY <1>2, BeginEffect DEF tapVars
  <2>2. CASE x = s
    <3>1. tap'[x] = <<>> /\ heard'[x] = <<>>
      BY <1>2, <2>1, <2>2, BeginEffect
    <3> QED BY <3>1, TracedEmpty
  <2>3. CASE x # s
    <3>1. cmd'[x] = cmd[x]
      BY <1>2, <2>3, BeginEffect
    <3> QED BY <1>0, <2>1, <3>1
  <2> QED BY <2>2, <2>3
<1>3. ASSUME NEW s \in Scripts, Interrupt(s) \/ Proceeds(s)
      PROVE  Traced(cmd'[x], tap'[x], heard'[x], lost'[x])
  <2>1. CASE \E result \in Results : Ends(s, result)
    <3>1. CASE x = s
      <4>1. tap'[x] = <<>> /\ heard'[x] = <<>>
        BY <2>1, <3>1, EndsEffect
      <4> QED BY <4>1, TracedEmpty
    <3>2. CASE x # s
      <4>1. cmd'[x] = cmd[x] /\ tap'[x] = tap[x] /\ heard'[x] = heard[x] /\ lost'[x] = lost[x]
        BY <2>1, <3>2, EndsEffect
      <4> QED BY <1>0, <4>1
    <3> QED BY <3>1, <3>2
  <2>2. CASE TakesAndSkips(s)
    <3>1. /\ UNCHANGED <<cmd, heard, lost>> /\ tap[s] # <<>> /\ Skips(s, Head(tap[s]))
          /\ tap' = [tap EXCEPT ![s] = Tail(@)]
      BY <2>2 DEF TakesAndSkips
    <3>2. CASE x = s
      <4>1. tap'[x] = Tail(tap[x])
        BY <3>1, <3>2 DEF Types
      <4>2. Head(tap[x]) \in Entries
        BY <1>0, <3>1, <3>2
      <4>3. Head(tap[x]).type = "RECV" => PassedOver(cmd[x], Head(tap[x]).msg)
        BY <3>1, <3>2, <4>2, SkipsPassOver
      <4> QED BY <1>0, <3>1, <3>2, <4>1, <4>3, TracedSkip
    <3>3. CASE x # s
      BY <1>0, <3>1, <3>3
    <3> QED BY <3>2, <3>3
  <2>3. CASE Moves(s) \/ Rests(s)
    BY <1>0, <2>3 DEF Moves, Rests
  <2> QED BY <1>3, <2>1, <2>2, <2>3, ScriptEffect
<1>4. CASE UNCHANGED commandVars
  BY <1>0, <1>4, StutterEffect
<1> QED BY <1>1, <1>2, <1>3, <1>4, StepKinds

LEMMA InitWaitInv == WaitInit => WaitInv
<1> SUFFICES ASSUME WaitInit PROVE WaitInv
  OBVIOUS
<1>1. Types
  <2>1. /\ <<>> \in Seq(States \cup {"close", "queue"}) /\ <<>> \in Seq(Scripts \cup {"close"})
        /\ <<>> \in Seq(Entries) /\ <<>> \in Seq(Msgs)
    OBVIOUS
  <2> QED BY <2>1, NothingType DEF WaitInit, Types, States, Each
<1>2. RunOrder
  BY DEF WaitInit, RunOrder
<1>3. Places
  <2>1. TapCap \in Nat /\ Len(<<>>) = 0
    BY MsgsAssumption
  <2>2. ASSUME NEW s \in Scripts
        PROVE  tap[s] = <<>> /\ heard[s] = <<>> /\ at[s] = "idle" /\ s \notin tappers
    BY DEF WaitInit, Each
  <2>3. ASSUME NEW s \in Scripts PROVE Len(tap[s]) <= TapCap
    <3>1. Len(tap[s]) = Len(<<>>)
      BY <2>2
    <3>2. 0 <= TapCap
      BY <2>1
    <3> QED BY <2>1, <3>1, <3>2
  <2> QED BY <2>2, <2>3 DEF Places
<1>4. Told
  BY NothingType DEF WaitInit, Told, Each
<1>5. Kept
  BY TracedEmpty DEF WaitInit, Kept, Each
<1> QED BY <1>1, <1>2, <1>3, <1>4, <1>5 DEF WaitInv

LEMMA NextWaitInv == WaitInv /\ [WaitNext]_commandVars => WaitInv'
BY NextTypes, NextPlaces, NextTold, NextKept DEF WaitInv

LEMMA WaitInvHolds == WaitSpec => []WaitInv
BY InitWaitInv, NextWaitInv, PTL DEF WaitSpec

-----------------------------------------------------------------------------
(* The theorems. *)

\* Type correctness, for any number of scripts: no log channel holds more than
\* its capacity, and a script at rest is subscribed to nothing.
THEOREM WaitTypeCorrect == WaitSpec => []WaitTypeOK
<1>1. WaitInv => WaitTypeOK
  BY DEF WaitInv, Types, Places, WaitTypeOK
<1> QED BY <1>1, WaitInvHolds, PTL

\* A command that succeeds has been told so.
LEMMA SuccessIsTold ==
  ASSUME WaitInv, [WaitNext]_commandVars, NEW x \in Scripts,
         at[x] # "idle", at'[x] = "idle", how'[x] = "ok"
  PROVE  ToldSo(x)
<1>0. Types /\ RunOrder /\ Places
  BY DEF WaitInv
<1>1. CASE SessionStep
  BY <1>0, <1>1, SessionEffect
<1>2. ASSUME NEW s \in Scripts, NEW c \in Commands, Begin(s, c) PROVE FALSE
  BY <1>0, <1>2, BeginEffect
<1>3. ASSUME NEW s \in Scripts, Interrupt(s) \/ Proceeds(s) PROVE ToldSo(x)
  <2>1. ASSUME NEW result \in Results, Ends(s, result), result = "ok" => ToldSo(s)
        PROVE  ToldSo(x)
    <3>1. x = s /\ result = "ok"
      BY <1>0, <2>1, EndsEffect
    <3> QED BY <2>1, <3>1
  <2>2. CASE Moves(s) \/ TakesAndSkips(s) \/ Rests(s)
    BY <1>0, <2>2 DEF Moves, TakesAndSkips, Rests, Types
  <2> QED BY <1>0, <1>3, <2>1, <2>2, ScriptEffect
<1>4. CASE UNCHANGED commandVars
  BY <1>4, StutterEffect
<1> QED BY <1>1, <1>2, <1>3, <1>4, StepKinds

\* A waitstatus that succeeds was right, for any number of scripts, reactions of
\* the engine and messages: what it was told by the snapshot, the log or the
\* flags of a session that ends has been the state since it began.
THEOREM StatusWasTold == WaitSpec => ToldWhatWas
<1>1. ASSUME WaitInv, [WaitNext]_commandVars, NEW s \in Scripts, Succeeds(s, {"waitstatus"})
      PROVE  reached[s] \/ (cmd[s].for = "Closed" /\ sockDone)
  <2>1. ToldSo(s) /\ cmd[s].do = "waitstatus"
    BY <1>1, SuccessIsTold DEF Succeeds
  <2>2. cmd[s].for \in States /\ tap[s] \in Seq(Entries)
    BY <1>1, <2>1 DEF WaitInv, Types, CommandType
  <2>3. CASE cmd[s].for = state
    BY <1>1, <2>1, <2>3 DEF WaitInv, Told, Tellable
  <2>4. CASE tap[s] # <<>> /\ Head(tap[s]) = Tran(cmd[s].for)
    <3>1. Tran(cmd[s].for) \in Elements(tap[s])
      BY <2>2, <2>4, TailElements
    <3> QED BY <1>1, <2>1, <2>2, <3>1 DEF WaitInv, Told, Tellable
  <2> QED BY <2>1, <2>3, <2>4 DEF ToldSo
<1>2. WaitInv /\ [WaitNext]_commandVars =>
        [\A s \in Scripts : Succeeds(s, {"waitstatus"}) =>
           \/ reached[s]
           \/ cmd[s].for = "Closed" /\ sockDone]_commandVars
  BY <1>1
<1> QED BY <1>2, WaitInvHolds, PTL DEF WaitSpec, ToldWhatWas

\* A wait or an expect that succeeds leaves the first message it could have
\* meant in the buffer, whatever the capacity of its log channel.
THEOREM WaitGotIt == WaitSpec => GotWhatItWaitedFor
<1> DEFINE Got(s) ==
             \E i \in DOMAIN heard[s] :
               /\ buffer' = heard[s][i] /\ buffer' \in cmd[s].for
               /\ lost[s] \/ \A j \in 1..(i - 1) :
                    /\ heard[s][j] \notin cmd[s].for
                    /\ cmd[s].do = "expect" => heard[s][j] \in Lenient
<1>1. ASSUME WaitInv, [WaitNext]_commandVars, NEW s \in Scripts, Succeeds(s, {"wait", "expect"})
      PROVE  Got(s)
  <2>1. ToldSo(s) /\ cmd[s].do # "waitstatus"
    BY <1>1, SuccessIsTold DEF Succeeds
  <2>2. /\ tap[s] # <<>> /\ Head(tap[s]).type = "RECV" /\ Head(tap[s]).msg \in cmd[s].for
        /\ buffer' = Head(tap[s]).msg
    BY <2>1 DEF ToldSo, Hit, Concerns, Matches
  <2>3. /\ tap[s] \in Seq(Entries) /\ heard[s] \in Seq(Msgs)
        /\ Traced(cmd[s], tap[s], heard[s], lost[s])
    BY <1>1, <2>1 DEF WaitInv, Types, Kept
  <2>4. PICK n \in DOMAIN heard[s] :
          /\ heard[s][n] = Head(tap[s]).msg
          /\ lost[s] \/ \A j \in 1..(n - 1) : PassedOver(cmd[s], heard[s][j])
    <3> DEFINE q == tap[s]
               h == heard[s]
               c == cmd[s]
               l == lost[s]
    <3> HIDE DEF q, h, c, l
    <3>1. q # <<>> /\ q \in Seq(Entries) /\ h \in Seq(Msgs) /\ Head(q).type = "RECV" /\ Traced(c, q, h, l)
      BY <2>2, <2>3 DEF q, h, c, l
    <3>2. \E n \in DOMAIN h : h[n] = Head(q).msg /\ (l \/ \A j \in 1..(n - 1) : PassedOver(c, h[j]))
      BY <3>1, TracedHit
    <3> QED BY <3>2 DEF q, h, c, l
  <2> QED BY <2>2, <2>4 DEF PassedOver
<1>2. WaitInv /\ [WaitNext]_commandVars =>
        [\A s \in Scripts : Succeeds(s, {"wait", "expect"}) => Got(s)]_commandVars
  BY <1>1
<1> QED BY <1>2, WaitInvHolds, PTL DEF WaitSpec, GotWhatItWaitedFor

==============================================================================
