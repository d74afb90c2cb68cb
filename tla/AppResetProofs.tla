---------------------------- MODULE AppResetProofs ----------------------------
(***************************************************************************)
(* Proofs about AppReset for every number of goroutines and sessions: types*)
(* first, then which sessions are known to whom, and from that the life of *)
(* every log channel.                                                      *)
(***************************************************************************)
EXTENDS AppReset, TLAPS

LEMMA SessionsAreNat == Sessions \subseteq Nat /\ 1 \in Sessions
BY SessionsAssumption DEF Sessions

-----------------------------------------------------------------------------
(* Types. *)

LEMMA TypeInit == Init => TypeOK
BY SessionsAssumption, CapAssumption DEF Init, TypeOK, Sessions, Owners

LEMMA UnsubscribeType ==
  ASSUME TypeOK, NEW s \in Sessions, NEW o \in Owners, Unsubscribe(s, o)
  PROVE  /\ logSubs' \in [Sessions -> SUBSET Owners]
         /\ closes' \in [Owners -> Nat]
BY DEF TypeOK, Unsubscribe

LEMMA WriteLogType ==
  ASSUME TypeOK, NEW s \in Sessions, WriteLog(s) PROVE queued' \in [Sessions -> 0..ChanCap]
<1>1. \A n \in 0..ChanCap : n < ChanCap => n + 1 \in 0..ChanCap
  BY CapAssumption
<1> QED BY <1>1 DEF TypeOK, WriteLog

\* A loop that moves on, from one place after "new" to another.
LEMMA LoopType ==
  ASSUME TypeOK, NEW s \in Sessions, loop[s] # "new",
         NEW place \in {"ending", "marked", "ended"},
         loop' = [loop EXCEPT ![s] = place]
  PROVE  /\ loop' \in [Sessions -> {"new", "running", "ending", "marked", "ended"}]
         /\ started = {t \in Sessions : loop'[t] # "new"}
BY DEF TypeOK

LEMMA TypeStep == TypeOK /\ [Next]_vars => TypeOK'
<1> SUFFICES ASSUME TypeOK, [Next]_vars PROVE TypeOK'
  OBVIOUS
<1> USE SessionsAreNat DEF TypeOK
<1> USE DEF sessVars, logVars, brokerVars, resetVars, dialVars, waitVars
<1>0. 1..made \subseteq Sessions /\ 1 \in 1..made
  <2>1. made \in 1..MaxSessions
    BY DEF Sessions
  <2> QED BY <2>1, SessionsAssumption DEF Sessions
<1>1. ASSUME NEW s \in Sessions, Log(s) PROVE TypeOK'
  BY <1>1, WriteLogType DEF Log
<1>2. ASSUME NEW s \in Sessions, LoopEnds(s) PROVE TypeOK'
  <2>1. queued' \in [Sessions -> 0..ChanCap]
    BY <1>2, WriteLogType DEF LoopEnds
  <2>2. /\ loop' \in [Sessions -> {"new", "running", "ending", "marked", "ended"}]
        /\ started = {t \in Sessions : loop'[t] # "new"}
    BY <1>2, LoopType DEF LoopEnds
  <2> QED BY <1>2, <2>1, <2>2 DEF LoopEnds
<1>3. ASSUME NEW s \in Sessions, Close(s) PROVE TypeOK'
  BY <1>3 DEF Close
<1>4. ASSUME NEW s \in Sessions, MarkClosed(s) PROVE TypeOK'
  <2>1. /\ loop' \in [Sessions -> {"new", "running", "ending", "marked", "ended"}]
        /\ started = {t \in Sessions : loop'[t] # "new"}
    BY <1>4, LoopType DEF MarkClosed
  <2>2. s \in started
    BY <1>4 DEF MarkClosed
  <2> QED BY <1>4, <2>1, <2>2 DEF MarkClosed
<1>5. ASSUME NEW s \in Sessions, CloseAllLogs(s) PROVE TypeOK'
  <2>1. /\ loop' \in [Sessions -> {"new", "running", "ending", "marked", "ended"}]
        /\ started = {t \in Sessions : loop'[t] # "new"}
    BY <1>5, LoopType DEF CloseAllLogs
  <2> QED BY <1>5, <2>1 DEF CloseAllLogs
<1>6. ASSUME NEW d \in Dialers, Dial(d) PROVE TypeOK'
  BY <1>6 DEF Dial
<1>7. ASSUME NEW d \in Dialers, DialFails(d) PROVE TypeOK'
  BY <1>0, <1>7 DEF DialFails, DialDone
<1>8. ASSUME NEW d \in Dialers, Connected(d) PROVE TypeOK'
  <2>1. target[d] \in Sessions /\ target[d] \in 1..made
    BY <1>0
  <2>2. loop' \in [Sessions -> {"new", "running", "ending", "marked", "ended"}]
    BY <1>8 DEF Connected
  <2>3. started' = {s \in Sessions : loop'[s] # "new"}
    BY <1>8, <2>1 DEF Connected
  <2>4. target' \in [Dialers -> 1..made'] /\ dial' \in [Dialers -> {"idle", "dialing", "done"}]
    BY <1>0, <1>8 DEF Connected, DialDone
  <2> QED BY <1>8, <2>1, <2>2, <2>3, <2>4 DEF Connected
<1>9. ASSUME NEW w \in Waiters, GetSession(w) PROVE TypeOK'
  BY <1>9 DEF GetSession
<1>10. ASSUME NEW w \in Waiters, Tap(w) PROVE TypeOK'
  <2>1. tapped[w] \in Sessions /\ w \in Owners
    BY <1>0 DEF Owners
  <2>2. logSubs' \in [Sessions -> SUBSET Owners]
    BY <1>10, <2>1 DEF Tap
  <2>3. /\ wait' \in [Waiters -> {"idle", "got", "tapped", "done"}]
        /\ tapped' \in [Waiters -> 1..made']
    BY <1>0, <1>10 DEF Tap, WaitDone
  <2> QED BY <1>10, <2>2, <2>3 DEF Tap
<1>11. ASSUME NEW w \in Waiters, Untap(w) PROVE TypeOK'
  <2>1. tapped[w] \in Sessions /\ w \in Owners
    BY <1>0 DEF Owners
  <2>2. logSubs' \in [Sessions -> SUBSET Owners] /\ closes' \in [Owners -> Nat]
    BY <1>11, <2>1, UnsubscribeType DEF Untap
  <2> QED BY <1>0, <1>11, <2>2 DEF Untap, WaitDone
<1>12. ASSUME NEW v \in Viewers, Subscribe(v) \/ Leave(v) PROVE TypeOK'
  BY <1>12 DEF Subscribe, Leave
<1>13. ASSUME NEW s \in Sessions, Take(s) PROVE TypeOK'
  <2>1. \A n \in 0..ChanCap : n > 0 => n - 1 \in 0..ChanCap
    BY CapAssumption
  <2>2. queued' \in [Sessions -> 0..ChanCap]
    BY <1>13, <2>1 DEF Take
  <2> QED BY <1>13, <2>2 DEF Take
<1>14. ASSUME NEW s \in Sessions, Publish(s) PROVE TypeOK'
  BY <1>14 DEF Publish
<1>15. ASSUME NEW s \in Sessions, PumpEnds(s) PROVE TypeOK'
  <2>1. logSubs' \in [Sessions -> SUBSET Owners] /\ closes' \in [Owners -> Nat]
    BY <1>15, UnsubscribeType DEF PumpEnds, Owners
  <2> QED BY <1>15, <2>1 DEF PumpEnds
<1>16. ASSUME NEW r \in Resetters, Rebind(r) PROVE TypeOK'
  <2>1. bound \in Sessions /\ bound \in Owners
    BY <1>0 DEF Owners
  <2>2. logSubs' \in [Sessions -> SUBSET Owners] /\ closes' \in [Owners -> Nat]
    BY <1>16, <2>1, UnsubscribeType DEF Rebind, Cancel
  <2>3. made' \in Sessions /\ 1..made \subseteq 1..made'
    BY <1>16, SessionsAssumption DEF Rebind, Sessions
  <2> QED BY <1>16, <2>2, <2>3 DEF Rebind
<1>17. ASSUME NEW r \in Resetters, Bind(r) PROVE TypeOK'
  <2>1. fresh[r] \in Sessions /\ fresh[r] \in Owners
    BY <1>0 DEF Owners
  <2> QED BY <1>17, <2>1 DEF Bind
<1>18. ASSUME NEW r \in Resetters, Swap(r) PROVE TypeOK'
  BY <1>18 DEF Swap
<1>19. ASSUME NEW r \in Resetters, CloseOld(r) PROVE TypeOK'
  BY <1>0, <1>19 DEF CloseOld
<1>20. CASE UNCHANGED vars
  BY <1>20 DEF vars
<1> QED
  BY <1>1, <1>2, <1>3, <1>4, <1>5, <1>6, <1>7, <1>8, <1>9, <1>10, <1>11, <1>12, <1>13,
     <1>14, <1>15, <1>16, <1>17, <1>18, <1>19, <1>20
     DEF Next, Deferred, PumpStep, ResetStep, Quiet

\* Every variable keeps its type, the log channels never hold more than they
\* can, and only started sessions have a loop.
THEOREM TypeCorrect == Spec => []TypeOK
BY TypeInit, TypeStep, PTL DEF Spec

-----------------------------------------------------------------------------
(* Who knows which session. *)

\* The sessions to which Bind gave the channel of the broker.
Known == {s \in Sessions : pump[s] # "none"}

\* A session under way through resetSession is known to its resetter alone
\* until Bind is through with it; every other reference is to a known one.
Handed ==
  /\ {1, current, bound} \subseteq Known /\ started \subseteq Known
  /\ \A d \in Dialers : target[d] \in Known
  /\ \A w \in Waiters : tapped[w] \in Known
  /\ \A s \in Known : s <= made
  /\ \A r \in Resetters :
       /\ old[r] \in Known
       /\ IF rpc[r] = "binding" THEN mu = r /\ fresh[r] \notin Known ELSE fresh[r] \in Known

LEMMA PumpKeepsKnown == ASSUME TypeOK, NEW s \in Sessions, PumpStep(s) PROVE Known' = Known
BY DEF PumpStep, Take, Publish, PumpEnds, Known, TypeOK

LEMMA HandedInit == Init => Handed
BY SessionsAreNat DEF Init, Handed, Known

LEMMA HandedStep == TypeOK /\ Handed /\ [Next]_vars => Handed'
<1> SUFFICES ASSUME TypeOK, Handed, [Next]_vars PROVE Handed'
  OBVIOUS
<1> USE SessionsAreNat DEF Handed
<1> USE DEF sessVars, logVars, brokerVars, resetVars, dialVars, waitVars
<1>1. ASSUME NEW s \in Sessions, Log(s) \/ Close(s) \/ LoopEnds(s) \/ Deferred(s) PROVE Handed'
  <2>1. Known' = Known
    BY <1>1 DEF Log, Close, LoopEnds, Deferred, MarkClosed, CloseAllLogs, Known
  <2> QED BY <1>1, <2>1 DEF Log, Close, LoopEnds, Deferred, MarkClosed, CloseAllLogs
<1>2. ASSUME NEW s \in Sessions, PumpStep(s) PROVE Handed'
  <2>1. Known' = Known
    BY <1>2, PumpKeepsKnown
  <2> QED BY <1>2, <2>1 DEF PumpStep, Take, Publish, PumpEnds
<1>3. ASSUME NEW d \in Dialers, Dial(d) \/ DialFails(d) \/ Connected(d) PROVE Handed'
  <2>1. Known' = Known
    BY <1>3 DEF Dial, DialFails, Connected, Known
  <2>2. \A e \in Dialers : target'[e] \in Known
    BY <1>3 DEF Dial, DialFails, Connected, DialDone, TypeOK
  <2> QED BY <1>3, <2>1, <2>2 DEF Dial, DialFails, Connected
<1>4. ASSUME NEW w \in Waiters, GetSession(w) \/ Tap(w) \/ Untap(w) PROVE Handed'
  <2>1. Known' = Known
    BY <1>4 DEF GetSession, Tap, Untap, Known
  <2>2. \A v \in Waiters : tapped'[v] \in Known
    BY <1>4 DEF GetSession, Tap, Untap, WaitDone, TypeOK
  <2> QED BY <1>4, <2>1, <2>2 DEF GetSession, Tap, Untap
<1>5. ASSUME NEW v \in Viewers, Subscribe(v) \/ Leave(v) PROVE Handed'
  BY <1>5 DEF Subscribe, Leave, Known
<1>6. ASSUME NEW r \in Resetters, Rebind(r) PROVE Handed'
  <2>1. Known' = Known
    BY <1>6 DEF Rebind, Known
  <2>2. made + 1 \notin Known /\ made' = made + 1 /\ made \in Nat
    BY <1>6 DEF Rebind, TypeOK
  <2>3. \A q \in Resetters : rpc[q] # "binding"
    BY <1>6, NamesAssumption DEF Rebind
  <2>4. \A q \in Resetters : IF q = r THEN rpc'[q] = "binding" /\ fresh'[q] = made + 1
                             ELSE rpc'[q] = rpc[q] /\ fresh'[q] = fresh[q]
    BY <1>6 DEF Rebind, TypeOK
  <2>5. \A q \in Resetters : /\ old'[q] \in Known
                             /\ IF rpc'[q] = "binding" THEN mu' = q /\ fresh'[q] \notin Known
                                ELSE fresh'[q] \in Known
    BY <1>6, <2>2, <2>3, <2>4 DEF Rebind
  <2>6. \A s \in Known : s <= made'
    BY <2>2 DEF Known
  <2> QED BY <1>6, <2>1, <2>5, <2>6 DEF Rebind
<1>7. ASSUME NEW r \in Resetters, Bind(r) PROVE Handed'
  <2>1. fresh[r] \in Sessions /\ fresh[r] <= made
    <3>1. made \in 1..MaxSessions /\ fresh[r] \in 1..made
      BY DEF TypeOK, Sessions
    <3> QED BY <3>1, SessionsAssumption DEF Sessions
  <2>2. Known' = Known \cup {fresh[r]}
    BY <1>7, <2>1 DEF Bind, Known, TypeOK
  <2>3. \A q \in Resetters : rpc'[q] # "binding" /\ fresh'[q] \in Known'
    BY <1>7, <2>2 DEF Bind, TypeOK
  <2> QED BY <1>7, <2>1, <2>2, <2>3 DEF Bind
<1>8. ASSUME NEW r \in Resetters, Swap(r) \/ CloseOld(r) PROVE Handed'
  <2>1. Known' = Known
    BY <1>8 DEF Swap, CloseOld, Known
  <2>2. \A q \in Resetters : /\ old'[q] \in Known
                             /\ IF rpc'[q] = "binding" THEN mu' = q /\ fresh'[q] \notin Known
                                ELSE fresh'[q] \in Known
    BY <1>8 DEF Swap, CloseOld, TypeOK
  <2>3. current' \in Known
    BY <1>8 DEF Swap, CloseOld
  <2> QED BY <1>8, <2>1, <2>2, <2>3 DEF Swap, CloseOld
<1>9. CASE UNCHANGED vars
  BY <1>9 DEF vars, Known
<1> QED
  BY <1>1, <1>2, <1>3, <1>4, <1>5, <1>6, <1>7, <1>8, <1>9 DEF Next, ResetStep, Quiet

-----------------------------------------------------------------------------
(* The life of a log channel: made when its owner subscribes, closed once. *)

Channels ==
  /\ \A s \in Sessions, o \in Owners : o \in logSubs[s] =>
       /\ closes[o] = 0
       /\ IF o \in Waiters THEN wait[o] = "tapped" /\ tapped[o] = s ELSE o = s /\ s \in Known
  /\ \A o \in Owners : closes[o] <= 1
  /\ \A s \in Sessions : s \notin Known => closes[s] = 0
  /\ \A w \in Waiters : wait[w] \in {"idle", "got"} => closes[w] = 0

\* A channel is open in one session at most.
LEMMA OneSession ==
  ASSUME Channels, NEW s \in Sessions, NEW t \in Sessions, NEW o \in Owners,
         o \in logSubs[s], o \in logSubs[t]
  PROVE  s = t
BY DEF Channels

LEMMA ChannelsInit == Init => Channels
BY SessionsAreNat, NamesAssumption DEF Init, Channels, Known, Owners

LEMMA UnsubscribeKeeps ==
  ASSUME TypeOK, Channels, NEW s \in Sessions, NEW o \in Owners, Unsubscribe(s, o)
  PROVE  /\ \A t \in Sessions, p \in Owners :
              p \in logSubs'[t] => p \in logSubs[t] /\ closes'[p] = closes[p]
         /\ \A p \in Owners : closes'[p] # closes[p] => closes'[p] = 1 /\ p \in logSubs[s]
<1>1. CASE o \notin logSubs[s]
  BY <1>1 DEF Unsubscribe
<1>2. CASE o \in logSubs[s]
  <2>1. closes[o] = 0 /\ \A t \in Sessions : o \in logSubs[t] => t = s
    BY <1>2, OneSession DEF Channels
  <2>2. /\ \A t \in Sessions : logSubs'[t] = IF t = s THEN logSubs[t] \ {o} ELSE logSubs[t]
        /\ \A p \in Owners : closes'[p] = IF p = o THEN 1 ELSE closes[p]
    BY <1>2, <2>1 DEF Unsubscribe, TypeOK
  <2> QED BY <1>2, <2>1, <2>2
<1> QED BY <1>1, <1>2

LEMMA ClosesKeep ==
  ASSUME Channels, NEW s \in Sessions,
         \A p \in Owners : closes'[p] # closes[p] => closes'[p] = 1 /\ p \in logSubs[s]
  PROVE  /\ \A p \in Owners : closes'[p] <= 1
         /\ \A t \in Sessions : t \notin Known => closes'[t] = 0
         /\ \A w \in Waiters : wait[w] \in {"idle", "got"} => closes'[w] = 0
<1>1. \A p \in Owners : closes'[p] <= 1
  BY DEF Channels
<1>2. ASSUME NEW t \in Sessions, t \notin Known PROVE closes'[t] = 0
  <2>1. t \in Owners /\ t \notin Waiters
    BY NamesAssumption DEF Owners
  <2>2. t \notin logSubs[s]
    BY <1>2, <2>1 DEF Channels
  <2> QED BY <1>2, <2>1, <2>2 DEF Channels
<1>3. ASSUME NEW w \in Waiters, wait[w] \in {"idle", "got"} PROVE closes'[w] = 0
  <2>1. w \in Owners
    BY DEF Owners
  <2>2. w \notin logSubs[s]
    BY <1>3, <2>1 DEF Channels
  <2> QED BY <1>3, <2>1, <2>2 DEF Channels
<1> QED BY <1>1, <1>2, <1>3

LEMMA ChannelsStep == TypeOK /\ Handed /\ Channels /\ [Next]_vars => Channels'
<1> SUFFICES ASSUME TypeOK, Handed, Channels, [Next]_vars PROVE Channels'
  OBVIOUS
<1> USE DEF Channels
<1> USE DEF sessVars, logVars, brokerVars, resetVars, dialVars, waitVars
<1>1. ASSUME NEW s \in Sessions, Log(s) \/ Close(s) \/ LoopEnds(s) \/ MarkClosed(s)
      PROVE  Channels'
  BY <1>1 DEF Log, Close, LoopEnds, MarkClosed, Known
<1>2. ASSUME NEW s \in Sessions, CloseAllLogs(s) PROVE Channels'
  <2>1. /\ logSubs' = [logSubs EXCEPT ![s] = {}]
        /\ closes' = [o \in Owners |-> IF o \in logSubs[s] THEN closes[o] + 1 ELSE closes[o]]
        /\ wait' = wait /\ tapped' = tapped /\ Known' = Known
    BY <1>2 DEF CloseAllLogs, Known
  <2>2. \A t \in Sessions, o \in Owners :
          o \in logSubs'[t] => o \in logSubs[t] /\ closes'[o] = closes[o]
    BY <2>1, OneSession DEF TypeOK
  <2>3. \A o \in Owners : closes'[o] # closes[o] => closes'[o] = 1 /\ o \in logSubs[s]
    BY <2>1
  <2> QED BY <2>1, <2>2, <2>3, ClosesKeep
<1>3. ASSUME NEW s \in Sessions, Take(s) \/ Publish(s) PROVE Channels'
  <2>1. Known' = Known
    BY <1>3, PumpKeepsKnown DEF PumpStep
  <2> QED BY <1>3, <2>1 DEF Take, Publish
<1>4. ASSUME NEW s \in Sessions, PumpEnds(s) PROVE Channels'
  <2>1. s \in Owners /\ Known' = Known /\ wait' = wait /\ tapped' = tapped
    BY <1>4 DEF PumpEnds, Known, TypeOK, Owners
  <2>2. /\ \A t \in Sessions, p \in Owners :
             p \in logSubs'[t] => p \in logSubs[t] /\ closes'[p] = closes[p]
        /\ \A p \in Owners : closes'[p] # closes[p] => closes'[p] = 1 /\ p \in logSubs[s]
    BY <1>4, <2>1, UnsubscribeKeeps DEF PumpEnds
  <2> QED BY <2>1, <2>2, ClosesKeep
<1>5. ASSUME NEW d \in Dialers, Dial(d) \/ DialFails(d) \/ Connected(d) PROVE Channels'
  BY <1>5 DEF Dial, DialFails, Connected, Known
<1>6. ASSUME NEW w \in Waiters, GetSession(w) PROVE Channels'
  <2>1. \A v \in Waiters : IF v = w THEN wait[v] = "idle" /\ wait'[v] = "got"
                           ELSE wait'[v] = wait[v] /\ tapped'[v] = tapped[v]
    BY <1>6 DEF GetSession, TypeOK
  <2>2. \A s \in Sessions : w \notin logSubs[s]
    BY <2>1 DEF Owners
  <2> QED BY <1>6, <2>1, <2>2 DEF GetSession, Known, Owners
<1>7. ASSUME NEW w \in Waiters, Tap(w), tapped[w] \in closeRequested PROVE Channels'
  <2>1. \A v \in Waiters : IF v = w THEN wait[v] = "got" /\ wait'[v] = "done"
                           ELSE wait'[v] = wait[v] /\ tapped'[v] = tapped[v]
    BY <1>7 DEF Tap, WaitDone, TypeOK
  <2>2. \A s \in Sessions : w \notin logSubs[s]
    BY <2>1 DEF Owners
  <2> QED BY <1>7, <2>1, <2>2 DEF Tap, Known, Owners
<1>8. ASSUME NEW w \in Waiters, Tap(w), tapped[w] \notin closeRequested PROVE Channels'
  <2>1. \A v \in Waiters : IF v = w THEN wait[v] = "got" /\ wait'[v] = "tapped"
                           ELSE wait'[v] = wait[v]
    BY <1>8 DEF Tap, TypeOK
  <2>2. \A s \in Sessions :
          logSubs'[s] = IF s = tapped[w] THEN logSubs[s] \cup {w} ELSE logSubs[s]
    BY <1>8 DEF Tap, TypeOK
  <2>3. w \in Owners /\ closes[w] = 0 /\ tapped' = tapped /\ closes' = closes /\ Known' = Known
    BY <1>8, <2>1 DEF Owners, Tap, Known
  <2>4. ASSUME NEW s \in Sessions, NEW o \in Owners, o \in logSubs'[s]
        PROVE  /\ closes[o] = 0
               /\ IF o \in Waiters THEN wait'[o] = "tapped" /\ tapped[o] = s
                  ELSE o = s /\ s \in Known
    <3>1. o \in logSubs[s] \/ (o = w /\ s = tapped[w])
      <4>1. CASE s = tapped[w]
        <5>1. logSubs'[s] = logSubs[s] \cup {w}
          BY <2>2, <4>1
        <5> QED BY <2>4, <4>1, <5>1
      <4>2. CASE s # tapped[w]
        <5>1. logSubs'[s] = logSubs[s]
          BY <2>2, <4>2
        <5> QED BY <2>4, <5>1
      <4> QED BY <4>1, <4>2
    <3>2. CASE o \in logSubs[s]
      <4>1. o \in Waiters => o # w /\ wait'[o] = wait[o]
        BY <2>1, <3>2
      <4> QED BY <3>2, <4>1
    <3>3. CASE o = w /\ s = tapped[w]
      BY <2>1, <2>3, <3>3
    <3> QED BY <3>1, <3>2, <3>3
  <2>5. \A v \in Waiters : wait'[v] \in {"idle", "got"} => wait[v] \in {"idle", "got"}
    BY <2>1
  <2> QED BY <2>3, <2>4, <2>5
<1>9. ASSUME NEW w \in Waiters, Untap(w) PROVE Channels'
  <2>1. tapped[w] \in Sessions /\ w \in Owners /\ wait[w] = "tapped"
    BY <1>9 DEF Handed, Known, Owners, Untap
  <2>2. /\ \A t \in Sessions, p \in Owners :
             p \in logSubs'[t] => p \in logSubs[t] /\ closes'[p] = closes[p]
        /\ \A p \in Owners : closes'[p] # closes[p] => closes'[p] = 1 /\ p \in logSubs[tapped[w]]
    BY <1>9, <2>1, UnsubscribeKeeps DEF Untap
  <2>3. \A t \in Sessions : w \notin logSubs'[t]
    <3>1. \A t \in Sessions : t # tapped[w] => w \notin logSubs[t]
      BY <2>1
    <3>2. w \notin logSubs'[tapped[w]]
      BY <1>9, <2>1 DEF Untap, Unsubscribe, TypeOK
    <3> QED BY <2>1, <2>2, <3>1, <3>2
  <2>4. \A v \in Waiters : IF v = w THEN wait'[v] = "done"
                           ELSE wait'[v] = wait[v] /\ tapped'[v] = tapped[v]
    BY <1>9 DEF Untap, WaitDone, TypeOK
  <2>5. Known' = Known
    BY <1>9 DEF Untap, Known
  <2>6. /\ \A p \in Owners : closes'[p] <= 1
        /\ \A t \in Sessions : t \notin Known => closes'[t] = 0
        /\ \A v \in Waiters : wait[v] \in {"idle", "got"} => closes'[v] = 0
    BY <2>1, <2>2, ClosesKeep
  <2>7. \A v \in Waiters : wait'[v] \in {"idle", "got"} => wait[v] \in {"idle", "got"}
    BY <2>4
  <2>8. \A t \in Sessions, p \in Owners : p \in logSubs'[t] =>
          /\ closes'[p] = 0
          /\ IF p \in Waiters THEN wait'[p] = "tapped" /\ tapped'[p] = t ELSE p = t /\ t \in Known
    BY <2>2, <2>3, <2>4
  <2> QED BY <2>5, <2>6, <2>7, <2>8
<1>10. ASSUME NEW v \in Viewers, Subscribe(v) \/ Leave(v) PROVE Channels'
  BY <1>10 DEF Subscribe, Leave, Known
<1>11. ASSUME NEW r \in Resetters, Rebind(r) PROVE Channels'
  <2>1. bound \in Sessions /\ bound \in Owners /\ Unsubscribe(bound, bound)
    BY <1>11 DEF Handed, Known, Owners, Rebind, Cancel
  <2>2. /\ \A t \in Sessions, p \in Owners :
             p \in logSubs'[t] => p \in logSubs[t] /\ closes'[p] = closes[p]
        /\ \A p \in Owners : closes'[p] # closes[p] => closes'[p] = 1 /\ p \in logSubs[bound]
    BY <2>1, UnsubscribeKeeps
  <2>3. Known' = Known /\ wait' = wait /\ tapped' = tapped
    BY <1>11 DEF Rebind, Known
  <2> QED BY <2>1, <2>2, <2>3, ClosesKeep
<1>12. ASSUME NEW r \in Resetters, Bind(r) PROVE Channels'
  <2> DEFINE f == fresh[r]
  <2>1. f \in Sessions /\ f \in Owners /\ f \notin Waiters /\ f \notin Known
    <3>1. f \in 1..made /\ made \in 1..MaxSessions
      BY DEF TypeOK, Sessions
    <3>2. f \in Sessions
      BY <3>1, SessionsAssumption DEF Sessions
    <3> QED BY <1>12, <3>2, NamesAssumption DEF Handed, Bind, Owners
  <2>2. /\ \A s \in Sessions : logSubs'[s] = IF s = f THEN logSubs[s] \cup {f} ELSE logSubs[s]
        /\ closes' = closes /\ wait' = wait /\ tapped' = tapped
    BY <1>12 DEF Bind, TypeOK
  <2>3. Known' = Known \cup {f}
    BY <1>12, <2>1 DEF Bind, Known, TypeOK
  <2> HIDE DEF f
  <2>4. closes[f] = 0
    BY <2>1
  <2>5. ASSUME NEW s \in Sessions, NEW o \in Owners, o \in logSubs'[s]
        PROVE  /\ closes[o] = 0
               /\ IF o \in Waiters THEN wait[o] = "tapped" /\ tapped[o] = s
                  ELSE o = s /\ s \in Known'
    <3>1. o \in logSubs[s] \/ (o = f /\ s = f)
      <4>1. CASE s = f
        <5>1. logSubs'[s] = logSubs[s] \cup {f}
          BY <2>2, <4>1
        <5> QED BY <2>5, <4>1, <5>1
      <4>2. CASE s # f
        <5>1. logSubs'[s] = logSubs[s]
          BY <2>2, <4>2
        <5> QED BY <2>5, <5>1
      <4> QED BY <4>1, <4>2
    <3>2. CASE o \in logSubs[s]
      BY <2>3, <3>2
    <3>3. CASE o = f /\ s = f
      BY <2>1, <2>3, <2>4, <3>3
    <3> QED BY <3>1, <3>2, <3>3
  <2> QED BY <2>2, <2>3, <2>5
<1>13. ASSUME NEW r \in Resetters, Swap(r) \/ CloseOld(r) PROVE Channels'
  BY <1>13 DEF Swap, CloseOld, Known
<1>14. CASE UNCHANGED vars
  BY <1>14 DEF vars, Known
<1> QED
  BY <1>1, <1>2, <1>3, <1>4, <1>5, <1>6, <1>7, <1>8, <1>9, <1>10, <1>11, <1>12, <1>13, <1>14
     DEF Next, Deferred, PumpStep, ResetStep, Quiet

\* However the resetters, the scripts, the broker's goroutines and the end of
\* the run loop come together, no log channel is closed twice or written after
\* it was closed, which would end the program.
THEOREM NoDoubleClose == Spec => []ClosedOnce
<1>1. Channels => ClosedOnce
  BY DEF Channels, ClosedOnce
<1> QED
  BY <1>1, TypeInit, TypeStep, HandedInit, HandedStep, ChannelsInit, ChannelsStep, PTL DEF Spec

-----------------------------------------------------------------------------
(* The end of a session. *)

Ending ==
  /\ \A s \in Sessions : loop[s] \in {"marked", "ended"} => s \in closeRequested
  /\ NoneLeftOpen

LEMMA EndingStep == TypeOK /\ Handed /\ Ending /\ [Next]_vars => Ending'
<1> SUFFICES ASSUME TypeOK, Handed, Ending, [Next]_vars PROVE Ending'
  OBVIOUS
<1> USE DEF Ending, NoneLeftOpen
<1> USE DEF sessVars, logVars, brokerVars, resetVars, dialVars, waitVars
\* Steps that subscribe nobody and move no loop.
<1>1. ASSUME loop' = loop, closeRequested \subseteq closeRequested',
             \A s \in Sessions : logSubs[s] = {} => logSubs'[s] = {}
      PROVE  Ending'
  BY <1>1
<1>2. ASSUME NEW s \in Sessions, NEW o, Unsubscribe(s, o)
      PROVE  \A t \in Sessions : logSubs[t] = {} => logSubs'[t] = {}
  BY <1>2 DEF Unsubscribe, TypeOK
<1>3. ASSUME NEW s \in Sessions, Log(s) \/ Close(s) PROVE Ending'
  BY <1>1, <1>3 DEF Log, Close
<1>4. ASSUME NEW s \in Sessions, LoopEnds(s) PROVE Ending'
  BY <1>4 DEF LoopEnds, TypeOK
<1>5. ASSUME NEW s \in Sessions, MarkClosed(s) PROVE Ending'
  BY <1>5 DEF MarkClosed, TypeOK
<1>6. ASSUME NEW s \in Sessions, CloseAllLogs(s) PROVE Ending'
  BY <1>6 DEF CloseAllLogs, TypeOK
<1>7. ASSUME NEW s \in Sessions, PumpStep(s) PROVE Ending'
  BY <1>1, <1>2, <1>7 DEF PumpStep, Take, Publish, PumpEnds
<1>8. ASSUME NEW d \in Dialers, Dial(d) \/ DialFails(d) PROVE Ending'
  BY <1>1, <1>8 DEF Dial, DialFails
<1>9. ASSUME NEW d \in Dialers, Connected(d) PROVE Ending'
  <2>1. /\ logSubs' = logSubs /\ closeRequested' = closeRequested
        /\ \A s \in Sessions : loop'[s] = loop[s] \/ loop'[s] = "running"
    BY <1>9 DEF Connected, TypeOK
  <2> QED BY <2>1
<1>10. ASSUME NEW w \in Waiters, GetSession(w) PROVE Ending'
  BY <1>1, <1>10 DEF GetSession
<1>11. ASSUME NEW w \in Waiters, Tap(w) PROVE Ending'
  <2>1. /\ loop' = loop /\ closeRequested' = closeRequested
        /\ \A s \in Sessions : s \in closeRequested => logSubs'[s] = logSubs[s]
    BY <1>11 DEF Tap, TypeOK
  <2> QED BY <2>1
<1>12. ASSUME NEW w \in Waiters, Untap(w) PROVE Ending'
  <2>1. tapped[w] \in Sessions
    BY DEF Handed, Known
  <2> QED BY <1>1, <1>2, <1>12, <2>1 DEF Untap
<1>13. ASSUME NEW v \in Viewers, Subscribe(v) \/ Leave(v) PROVE Ending'
  BY <1>1, <1>13 DEF Subscribe, Leave
<1>14. ASSUME NEW r \in Resetters, Rebind(r) PROVE Ending'
  <2>1. bound \in Sessions
    BY DEF Handed, Known
  <2> QED BY <1>1, <1>2, <1>14, <2>1 DEF Rebind, Cancel
<1>15. ASSUME NEW r \in Resetters, Bind(r) PROVE Ending'
  <2>1. fresh[r] \notin started
    BY <1>15 DEF Bind, Handed
  <2>2. /\ loop' = loop /\ closeRequested' = closeRequested
        /\ \A s \in Sessions : s \in started => logSubs'[s] = logSubs[s]
    BY <1>15, <2>1 DEF Bind, TypeOK
  <2>3. \A s \in Sessions : loop[s] = "ended" => s \in started
    BY DEF TypeOK
  <2> QED BY <2>2, <2>3
<1>16. ASSUME NEW r \in Resetters, Swap(r) \/ CloseOld(r) PROVE Ending'
  BY <1>1, <1>16 DEF Swap, CloseOld
<1>17. CASE UNCHANGED vars
  BY <1>1, <1>17 DEF vars
<1> QED
  BY <1>3, <1>4, <1>5, <1>6, <1>7, <1>8, <1>9, <1>10, <1>11, <1>12, <1>13, <1>14, <1>15,
     <1>16, <1>17 DEF Next, Deferred, PumpStep, ResetStep, Quiet

\* When a session has closed its log channels none is open or opened again: a
\* script that waits for its log, and the broker, learn that it ended.
THEOREM AllClosedInTheEnd == Spec => []NoneLeftOpen
<1>1. Init => Ending
  BY DEF Init, Ending, NoneLeftOpen
<1>2. Ending => NoneLeftOpen
  BY DEF Ending
<1> QED
  BY <1>1, <1>2, TypeInit, TypeStep, HandedInit, HandedStep, EndingStep, PTL DEF Spec

=============================================================================
