------------------------------ MODULE FixSession ------------------------------
(***************************************************************************)
(* One Session of pkg/session: the run loop that feeds the engine with     *)
(* messages, ticks and user requests and executes the actions it returns   *)
(* one at a time, against a counterparty that may send anything.           *)
(*                                                                         *)
(* The transport is ideal as long as it is up: Outgoing() has room and     *)
(* nothing is lost on the way; SessionActor models the channels.           *)
(***************************************************************************)
EXTENDS FixEngine, FiniteSets

CONSTANTS
  Roles,         \* subset of BOOLEAN: may the session start as client (TRUE)
  PeerKinds,     \* the messages the counterparty may send, but for their 34
  Offsets,       \* ... which is one of these away from our inSeqNum, or 1
  UserKinds,     \* messages the user may pass to Send
  RawKinds,      \* messages the user may pass to Send with passthrough
  Resets,        \* pairs <<in, out>> the user may pass to ResetSequence
  MaxReceives,   \* bound on the messages received
  MaxRequests,   \* bound on the user's requests
  MaxOut         \* bound on outSeqNum beyond which time stands still

ASSUME RolesAssumption == Roles \subseteq BOOLEAN
ASSUME KindsAssumption ==
  /\ PeerKinds \subseteq Message /\ UserKinds \subseteq Message /\ RawKinds \subseteq Message
  /\ \A m \in PeerKinds : m.hb \in Int
ASSUME OffsetsAssumption == Offsets \subseteq Int
ASSUME ResetsAssumption == Resets \subseteq Int \X Int
ASSUME BoundsAssumption == MaxReceives \in Nat /\ MaxRequests \in Nat /\ MaxOut \in Int

VARIABLES
  eng,       \* Session.engine
  todo,      \* what is left of the action list execute is working on
  loop,      \* the run loop: "new", "running" or "ended"
  conn,      \* the transport: "none", "up", or "down" once Done() is closed
  closing,   \* closeRequest: "no", "queued" or "taken"
  ticked,    \* ticker.C holds a tick
  received,  \* number of messages received (bound)
  requested, \* number of user requests (bound)
  logon,     \* history: a Logon of the counterparty has been accepted
  due,       \* history: the inbound number due after what was received
  written,   \* history: app messages written since the store was last reset
  forced,    \* history: the user wrote a raw message or moved outSeqNum back
  strayed    \* history: inSeqNum counted a message that was not the next one

engineVars == <<eng, todo>>
loopVars == <<loop, conn, closing, ticked>>
boundVars == <<received, requested>>
history == <<logon, due, written, forced, strayed>>
vars == <<engineVars, loopVars, boundVars, history>>

Init ==
  /\ eng = NewEngine
  /\ todo = <<>>
  /\ loop = "new" /\ conn = "none" /\ closing = "no" /\ ticked = FALSE
  /\ received = 0 /\ requested = 0
  /\ logon = FALSE /\ due = 1 /\ written = {} /\ forced = FALSE /\ strayed = FALSE

\* The run loop is at its select.
Idle == loop = "running" /\ todo = <<>>

-----------------------------------------------------------------------------
\* Session.Start: run calls OnStart before its first select.
Start(isClient) ==
  LET r == OnStart(eng, isClient) IN
  /\ loop = "new"
  /\ loop' = "running" /\ conn' = "up"
  /\ eng' = r.eng /\ todo' = r.acts
  /\ UNCHANGED <<closing, ticked, boundVars, history>>

-----------------------------------------------------------------------------
\* Session.execute, one action at a time.

\* handleSend selects between Outgoing() and Done(): once the transport is
\* down both may be ready, and the message may be recorded as written.
Write(m) ==
  /\ eng' = RecordWrite(eng, m)
  /\ written' = IF m.type \in Admin THEN written ELSE written \cup {<<m.seq, m.body>>}

HandleSend(m) ==
  \/ /\ Finalizes(m)
     /\ Write(Finalized(eng, m))
  \/ /\ ~Finalizes(m) \/ conn = "down"
     /\ UNCHANGED <<eng, written>>

ExecuteSend ==
  /\ todo # <<>> /\ Head(todo).do = "send"
  /\ HandleSend(Head(todo).msg)
  /\ todo' = Tail(todo)
  /\ UNCHANGED <<loopVars, boundVars, logon, due, forced, strayed>>

ExecuteDeliver ==
  /\ todo # <<>> /\ Head(todo).do \in {"deliver", "skip"}
  /\ todo' = Tail(todo)
  /\ UNCHANGED <<eng, loopVars, boundVars, history>>

\* Session.Close: the compare-and-swap, then a request to the run loop itself
\* unless Done() is chosen.
RequestClose ==
  IF closing # "no" THEN closing' = closing
  ELSE closing' = "queued" \/ (conn = "down" /\ closing' = "taken")

ExecuteClose ==
  /\ todo # <<>> /\ Head(todo).do = "close"
  /\ RequestClose
  /\ todo' = Tail(todo)
  /\ UNCHANGED <<eng, loop, conn, ticked, boundVars, history>>

-----------------------------------------------------------------------------
\* The cases of the run loop's select.

Inbound(e) ==
  {[k EXCEPT !.seq = n] : k \in PeerKinds, n \in {1} \cup {e.in + d : d \in Offsets}}

\* The number due after m: m counts when it is the one that is due, and a
\* Logon of the handshake or a SequenceReset moves it to where they say.
DueAfter(m, handshake) ==
  CASE handshake -> IF m.reset \/ m.seq > due THEN m.seq + 1 ELSE due + 1
    [] ~handshake /\ m.type = "4" /\ m.fault = "none" /\ (HardReset(m) \/ m.seq <= due) ->
         IF m.new > due THEN m.new ELSE due
    [] OTHER -> IF m.seq = due THEN due + 1 ELSE due

\* The messages inSeqNum counts whatever their number: an invalid one, and in a
\* session in step one already passed that PossDupFlag or ResetSeqNumFlag lets by.
Strays(e, m) ==
  \/ Rejects(e, m) /\ m.seq # e.in
  \/ /\ e.state \in {"Active", "Stale"} /\ ~FatalError(e, m)
     /\ m.seq < e.in /\ m.type # "4"

Receive(m) ==
  LET r == OnMessage(eng, m)
      handshake == eng.state \in {"Listening", "LoggingIn"} /\ r.eng.state = "Active"
  IN
  /\ Idle
  /\ received < MaxReceives
  /\ received' = received + 1
  /\ eng' = r.eng /\ todo' = r.acts
  /\ logon' = (logon \/ handshake)
  /\ due' = DueAfter(m, handshake)
  /\ strayed' = (strayed \/ Strays(eng, m))
  /\ written' = IF handshake /\ m.reset THEN {} ELSE written
  /\ UNCHANGED <<loopVars, requested, forced>>

\* A second passes while the loop waits at its select, so while neither Done()
\* nor a close request is ready.  ticker.C holds one tick, taken now or later.
Older(n) == IF n < IdleCap THEN n + 1 ELSE n
Elapse ==
  /\ Idle /\ conn = "up" /\ closing # "queued"
  /\ eng.out <= MaxOut
  /\ eng' = [eng EXCEPT !.read = Older(@), !.write = Older(@)]
  /\ ticked' = TRUE
  /\ UNCHANGED <<todo, loop, conn, closing, boundVars, history>>

Tick ==
  LET r == OnTick(eng) IN
  /\ Idle
  /\ ticked /\ ticked' = FALSE
  /\ eng.out <= MaxOut
  /\ eng' = r.eng /\ todo' = r.acts
  /\ UNCHANGED <<loop, conn, closing, boundVars, history>>

\* userRequest.apply for the four requests that change state.
Request ==
  /\ Idle
  /\ requested < MaxRequests
  /\ requested' = requested + 1
  /\ UNCHANGED <<loop, conn, ticked, received, logon>>

UserSend(k) ==
  /\ Request
  /\ HandleSend([k EXCEPT !.body = requested + 1])
  /\ UNCHANGED <<todo, closing, due, forced, strayed>>

\* With passthrough the message is written as it is, and so recorded.
UserSendRaw(k) ==
  /\ Request
  /\ \/ eng' = RecordWrite(eng, k)
     \/ conn = "down" /\ UNCHANGED eng
  /\ forced' = TRUE
  /\ UNCHANGED <<todo, closing, due, written, strayed>>

UserReset(in, out) ==
  LET r == OnResetSequence(eng, in, out) IN
  /\ Request
  /\ eng' = r.eng /\ todo' = r.acts
  /\ due' = in /\ strayed' = FALSE
  /\ forced' = (forced \/ out < eng.out)
  /\ UNCHANGED <<closing, written>>

UserClose ==
  /\ loop = "running" /\ closing = "no"
  /\ RequestClose
  /\ UNCHANGED <<engineVars, loop, conn, ticked, boundVars, history>>

\* closeRequest.apply keeps the engine off() leaves and drops its Logout.
ApplyClose ==
  /\ Idle
  /\ closing = "queued" /\ closing' = "taken"
  /\ eng' = Off(eng).eng
  /\ conn' = "down"
  /\ UNCHANGED <<todo, loop, ticked, boundVars, history>>

\* The socket fails, or the counterparty closes it.
Disconnect ==
  /\ conn = "up" /\ conn' = "down"
  /\ UNCHANGED <<engineVars, loop, closing, ticked, boundVars, history>>

LoopEnds ==
  /\ Idle
  /\ conn = "down"
  /\ loop' = "ended" /\ closing' = "taken"
  /\ eng' = OnDisconnect(eng)
  /\ UNCHANGED <<todo, conn, ticked, boundVars, history>>

Ended == loop = "ended" /\ UNCHANGED vars

-----------------------------------------------------------------------------
Execute == ExecuteSend \/ ExecuteDeliver \/ ExecuteClose

Next ==
  \/ \E isClient \in Roles : Start(isClient)
  \/ ExecuteSend
  \/ ExecuteDeliver
  \/ ExecuteClose
  \/ \E m \in Inbound(eng) : Receive(m)
  \/ Elapse
  \/ Tick
  \/ \E k \in UserKinds : UserSend(k)
  \/ \E k \in RawKinds : UserSendRaw(k)
  \/ \E p \in Resets : UserReset(p[1], p[2])
  \/ UserClose
  \/ ApplyClose
  \/ Disconnect
  \/ LoopEnds
  \/ Ended

Spec == Init /\ [][Next]_vars

\* The goroutine of the run loop is scheduled, time passes, the ticker fires,
\* and select, which picks among ready cases at random, does not pass over
\* the close request or Done() for ever.
FairSpec ==
  /\ Spec
  /\ WF_vars(Execute) /\ WF_vars(Elapse) /\ WF_vars(Tick)
  /\ SF_vars(ApplyClose) /\ SF_vars(LoopEnds)

-----------------------------------------------------------------------------
TypeOK ==
  /\ eng \in Engine
  /\ todo \in Seq(Action)
  /\ loop \in {"new", "running", "ended"}
  /\ conn \in {"none", "up", "down"}
  /\ closing \in {"no", "queued", "taken"} /\ ticked \in BOOLEAN
  /\ received \in 0..MaxReceives /\ requested \in 0..MaxRequests
  /\ logon \in BOOLEAN /\ forced \in BOOLEAN /\ strayed \in BOOLEAN /\ due \in Int
  /\ written \subseteq Int \X Nat

\* What the theorem about OutOfSync sessions assumes of the counterparty.
AllValid == \A k \in PeerKinds : k.fault # "invalid"

\* No inbound number is skipped: inSeqNum never runs ahead of the numbers
\* that were received in order, or skipped on the word of a SequenceReset, of
\* the counterparty's Logon or of the user, unless the session has counted,
\* since the user last set the numbers, a message that was not the next one
\* (Strays).  Replays, resent gap fills and the answer to 141=Y are no strays.
NoSkip == strayed \/ eng.in <= due

\* What handleResend can replay: every application message the session
\* numbered and wrote since the last Logon that reset the numbers is in
\* MessageStore under the number it went out with, as long as the user has not
\* taken the numbering into his own hands.
Recoverable ==
  forced \/ \A w \in written : \E m \in eng.store : m.seq = w[1] /\ m.body = w[2]

\* The answer to any ResendRequest accounts for every number it asks for
\* exactly once: stored messages are replayed, every run of other numbers is
\* covered by one gap fill that ends where the next replay begins.
Covers(a) ==
  CASE a.do = "skip" -> {}
    [] a.do = "send" /\ GapFill(a.msg) -> a.msg.seq..(a.msg.new - 1)
    [] OTHER -> {a.msg.seq}

ReplayAccounts ==
  \A beg \in 1..eng.out - 1, end \in 0..eng.out : end = 0 \/ end >= beg =>
    LET m == [Sample("2") EXCEPT !.beg = beg, !.end = end]
        acts == HandleResend(eng, m)
        asked == {n \in beg..eng.out - 1 : end = 0 \/ n <= end}
    IN /\ \A i \in DOMAIN acts : Covers(acts[i]) \subseteq asked
       /\ \A n \in asked : \E i \in DOMAIN acts :
            /\ n \in Covers(acts[i])
            /\ GapFill(acts[i].msg) <=> \A r \in eng.store : r.seq # n
            /\ \A j \in DOMAIN acts : n \in Covers(acts[j]) => j = i

Keyed(e) ==
  /\ \A m \in e.store : 0 < m.seq /\ m.seq <= e.last
  /\ \A m, n \in e.store : m.seq = n.seq => m = n
  /\ IF e.store = {} THEN e.last = 0 ELSE \E m \in e.store : m.seq = e.last

\* MessageStore.data has one message per number and lastSeqNo bounds them:
\* without it Append would refuse fresh numbers or Fetch miss stored ones.
StoreKeyed == Keyed(eng)

\* An OutOfSync session is waiting for something: the number it waits for is
\* still ahead of inSeqNum, so it cannot be stuck behind numbers it passed.
OutOfSyncWaits == eng.state = "OutOfSync" => eng.in < eng.until

\* inSeqNum goes back only in the Logon exchange or on the user's request: a
\* SequenceReset of the counterparty never rewinds it.
InSeqForward ==
  [][eng'.in < eng.in =>
       \/ eng.state \in {"Listening", "LoggingIn"} /\ eng'.state = "Active"
       \/ requested' # requested]_vars

\* Once the counterparty falls silent the session notices and the run loop
\* ends: from every state, through the logon timeout, or a TestRequest and
\* three silent heartbeat intervals.
EndsWhenPeerFallsSilent == loop = "running" ~> loop = "ended"

\* Statements of the sources that the code does not keep.

\* engine.go: "engine.state >= SessionActive => session established".
EstablishedMeansLogon ==
  conn = "up" /\ eng.state \in {"Active", "Stale", "OutOfSync"} => logon

\* A replay carries the number of the message it repeats.
ReplayKeepsNumber == \A v, w \in written : v[2] = w[2] => v[1] = w[1]

=============================================================================
