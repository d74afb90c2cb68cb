----------------------------- MODULE SessionActor -----------------------------
(***************************************************************************)
(* The goroutines around one Session: the callers of its public methods,   *)
(* the run loop that owns the engine, and the read and write loops of the  *)
(* transport, with the channels between them and their capacities.         *)
(*                                                                         *)
(* What the engine decides is abstracted to the list of actions a handler  *)
(* may return (FixEngine has the decisions); what is kept is who waits for *)
(* whom, what may be full, and the order of the flags.                     *)
(***************************************************************************)
EXTENDS Naturals, Sequences

CONSTANTS
  Callers,    \* goroutines that call the session's methods
  Ops,        \* the methods they call: subset of Methods
  Reactions,  \* lists of "send", "deliver" and "close" a handler may return
  ReqCap,     \* capacity of Session.requests (128)
  InCap,      \* capacity of transport.incoming (1024)
  OutCap,     \* capacity of transport.outgoing (1024)
  WireCap,    \* messages the socket takes before the peer reads
  MaxCalls,   \* bound on the calls made
  MaxPeer     \* bound on the messages the peer sends

Methods == {"send", "status", "last", "reset", "close"}

ASSUME OpsAssumption == Ops \subseteq Methods
ASSUME ReactionsAssumption == Reactions \subseteq Seq({"send", "deliver", "close"})
ASSUME CapAssumption == {ReqCap, InCap, OutCap, WireCap} \subseteq Nat \ {0}
ASSUME BoundAssumption == MaxCalls \in Nat /\ MaxPeer \in Nat

VARIABLES
  started, closeRequested, closed, \* the atomic flags
  tombstone,  \* "none", "final", or "stale" if the engine changed after it
  loop,       \* where the run loop is; the last four places are its defer block
  work,       \* actions and replies the current iteration still has to do
  requests,   \* Session.requests
  pc,         \* caller -> "idle", "push" (about to queue its request) or "wait"
  op,         \* caller -> the method it is in
  reply,      \* callers whose buffered reply channel holds an answer
  calls,      \* number of calls made (bound)
  done,       \* transport.ctx is cancelled
  peer,       \* the peer's end of the socket: "open" or "closed"
  reader,     \* readLoop: "none", "reading", "pushing", "closing" or "ended"
  writer,     \* writeLoop: "none", "idle", "writing" or "ended"
  incoming,   \* messages in transport.incoming
  outgoing,   \* messages in transport.outgoing
  wire,       \* messages in the socket, not yet read by the peer
  arrived     \* messages the peer has sent (bound)

flags == <<started, closeRequested, closed, tombstone>>
loopVars == <<loop, work>>
callVars == <<pc, op, calls>>
netVars == <<done, peer, reader, writer, incoming, outgoing, wire, arrived>>
vars == <<flags, loopVars, callVars, requests, reply, netVars>>

Loops == {"new", "running", "storing", "requesting", "closing", "ended"}
Item == [do : {"send", "deliver", "close", "queue", "answer", "hand"}, for : Callers \cup {"engine"}]
Request == [op : Methods, by : Callers \cup {"engine"}]

Init ==
  /\ started = FALSE /\ closeRequested = FALSE /\ closed = FALSE
  /\ tombstone = "none"
  /\ loop = "new" /\ work = <<>> /\ requests = <<>>
  /\ pc = [c \in Callers |-> "idle"] /\ op = [c \in Callers |-> "status"]
  /\ reply = {} /\ calls = 0
  /\ done = FALSE /\ peer = "open" /\ reader = "none" /\ writer = "none"
  /\ incoming = 0 /\ outgoing = 0 /\ wire = 0 /\ arrived = 0

Todo(acts) == [i \in DOMAIN acts |-> [do |-> acts[i], for |-> "engine"]]

\* The engine is about to change: a snapshot taken before is out of date.
EngineMoves == tombstone' = IF tombstone = "none" THEN "none" ELSE "stale"

-----------------------------------------------------------------------------
\* Mutations: what a slip in the code would turn a definition below into.  No
\* specification uses them; each breaks a property of this module.

\* A queue of requests that takes more than it holds.
PushUnbounded(c) ==
  /\ pc[c] = "push"
  /\ requests' = Append(requests, [op |-> op[c], by |-> c])
  /\ pc' = [pc EXCEPT ![c] = IF op[c] \in {"reset", "close"} THEN "idle" ELSE "wait"]
  /\ UNCHANGED <<flags, loopVars, op, calls, reply, netVars>>

\* Status that waits for its reply only.
ReturnOnDoneLastOnly(c) ==
  /\ pc[c] = "wait" /\ op[c] = "last" /\ done
  /\ pc' = [pc EXCEPT ![c] = "idle"]
  /\ UNCHANGED <<flags, loopVars, op, calls, requests, reply, netVars>>

\* closed set before the deferred block.
EndClosed ==
  /\ loop' = "storing" /\ closed' = TRUE
  /\ EngineMoves
  /\ UNCHANGED <<started, closeRequested, work, callVars, requests, reply, netVars>>

\* A last message that is not found and not answered.
AppliedUnanswered(r) ==
  CASE r.op = "send" -> {<<[do |-> "send", for |-> "engine"], [do |-> "answer", for |-> r.by]>>}
    [] r.op = "status" -> {<<[do |-> "answer", for |-> r.by]>>}
    [] OTHER -> {<<>>}

\* A close request that turns the engine off and leaves the socket open.
SelectRequestNoClose ==
  /\ loop = "running" /\ work = <<>> /\ requests # <<>>
  /\ requests' = Tail(requests)
  /\ work' \in AppliedUnanswered(Head(requests))
  /\ UNCHANGED <<flags, loop, callVars, reply, netVars>>

\* A read loop that ends without closing the transport.
ReadFailsOpen ==
  /\ reader = "reading" /\ (done \/ peer = "closed")
  /\ reader' = "closing"
  /\ UNCHANGED <<flags, loopVars, callVars, requests, reply>>
  /\ UNCHANGED <<done, peer, writer, incoming, outgoing, wire, arrived>>

-----------------------------------------------------------------------------
\* Session.Start on a transport that is up: OnStart may send a Logon.
Start ==
  /\ ~started /\ started' = TRUE
  /\ loop' = "running"
  /\ work' \in {<<>>, Todo(<<"send">>)}
  /\ reader' = "reading" /\ writer' = "idle"
  /\ UNCHANGED <<closeRequested, closed, tombstone, callVars, requests, reply>>
  /\ UNCHANGED <<done, peer, incoming, outgoing, wire, arrived>>

-----------------------------------------------------------------------------
\* The callers.  The flags are tested, and the request queued, in two steps.

Admits(o) ==
  CASE o \in {"send", "reset", "close"} -> ~closeRequested
    [] o \in {"status", "last"} -> ~closed

Call(c, o) ==
  /\ pc[c] = "idle" /\ calls < MaxCalls
  /\ started /\ Admits(o)
  /\ calls' = calls + 1
  /\ pc' = [pc EXCEPT ![c] = "push"] /\ op' = [op EXCEPT ![c] = o]
  /\ closeRequested' = (closeRequested \/ o = "close")
  /\ UNCHANGED <<started, closed, tombstone, loopVars, requests, reply, netVars>>

Leave(c) == pc' = [pc EXCEPT ![c] = "idle"] /\ op' = [op EXCEPT ![c] = "status"]

\* A channel send, which blocks while the channel is full.
Push(c) ==
  /\ pc[c] = "push"
  /\ Len(requests) < ReqCap
  /\ requests' = Append(requests, [op |-> op[c], by |-> c])
  /\ IF op[c] \in {"reset", "close"} THEN Leave(c)
     ELSE pc' = [pc EXCEPT ![c] = "wait"] /\ UNCHANGED op
  /\ UNCHANGED <<flags, loopVars, calls, reply, netVars>>

\* Only Close selects between its request and Done().
CloseGivesUp(c) ==
  /\ pc[c] = "push" /\ op[c] = "close" /\ done
  /\ Leave(c)
  /\ UNCHANGED <<flags, loopVars, calls, requests, reply, netVars>>

Return(c) ==
  /\ pc[c] = "wait" /\ c \in reply
  /\ Leave(c)
  /\ reply' = reply \ {c}
  /\ UNCHANGED <<flags, loopVars, calls, requests, netVars>>

\* Status and LastMessage stop waiting once Done() is closed; Send does not.
\* The reply channel of a call that left is garbage: an answer to it is lost.
ReturnOnDone(c) ==
  /\ pc[c] = "wait" /\ op[c] \in {"status", "last"} /\ done
  /\ Leave(c)
  /\ reply' = reply \ {c}
  /\ requests' = [i \in DOMAIN requests |->
       IF requests[i].by = c THEN [requests[i] EXCEPT !.by = "engine"] ELSE requests[i]]
  /\ work' = [i \in DOMAIN work |->
       IF work[i].for = c THEN [work[i] EXCEPT !.for = "engine"] ELSE work[i]]
  /\ UNCHANGED <<flags, loop, calls, netVars>>

-----------------------------------------------------------------------------
\* The run loop: one case of its select per action.
AtSelect == loop = "running" /\ work = <<>>

End ==
  /\ loop' = "storing"
  /\ EngineMoves
  /\ UNCHANGED <<started, closeRequested, closed, work, callVars, requests, reply, netVars>>

SelectDone == AtSelect /\ done /\ End
SelectClosed == AtSelect /\ incoming = 0 /\ reader = "ended" /\ End

SelectIncoming ==
  /\ AtSelect /\ incoming > 0
  /\ incoming' = incoming - 1
  /\ \E acts \in Reactions : work' = Todo(acts)
  /\ EngineMoves
  /\ UNCHANGED <<started, closeRequested, closed, loop, callVars, requests, reply>>
  /\ UNCHANGED <<done, peer, reader, writer, outgoing, wire, arrived>>

SelectTick ==
  /\ AtSelect
  /\ \E acts \in Reactions : work' = Todo(acts)
  /\ EngineMoves
  /\ UNCHANGED <<started, closeRequested, closed, loop, callVars, requests, reply, netVars>>

\* userRequest.apply: the replies and the sends are steps of their own.
Applied(r) ==
  CASE r.op = "send" -> {<<[do |-> "send", for |-> "engine"], [do |-> "answer", for |-> r.by]>>}
    [] r.op = "status" -> {<<[do |-> "answer", for |-> r.by]>>}
    [] r.op = "last" -> {<<[do |-> "hand", for |-> r.by]>>}
    [] r.op = "reset" -> {<<>>, Todo(<<"send">>)}
    [] r.op = "close" -> {<<>>}

SelectRequest ==
  /\ AtSelect /\ requests # <<>>
  /\ requests' = Tail(requests)
  /\ work' \in Applied(Head(requests))
  /\ done' = (done \/ Head(requests).op = "close")
  /\ IF Head(requests).op \in {"reset", "close"} THEN EngineMoves ELSE UNCHANGED tombstone
  /\ UNCHANGED <<started, closeRequested, closed, loop, callVars, reply>>
  /\ UNCHANGED <<peer, reader, writer, incoming, outgoing, wire, arrived>>

-----------------------------------------------------------------------------
\* The steps of an iteration.
Step(what) == work # <<>> /\ Head(work).do = what /\ work' = Tail(work)

\* handleSend: a select between outgoing and Done().
DoSend ==
  /\ Step("send")
  /\ \/ /\ outgoing < OutCap
        /\ outgoing' = outgoing + 1
        /\ EngineMoves
     \/ /\ done
        /\ UNCHANGED <<outgoing, tombstone>>
  /\ UNCHANGED <<started, closeRequested, closed, loop, callVars, requests, reply>>
  /\ UNCHANGED <<done, peer, reader, writer, incoming, wire, arrived>>

\* deliverMessage never blocks.
DoDeliver ==
  /\ Step("deliver")
  /\ UNCHANGED <<flags, loop, callVars, requests, reply, netVars>>

\* The channel has room for the one answer.
DoAnswer ==
  /\ Step("answer")
  /\ reply' = IF Head(work).for = "engine" THEN reply ELSE reply \cup {Head(work).for}
  /\ UNCHANGED <<flags, loop, callVars, requests, netVars>>

\* lastMessageRequest answers on a channel without a buffer: the caller must
\* be there to take it.
DoHand ==
  /\ Step("hand")
  /\ Head(work).for \in Callers
  /\ Leave(Head(work).for)
  /\ UNCHANGED <<flags, loop, calls, requests, reply, netVars>>

\* ActionClose calls Close on the loop itself: the compare-and-swap, and then
\* the same select between a request and Done() as any other caller's.
DoClose ==
  /\ work # <<>> /\ Head(work).do = "close"
  /\ closeRequested' = TRUE
  /\ work' = IF closeRequested THEN Tail(work)
             ELSE <<[do |-> "queue", for |-> "engine"]>> \o Tail(work)
  /\ UNCHANGED <<started, closed, tombstone, loop, callVars, requests, reply, netVars>>

DoQueue ==
  /\ Step("queue")
  /\ \/ done /\ UNCHANGED requests
     \/ /\ Len(requests) < ReqCap
        /\ requests' = Append(requests, [op |-> "close", by |-> "engine"])
  /\ UNCHANGED <<flags, loop, callVars, reply, netVars>>

\* The deferred block, in its order.
Cleanup(from, to) == loop = from /\ loop' = to

StoreTombstone ==
  /\ Cleanup("storing", "requesting")
  /\ tombstone' = "final"
  /\ UNCHANGED <<started, closeRequested, closed, work, callVars, requests, reply, netVars>>

SetCloseRequested ==
  /\ Cleanup("requesting", "closing")
  /\ closeRequested' = TRUE
  /\ UNCHANGED <<started, closed, tombstone, work, callVars, requests, reply, netVars>>

SetClosed ==
  /\ Cleanup("closing", "ended")
  /\ closed' = TRUE
  /\ UNCHANGED <<started, closeRequested, tombstone, work, callVars, requests, reply, netVars>>

-----------------------------------------------------------------------------
\* The transport.
session == <<flags, loopVars, callVars, requests, reply>>

\* Frames that are buffered are read after the socket is closed, too.
ReadFrame ==
  /\ reader = "reading"
  /\ arrived < MaxPeer /\ arrived' = arrived + 1
  /\ reader' = "pushing"
  /\ UNCHANGED <<session, done, peer, writer, incoming, outgoing, wire>>

ReadPush ==
  /\ reader = "pushing" /\ incoming < InCap
  /\ incoming' = incoming + 1
  /\ reader' = "reading"
  /\ UNCHANGED <<session, done, peer, writer, outgoing, wire, arrived>>

\* The deferred calls of readLoop: Close, then close(incoming).
ReadFails ==
  /\ \/ reader = "reading" /\ (done \/ peer = "closed")
     \/ reader = "pushing" /\ done
  /\ done' = TRUE
  /\ reader' = "closing"
  /\ UNCHANGED <<session, peer, writer, incoming, outgoing, wire, arrived>>

ReadEnds ==
  /\ reader = "closing" /\ reader' = "ended"
  /\ UNCHANGED <<session, done, peer, writer, incoming, outgoing, wire, arrived>>

WriteTake ==
  /\ writer = "idle" /\ outgoing > 0
  /\ outgoing' = outgoing - 1
  /\ writer' = "writing"
  /\ UNCHANGED <<session, done, peer, reader, incoming, wire, arrived>>

\* transport.Close cancels the context and closes the socket, as one step.
WriteOut ==
  /\ writer = "writing" /\ peer = "open" /\ ~done
  /\ wire < WireCap
  /\ wire' = wire + 1
  /\ writer' = "idle"
  /\ UNCHANGED <<session, done, peer, reader, incoming, outgoing, arrived>>

WriteEnds ==
  /\ \/ writer = "idle" /\ done
     \/ writer = "writing" /\ (done \/ peer = "closed")
  /\ done' = TRUE
  /\ writer' = "ended"
  /\ UNCHANGED <<session, peer, reader, incoming, outgoing, wire, arrived>>

PeerReads ==
  /\ peer = "open" /\ wire > 0
  /\ wire' = wire - 1
  /\ UNCHANGED <<session, done, peer, reader, writer, incoming, outgoing, arrived>>

PeerCloses ==
  /\ started /\ peer = "open" /\ peer' = "closed"
  /\ UNCHANGED <<session, done, reader, writer, incoming, outgoing, wire, arrived>>

-----------------------------------------------------------------------------
Finished == loop = "ended" /\ UNCHANGED vars

Loop ==
  \/ SelectDone \/ SelectClosed \/ SelectIncoming \/ SelectTick \/ SelectRequest
  \/ DoSend \/ DoDeliver \/ DoAnswer \/ DoHand \/ DoClose \/ DoQueue
  \/ StoreTombstone \/ SetCloseRequested \/ SetClosed

Transport ==
  \/ ReadFrame \/ ReadPush \/ ReadFails \/ ReadEnds
  \/ WriteTake \/ WriteOut \/ WriteEnds

Next ==
  \/ Start
  \/ \E c \in Callers, o \in Ops : Call(c, o)
  \/ \E c \in Callers : Push(c) \/ CloseGivesUp(c) \/ Return(c) \/ ReturnOnDone(c)
  \/ Loop
  \/ Transport
  \/ PeerReads
  \/ PeerCloses
  \/ Finished

Spec == Init /\ [][Next]_vars

\* Every goroutine is scheduled; select picks among its ready cases at random,
\* and blocked senders of a channel queue up, so that neither passes over one
\* of them for ever; the peer reads what it is sent while it is there.
Fairness ==
  /\ WF_vars(Loop) /\ WF_vars(Transport) /\ WF_vars(PeerReads)
  /\ SF_vars(SelectDone) /\ SF_vars(SelectRequest)
  /\ WF_vars(DoSend) /\ WF_vars(WriteTake) /\ WF_vars(WriteOut)
  /\ WF_vars(ReadFails) /\ WF_vars(WriteEnds)
  /\ \A c \in Callers :
       /\ SF_vars(Push(c))
       /\ WF_vars(Return(c)) /\ WF_vars(ReturnOnDone(c)) /\ WF_vars(CloseGivesUp(c))

FairSpec == Spec /\ Fairness

-----------------------------------------------------------------------------
TypeOK ==
  /\ {started, closeRequested, closed, done} \subseteq BOOLEAN
  /\ tombstone \in {"none", "final", "stale"}
  /\ loop \in Loops /\ work \in Seq(Item)
  /\ requests \in Seq(Request) /\ Len(requests) <= ReqCap
  /\ pc \in [Callers -> {"idle", "push", "wait"}] /\ op \in [Callers -> Methods]
  /\ reply \subseteq Callers /\ calls \in 0..MaxCalls
  /\ peer \in {"open", "closed"}
  /\ reader \in {"none", "reading", "pushing", "closing", "ended"}
  /\ writer \in {"none", "idle", "writing", "ended"}
  /\ incoming \in 0..InCap /\ outgoing \in 0..OutCap
  /\ wire \in 0..WireCap /\ arrived \in 0..MaxPeer

\* Status and LastMessage read the tombstone and the last messages without a
\* lock once closed is set: by then the tombstone is there, and it is the last
\* word, since the engine never changes after it was taken.
TombstoneFinal == closed => tombstone = "final"

\* The run loop never ends and leaves its transport open: whatever made it
\* leave, the context is cancelled and the socket closed.
EndedMeansDone == loop \in {"storing", "requesting", "closing", "ended"} => done

\* While the connection lives every call returns, whatever is full: no caller,
\* loop and peer wait for one another in a circle.
CallsReturnOrDone == \A c \in Callers : pc[c] # "idle" ~> pc[c] = "idle" \/ done

\* Close, called by the user or by the engine, shuts the session down.
CloseShutsDown == closeRequested ~> closed

\* A call returns although the loop ends under it.
CallsReturn == \A c \in Callers : pc[c] # "idle" ~> pc[c] = "idle"

\* Statements of the sources that the code does not keep.

\* "Send ... returns an error if ... the transport closes".
SendReturns == \A c \in Callers :
  pc[c] # "idle" /\ op[c] = "send" ~> pc[c] = "idle"

=============================================================================
