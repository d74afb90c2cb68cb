-------------------------- MODULE SessionActorProofs --------------------------
(***************************************************************************)
(* Proofs about SessionActor for every set of callers, reactions, bounds   *)
(* and capacities.                                                         *)
(***************************************************************************)
EXTENDS SessionActor, TLAPS

\* A transport whose read or write loop has left is closed, and the run loop
\* leaves only for a closed transport: Done(), or incoming closed by readLoop.
TransportInv ==
  /\ reader \in {"closing", "ended"} => done
  /\ writer = "ended" => done
  /\ EndedMeansDone

LEMMA TransportInvStep == TransportInv /\ [Next]_vars => TransportInv'
<1> SUFFICES ASSUME TransportInv, [Next]_vars PROVE TransportInv'
  OBVIOUS
<1> USE DEF TransportInv, EndedMeansDone
<1>1. CASE Start
  BY <1>1 DEF Start
<1>2. ASSUME NEW c \in Callers, NEW o \in Ops, Call(c, o) PROVE TransportInv'
  BY <1>2 DEF Call, loopVars, netVars
<1>3. ASSUME NEW c \in Callers,
             Push(c) \/ CloseGivesUp(c) \/ Return(c) \/ ReturnOnDone(c)
      PROVE  TransportInv'
  BY <1>3 DEF Push, CloseGivesUp, Return, ReturnOnDone, loopVars, netVars
<1>4. CASE SelectDone \/ SelectClosed
  BY <1>4 DEF SelectDone, SelectClosed, AtSelect, End, netVars
<1>5. CASE SelectIncoming \/ SelectTick \/ SelectRequest
  BY <1>5 DEF SelectIncoming, SelectTick, SelectRequest, netVars
<1>6. CASE DoSend \/ DoDeliver \/ DoAnswer \/ DoHand \/ DoClose \/ DoQueue
  BY <1>6 DEF DoSend, DoDeliver, DoAnswer, DoHand, DoClose, DoQueue, netVars
<1>7. CASE StoreTombstone \/ SetCloseRequested \/ SetClosed
  BY <1>7 DEF StoreTombstone, SetCloseRequested, SetClosed, Cleanup, netVars
<1>8. CASE Transport
  BY <1>8 DEF Transport, ReadFrame, ReadPush, ReadFails, ReadEnds, WriteTake, WriteOut,
              WriteEnds, session, loopVars
<1>9. CASE PeerReads \/ PeerCloses \/ Finished \/ UNCHANGED vars
  BY <1>9 DEF PeerReads, PeerCloses, Finished, vars, session, loopVars, netVars
<1> QED BY <1>1, <1>2, <1>3, <1>4, <1>5, <1>6, <1>7, <1>8, <1>9 DEF Next, Loop

\* However the run loop ends, its transport is closed: no socket and no
\* goroutine of the transport outlives the session.
THEOREM LoopClosesTransport == Spec => []EndedMeansDone
<1>1. Init => TransportInv
  BY DEF Init, TransportInv, EndedMeansDone
<1>2. TransportInv => EndedMeansDone
  BY DEF TransportInv
<1> QED BY <1>1, <1>2, TransportInvStep, PTL DEF Spec

\* In the deferred block the loop has nothing left to do, the tombstone is
\* taken first and closed is set last.
CleanupInv ==
  /\ started \/ loop = "new"
  /\ loop \in Loops
  /\ loop \in {"storing", "requesting", "closing", "ended"} => work = <<>>
  /\ loop \in {"requesting", "closing", "ended"} => tombstone = "final"
  /\ closed => loop = "ended"

LEMMA CleanupInvStep == CleanupInv /\ [Next]_vars => CleanupInv'
<1> SUFFICES ASSUME CleanupInv, [Next]_vars PROVE CleanupInv'
  OBVIOUS
<1> USE DEF CleanupInv, Loops
<1>1. CASE Start
  BY <1>1 DEF Start
<1>2. ASSUME NEW c \in Callers, NEW o \in Ops, Call(c, o) PROVE CleanupInv'
  BY <1>2 DEF Call, loopVars
<1>3. ASSUME NEW c \in Callers, Push(c) \/ CloseGivesUp(c) \/ Return(c)
      PROVE  CleanupInv'
  BY <1>3 DEF Push, CloseGivesUp, Return, flags, loopVars
<1>4. ASSUME NEW c \in Callers, ReturnOnDone(c) PROVE CleanupInv'
  <2>1. work = <<>> => work' = <<>>
    BY <1>4 DEF ReturnOnDone
  <2> QED BY <1>4, <2>1 DEF ReturnOnDone, flags
<1>5. CASE SelectDone \/ SelectClosed
  BY <1>5 DEF SelectDone, SelectClosed, AtSelect, End
<1>6. CASE SelectIncoming \/ SelectTick \/ SelectRequest
  BY <1>6 DEF SelectIncoming, SelectTick, SelectRequest, AtSelect, EngineMoves
<1>7. CASE DoSend \/ DoDeliver \/ DoAnswer \/ DoHand \/ DoClose \/ DoQueue
  <2>1. work # <<>> /\ started' = started /\ closed' = closed /\ loop' = loop
    BY <1>7 DEF DoSend, DoDeliver, DoAnswer, DoHand, DoClose, DoQueue, Step, flags
  <2> QED BY <2>1
<1>8. CASE StoreTombstone \/ SetCloseRequested \/ SetClosed
  BY <1>8 DEF StoreTombstone, SetCloseRequested, SetClosed, Cleanup
<1>9. CASE Transport
  BY <1>9 DEF Transport, ReadFrame, ReadPush, ReadFails, ReadEnds, WriteTake, WriteOut,
              WriteEnds, session, flags, loopVars
<1>10. CASE PeerReads \/ PeerCloses \/ Finished \/ UNCHANGED vars
  BY <1>10 DEF PeerReads, PeerCloses, Finished, vars, session, flags, loopVars
<1> QED
  BY <1>1, <1>2, <1>3, <1>4, <1>5, <1>6, <1>7, <1>8, <1>9, <1>10 DEF Next, Loop

\* Whoever sees closed set finds a tombstone, and the engine never moves again.
THEOREM TombstoneIsFinal == Spec => []TombstoneFinal
<1>1. Init => CleanupInv
  BY DEF Init, CleanupInv, Loops
<1>2. CleanupInv => TombstoneFinal
  BY DEF CleanupInv, TombstoneFinal
<1> QED BY <1>1, <1>2, CleanupInvStep, PTL DEF Spec

-----------------------------------------------------------------------------
(* Type correctness. *)

\* A sequence changed element by element has the length it had.
LEMMA MapType ==
  ASSUME NEW S, NEW T, NEW q \in Seq(S), NEW F, DOMAIN F = DOMAIN q,
         \A i \in DOMAIN q : F[i] \in T, F = [i \in DOMAIN q |-> F[i]]
  PROVE  F \in Seq(T) /\ Len(F) = Len(q)
<1>1. Len(q) \in Nat /\ DOMAIN q = 1..Len(q)
  OBVIOUS
<1>2. F \in [1..Len(q) -> T]
  BY <1>1
<1>3. F \in Seq(T)
  BY <1>1, <1>2
<1> QED BY <1>1, <1>3

LEMMA ItemType ==
  \A what \in {"send", "deliver", "close", "queue", "answer", "hand"},
     c \in Callers \cup {"engine"} : [do |-> what, for |-> c] \in Item
BY DEF Item

LEMMA TodoType ==
  ASSUME NEW acts \in Seq({"send", "deliver", "close"})
  PROVE  Todo(acts) \in Seq(Item)
<1>1. Len(acts) \in Nat /\ DOMAIN acts = 1..Len(acts)
  OBVIOUS
<1>2. Todo(acts) \in [1..Len(acts) -> Item]
  BY <1>1, ItemType DEF Todo
<1> QED BY <1>1, <1>2

LEMMA TodoSendType == Todo(<<"send">>) \in Seq(Item)
<1>1. <<"send">> \in Seq({"send", "deliver", "close"})
  OBVIOUS
<1> QED BY <1>1, TodoType

LEMMA AppliedType ==
  ASSUME NEW r \in Request
  PROVE  Applied(r) \subseteq Seq(Item)
<1>1. r.by \in Callers \cup {"engine"} /\ r.op \in Methods
  BY DEF Request
<1>2. /\ [do |-> "send", for |-> "engine"] \in Item
      /\ [do |-> "answer", for |-> r.by] \in Item
      /\ [do |-> "hand", for |-> r.by] \in Item
  BY <1>1, ItemType
<1>3. \A a, b \in Item : <<a, b>> \in Seq(Item) /\ <<a>> \in Seq(Item) /\ <<>> \in Seq(Item)
  OBVIOUS
<1>4. Todo(<<"send">>) \in Seq(Item)
  BY TodoSendType
<1> QED BY <1>1, <1>2, <1>3, <1>4 DEF Applied, Methods

LEMMA HeadTailType ==
  ASSUME NEW S, NEW q \in Seq(S), q # <<>>
  PROVE  Head(q) \in S /\ Tail(q) \in Seq(S) /\ Len(Tail(q)) <= Len(q)
OBVIOUS

LEMMA InitTypeOK == Init => TypeOK
<1> SUFFICES ASSUME Init PROVE TypeOK
  OBVIOUS
<1>1. /\ 0 \in 0..MaxCalls /\ 0 \in 0..MaxPeer /\ 0 \in 0..InCap /\ 0 \in 0..OutCap
      /\ 0 \in 0..WireCap /\ ReqCap \in Nat
  BY CapAssumption, BoundAssumption
<1>2. <<>> \in Seq(Item) /\ <<>> \in Seq(Request) /\ Len(<<>>) <= ReqCap
  BY <1>1
<1>3. /\ [c \in Callers |-> "idle"] \in [Callers -> {"idle", "push", "wait"}]
      /\ [c \in Callers |-> "status"] \in [Callers -> Methods]
  BY DEF Methods
<1> QED BY <1>1, <1>2, <1>3 DEF Init, TypeOK, Loops

\* The conjuncts of TypeOK, by who changes them.
LoopTypes ==
  /\ {started, closeRequested, closed} \subseteq BOOLEAN
  /\ tombstone \in {"none", "final", "stale"}
  /\ loop \in Loops /\ work \in Seq(Item)
CallTypes ==
  /\ requests \in Seq(Request) /\ Len(requests) <= ReqCap
  /\ pc \in [Callers -> {"idle", "push", "wait"}] /\ op \in [Callers -> Methods]
  /\ reply \subseteq Callers /\ calls \in 0..MaxCalls
NetTypes ==
  /\ done \in BOOLEAN /\ peer \in {"open", "closed"}
  /\ reader \in {"none", "reading", "pushing", "closing", "ended"}
  /\ writer \in {"none", "idle", "writing", "ended"}
  /\ incoming \in 0..InCap /\ outgoing \in 0..OutCap
  /\ wire \in 0..WireCap /\ arrived \in 0..MaxPeer

LEMMA TypeParts == TypeOK <=> LoopTypes /\ CallTypes /\ NetTypes
BY DEF TypeOK, LoopTypes, CallTypes, NetTypes

LEMMA TypePartsNext == LoopTypes' /\ CallTypes' /\ NetTypes' => TypeOK'
BY DEF TypeOK, LoopTypes, CallTypes, NetTypes

LEMMA LeaveType ==
  ASSUME CallTypes, NEW c, Leave(c)
  PROVE  /\ pc' \in [Callers -> {"idle", "push", "wait"}]
         /\ op' \in [Callers -> Methods]
BY DEF Leave, CallTypes, Methods

LEMMA EngineMovesType ==
  ASSUME EngineMoves PROVE tombstone' \in {"none", "final", "stale"}
BY DEF EngineMoves

\* A request that is queued where there is room.
LEMMA QueueType ==
  ASSUME CallTypes, NEW r \in Request, Len(requests) < ReqCap,
         requests' = Append(requests, r)
  PROVE  requests' \in Seq(Request) /\ Len(requests') <= ReqCap
<1>1. Len(requests) \in Nat /\ ReqCap \in Nat
  BY CapAssumption DEF CallTypes
<1>2. requests' \in Seq(Request) /\ Len(requests') = Len(requests) + 1
  BY DEF CallTypes
<1> QED BY <1>1, <1>2

LEMMA CallerTypes ==
  ASSUME TypeOK, NEW c \in Callers,
         (\E o \in Ops : Call(c, o)) \/ Push(c) \/ CloseGivesUp(c) \/ Return(c) \/ ReturnOnDone(c)
  PROVE  TypeOK'
<1>0. LoopTypes /\ CallTypes /\ NetTypes
  BY TypeParts
<1>1. ASSUME NEW o \in Ops, Call(c, o) PROVE TypeOK'
  <2>1. LoopTypes' /\ NetTypes'
    BY <1>0, <1>1 DEF Call, loopVars, netVars, LoopTypes, NetTypes
  <2>2. o \in Methods /\ calls' \in 0..MaxCalls
    BY <1>0, <1>1, OpsAssumption, BoundAssumption DEF Call, CallTypes
  <2>3. CallTypes'
    BY <1>0, <1>1, <2>2 DEF Call, CallTypes
  <2> QED BY <2>1, <2>3, TypePartsNext
<1>2. CASE Push(c)
  <2>1. LoopTypes' /\ NetTypes'
    BY <1>0, <1>2 DEF Push, flags, loopVars, netVars, LoopTypes, NetTypes
  <2>2. [op |-> op[c], by |-> c] \in Request
    BY <1>0 DEF CallTypes, Request
  <2>3. requests' \in Seq(Request) /\ Len(requests') <= ReqCap
    BY <1>0, <1>2, <2>2, QueueType DEF Push
  <2>4. pc' \in [Callers -> {"idle", "push", "wait"}] /\ op' \in [Callers -> Methods]
    <3>1. CASE Leave(c)
      BY <1>0, <3>1, LeaveType
    <3>2. CASE pc' = [pc EXCEPT ![c] = "wait"] /\ UNCHANGED op
      BY <1>0, <3>2 DEF CallTypes
    <3> QED BY <1>2, <3>1, <3>2 DEF Push
  <2>5. CallTypes'
    BY <1>0, <1>2, <2>3, <2>4 DEF Push, CallTypes
  <2> QED BY <2>1, <2>5, TypePartsNext
<1>3. CASE CloseGivesUp(c) \/ Return(c)
  <2>1. LoopTypes' /\ NetTypes'
    BY <1>0, <1>3 DEF CloseGivesUp, Return, flags, loopVars, netVars, LoopTypes, NetTypes
  <2>2. Leave(c) /\ UNCHANGED <<calls, requests>> /\ reply' \subseteq reply
    BY <1>3 DEF CloseGivesUp, Return
  <2>3. CallTypes'
    BY <1>0, <2>2, LeaveType DEF CallTypes
  <2> QED BY <2>1, <2>3, TypePartsNext
<1>4. CASE ReturnOnDone(c)
  <2>1. requests' \in Seq(Request) /\ Len(requests') = Len(requests)
    <3>1. \A r \in Request : [r EXCEPT !.by = "engine"] \in Request
      BY DEF Request
    <3>2. DOMAIN requests' = DOMAIN requests /\ requests' = [i \in DOMAIN requests |-> requests'[i]]
      BY <1>4 DEF ReturnOnDone
    <3>3. \A i \in DOMAIN requests : requests[i] \in Request
      BY <1>0 DEF CallTypes
    <3>4. \A i \in DOMAIN requests : requests'[i] \in Request
      BY <1>4, <3>1, <3>3 DEF ReturnOnDone
    <3> QED BY <1>0, <3>2, <3>4, MapType DEF CallTypes
  <2>2. work' \in Seq(Item)
    <3>1. \A w \in Item : [w EXCEPT !.for = "engine"] \in Item
      BY DEF Item
    <3>2. DOMAIN work' = DOMAIN work /\ work' = [i \in DOMAIN work |-> work'[i]]
      BY <1>4 DEF ReturnOnDone
    <3>3. \A i \in DOMAIN work : work[i] \in Item
      BY <1>0 DEF LoopTypes
    <3>4. \A i \in DOMAIN work : work'[i] \in Item
      BY <1>4, <3>1, <3>3 DEF ReturnOnDone
    <3> QED BY <1>0, <3>2, <3>4, MapType DEF LoopTypes
  <2>3. LoopTypes' /\ NetTypes'
    BY <1>0, <1>4, <2>2 DEF ReturnOnDone, flags, netVars, LoopTypes, NetTypes
  <2>4. CallTypes'
    BY <1>0, <1>4, <2>1, LeaveType DEF ReturnOnDone, CallTypes
  <2> QED BY <2>3, <2>4, TypePartsNext
<1> QED BY <1>1, <1>2, <1>3, <1>4

LEMMA SelectTypes ==
  ASSUME TypeOK, SelectDone \/ SelectClosed \/ SelectIncoming \/ SelectTick \/ SelectRequest
  PROVE  TypeOK'
<1>0. LoopTypes /\ CallTypes /\ NetTypes
  BY TypeParts
<1>1. CASE SelectDone \/ SelectClosed
  <2>1. End
    BY <1>1 DEF SelectDone, SelectClosed
  <2> QED BY <1>0, <2>1, EngineMovesType, TypePartsNext
      DEF End, LoopTypes, CallTypes, NetTypes, Loops, callVars, netVars
<1>2. CASE SelectIncoming \/ SelectTick
  <2>1. work' \in Seq(Item) /\ EngineMoves
    BY <1>2, ReactionsAssumption, TodoType DEF SelectIncoming, SelectTick
  <2>2. /\ UNCHANGED <<started, closeRequested, closed, loop, callVars, requests, reply>>
        /\ UNCHANGED <<done, peer, reader, writer, outgoing, wire, arrived>>
        /\ incoming' = incoming \/ (incoming > 0 /\ incoming' = incoming - 1)
    BY <1>2 DEF SelectIncoming, SelectTick, netVars
  <2>3. incoming' \in 0..InCap
    BY <1>0, <2>2, CapAssumption DEF NetTypes
  <2> QED BY <1>0, <2>1, <2>2, <2>3, EngineMovesType, TypePartsNext
      DEF LoopTypes, CallTypes, NetTypes, callVars
<1>3. CASE SelectRequest
  <2>1. /\ Head(requests) \in Request
        /\ requests' \in Seq(Request) /\ Len(requests') <= Len(requests)
    BY <1>0, <1>3, HeadTailType DEF SelectRequest, CallTypes
  <2>2. Len(requests') <= ReqCap
    <3>1. Len(requests) \in Nat /\ Len(requests') \in Nat /\ ReqCap \in Nat
      BY <1>0, <2>1, CapAssumption DEF CallTypes
    <3> QED BY <1>0, <2>1, <3>1 DEF CallTypes
  <2>3. work' \in Seq(Item)
    BY <1>3, <2>1, AppliedType DEF SelectRequest
  <2>4. tombstone' \in {"none", "final", "stale"}
    BY <1>0, <1>3, EngineMovesType DEF SelectRequest, LoopTypes
  <2>5. /\ UNCHANGED <<started, closeRequested, closed, loop, callVars, reply>>
        /\ UNCHANGED <<peer, reader, writer, incoming, outgoing, wire, arrived>>
        /\ done' \in BOOLEAN
    BY <1>0, <1>3 DEF SelectRequest, NetTypes
  <2> QED BY <1>0, <2>1, <2>2, <2>3, <2>4, <2>5, TypePartsNext
      DEF LoopTypes, CallTypes, NetTypes, callVars
<1> QED BY <1>1, <1>2, <1>3

LEMMA IterationTypes ==
  ASSUME TypeOK, DoSend \/ DoDeliver \/ DoAnswer \/ DoHand \/ DoClose \/ DoQueue
  PROVE  TypeOK'
<1>0. LoopTypes /\ CallTypes /\ NetTypes
  BY TypeParts
<1>1. work # <<>>
  BY DEF DoSend, DoDeliver, DoAnswer, DoHand, DoClose, DoQueue, Step
<1>2. Head(work) \in Item /\ Tail(work) \in Seq(Item)
  BY <1>0, <1>1, HeadTailType DEF LoopTypes
<1>3. CASE DoSend
  <2>1. outgoing' \in 0..OutCap
    BY <1>0, <1>3, CapAssumption DEF DoSend, NetTypes
  <2>2. tombstone' \in {"none", "final", "stale"}
    BY <1>0, <1>3, EngineMovesType DEF DoSend, LoopTypes
  <2>3. /\ work' = Tail(work)
        /\ UNCHANGED <<started, closeRequested, closed, loop, callVars, requests, reply>>
        /\ UNCHANGED <<done, peer, reader, writer, incoming, wire, arrived>>
    BY <1>3 DEF DoSend, Step
  <2> QED BY <1>0, <1>2, <2>1, <2>2, <2>3, TypePartsNext
      DEF LoopTypes, CallTypes, NetTypes, callVars
<1>4. CASE DoDeliver \/ DoAnswer
  <2>1. reply' \subseteq Callers
    BY <1>0, <1>2, <1>4 DEF DoDeliver, DoAnswer, CallTypes, Item
  <2>2. work' = Tail(work) /\ UNCHANGED <<flags, loop, callVars, requests, netVars>>
    BY <1>4 DEF DoDeliver, DoAnswer, Step
  <2> QED BY <1>0, <1>2, <2>1, <2>2, TypePartsNext
      DEF LoopTypes, CallTypes, NetTypes, flags, callVars, netVars
<1>5. CASE DoHand
  <2>1. pc' \in [Callers -> {"idle", "push", "wait"}] /\ op' \in [Callers -> Methods]
    BY <1>0, <1>5, LeaveType DEF DoHand
  <2>2. work' = Tail(work) /\ UNCHANGED <<flags, loop, calls, requests, reply, netVars>>
    BY <1>5 DEF DoHand, Step
  <2> QED BY <1>0, <1>2, <2>1, <2>2, TypePartsNext
      DEF LoopTypes, CallTypes, NetTypes, flags, netVars
<1>6. CASE DoClose
  <2>1. [do |-> "queue", for |-> "engine"] \in Item
    BY ItemType
  <2>2. work' \in Seq(Item)
    <3>1. <<[do |-> "queue", for |-> "engine"]>> \o Tail(work) \in Seq(Item)
      BY <1>2, <2>1
    <3> QED BY <1>2, <1>6, <3>1 DEF DoClose
  <2>3. /\ closeRequested' = TRUE
        /\ UNCHANGED <<started, closed, tombstone, loop, callVars, requests, reply, netVars>>
    BY <1>6 DEF DoClose
  <2> QED BY <1>0, <2>2, <2>3, TypePartsNext
      DEF LoopTypes, CallTypes, NetTypes, callVars, netVars
<1>7. CASE DoQueue
  <2>1. [op |-> "close", by |-> "engine"] \in Request
    BY DEF Request, Methods
  <2>2. requests' \in Seq(Request) /\ Len(requests') <= ReqCap
    BY <1>0, <1>7, <2>1, QueueType DEF DoQueue, CallTypes
  <2>3. work' = Tail(work) /\ UNCHANGED <<flags, loop, callVars, reply, netVars>>
    BY <1>7 DEF DoQueue, Step
  <2> QED BY <1>0, <1>2, <2>2, <2>3, TypePartsNext
      DEF LoopTypes, CallTypes, NetTypes, flags, callVars, netVars
<1> QED BY <1>3, <1>4, <1>5, <1>6, <1>7

LEMMA TransportTypes ==
  ASSUME TypeOK, Transport \/ PeerReads \/ PeerCloses
  PROVE  TypeOK'
<1>0. LoopTypes /\ CallTypes /\ NetTypes
  BY TypeParts
<1>1. LoopTypes' /\ CallTypes'
  <2>1. UNCHANGED session
    BY DEF Transport, ReadFrame, ReadPush, ReadFails, ReadEnds, WriteTake, WriteOut, WriteEnds,
           PeerReads, PeerCloses
  <2> QED BY <1>0, <2>1 DEF session, flags, loopVars, callVars, LoopTypes, CallTypes
<1>2. NetTypes'
  <2>0. InCap \in Nat /\ OutCap \in Nat /\ WireCap \in Nat /\ MaxPeer \in Nat
    BY CapAssumption, BoundAssumption
  <2> USE <1>0, <2>0 DEF NetTypes
  <2>1. CASE ReadFrame \/ ReadPush
    <3>1. incoming' \in 0..InCap /\ arrived' \in 0..MaxPeer
      BY <2>1 DEF ReadFrame, ReadPush
    <3> QED BY <2>1, <3>1 DEF ReadFrame, ReadPush
  <2>2. CASE ReadFails \/ ReadEnds \/ WriteEnds
    BY <2>2 DEF ReadFails, ReadEnds, WriteEnds
  <2>3. CASE WriteTake
    <3>1. outgoing' \in 0..OutCap
      BY <2>3 DEF WriteTake
    <3> QED BY <2>3, <3>1 DEF WriteTake
  <2>4. CASE WriteOut \/ PeerReads
    <3>1. wire' \in 0..WireCap
      BY <2>4 DEF WriteOut, PeerReads
    <3> QED BY <2>4, <3>1 DEF WriteOut, PeerReads
  <2>5. CASE PeerCloses
    BY <2>5 DEF PeerCloses
  <2> QED BY <2>1, <2>2, <2>3, <2>4, <2>5 DEF Transport
<1> QED BY <1>1, <1>2, TypePartsNext

LEMMA NextTypeOK == TypeOK /\ [Next]_vars => TypeOK'
<1> SUFFICES ASSUME TypeOK, [Next]_vars PROVE TypeOK'
  OBVIOUS
<1>0. LoopTypes /\ CallTypes /\ NetTypes
  BY TypeParts
<1>1. CASE Start
  <2>1. work' \in Seq(Item)
    <3>1. <<>> \in Seq(Item)
      OBVIOUS
    <3> QED BY <1>1, <3>1, TodoSendType DEF Start
  <2> QED BY <1>0, <1>1, <2>1, TypePartsNext
      DEF Start, LoopTypes, CallTypes, NetTypes, Loops, callVars
<1>2. ASSUME NEW c \in Callers,
             \/ \E o \in Ops : Call(c, o)
             \/ Push(c) \/ CloseGivesUp(c) \/ Return(c) \/ ReturnOnDone(c)
      PROVE  TypeOK'
  BY <1>2, CallerTypes
<1>3. CASE StoreTombstone \/ SetCloseRequested \/ SetClosed
  BY <1>0, <1>3, TypePartsNext
  DEF StoreTombstone, SetCloseRequested, SetClosed, Cleanup, LoopTypes, CallTypes, NetTypes,
      Loops, callVars, netVars
<1>4. CASE Finished \/ UNCHANGED vars
  BY <1>0, <1>4, TypePartsNext
  DEF Finished, vars, flags, loopVars, callVars, netVars, LoopTypes, CallTypes, NetTypes
<1> QED
  BY <1>1, <1>2, <1>3, <1>4, SelectTypes, IterationTypes, TransportTypes DEF Next, Loop

\* Every reachable state is well typed, for every number of callers and every
\* capacity: no channel holds more than its capacity.
THEOREM TypeCorrect == Spec => []TypeOK
BY InitTypeOK, NextTypeOK, PTL DEF Spec

=============================================================================
