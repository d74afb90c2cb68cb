--------------------------- MODULE FixSessionProofs ---------------------------
(***************************************************************************)
(* Proofs about FixSession for every value of its constants: any messages, *)
(* requests, bounds and heartbeat interval.                                *)
(***************************************************************************)
EXTENDS FixSession, WellFoundedInduction, SequenceTheorems, TLAPS

-----------------------------------------------------------------------------
(* Types of the operators the handlers are built from. *)

\* A non-empty set of naturals has a least element.
LEMMA LeastElement ==
  ASSUME NEW S \in SUBSET Nat, S # {}
  PROVE  \E x \in S : \A y \in S : x <= y
<1> DEFINE R == OpToRel(<, Nat)
<1>1. IsWellFoundedOn(R, Nat)
  BY NatLessThanWellFounded
<1>2. \A x, y \in Nat : y < x => <<y, x>> \in R
  BY DEF OpToRel
<1> HIDE DEF R
<1>3. PICK x \in S : \A y \in S : ~(<<y, x>> \in R)
  BY <1>1, WFMin
<1>4. \A y \in S : ~(y < x)
  BY <1>2, <1>3
<1> QED BY <1>4

LEMMA SampleType == ASSUME NEW t \in MsgTypes PROVE Sample(t) \in Message
BY HbAssumption DEF Sample, Message, Faults

LEMMA MessageFields ==
  ASSUME NEW m \in Message, NEW n \in Int
  PROVE  /\ [m EXCEPT !.hb = n] \in Message
         /\ [m EXCEPT !.beg = n] \in Message
         /\ [m EXCEPT !.new = n, !.gap = "N"] \in Message
         /\ [m EXCEPT !.seq = n] \in Message
BY DEF Message

LEMMA GapFillFlags ==
  ASSUME NEW m \in Message
  PROVE  [m EXCEPT !.gap = "Y", !.dups = 1] \in Message
<1>1. 1 \in 0..2 /\ "Y" \in {"-", "Y", "N"}
  OBVIOUS
<1> QED BY <1>1 DEF Message

LEMMA ResetFlag == ASSUME NEW m \in Message PROVE [m EXCEPT !.reset = TRUE] \in Message
BY DEF Message

LEMMA ActionType ==
  /\ \A m \in Message : Send(m) \in Action /\ Deliver(m) \in Action
  /\ Close \in Action
  /\ Skip \in Action
<1>1. Sample("5") \in Message /\ Sample("0") \in Message
  BY SampleType DEF MsgTypes, Admin
<1> QED BY <1>1 DEF Action, Send, Deliver, Close, Skip

Results == [eng : Engine, acts : Seq(Action), accepted : BOOLEAN]

LEMMA ListType ==
  /\ <<>> \in Seq(Action)
  /\ \A a \in Action : <<a>> \in Seq(Action)
  /\ \A a, b \in Action : <<a, b>> \in Seq(Action)
OBVIOUS

LEMMA ResultType ==
  ASSUME NEW e \in Engine, NEW acts \in Seq(Action), NEW b \in BOOLEAN
  PROVE  Result(e, acts, b) \in Results
BY DEF Result, Results

LEMMA ToType == ASSUME NEW e \in Engine, NEW s \in States PROVE To(e, s) \in Engine
BY DEF To, Engine

LEMMA EngineFields ==
  ASSUME NEW e \in Engine, NEW n \in Int
  PROVE  /\ [e EXCEPT !.in = n] \in Engine
         /\ [e EXCEPT !.out = n] \in Engine
         /\ [e EXCEPT !.state = "OutOfSync", !.until = n] \in Engine
         /\ [e EXCEPT !.state = "Active", !.until = n] \in Engine
BY DEF Engine, States

LEMMA EngineNumbers ==
  ASSUME NEW e \in Engine, NEW i \in Int, NEW o \in Int
  PROVE  [e EXCEPT !.in = i, !.out = o] \in Engine
BY DEF Engine

LEMMA EngineClocks ==
  ASSUME NEW e \in Engine
  PROVE  /\ [e EXCEPT !.read = 0] \in Engine
         /\ [e EXCEPT !.write = 0] \in Engine
         /\ [e EXCEPT !.read = 0, !.write = 0] \in Engine
<1>1. 0 \in 0..IdleCap
  BY IdleAssumption
<1> QED BY <1>1 DEF Engine

LEMMA StoreAppendType ==
  ASSUME NEW e \in Engine, NEW m \in Message
  PROVE  StoreAppend(e, m) \in Engine
<1>1. m.seq \in Int
  BY DEF Message
<1> QED BY <1>1 DEF StoreAppend, Engine

LEMMA StoreResetType == ASSUME NEW e \in Engine PROVE StoreReset(e) \in Engine
<1>1. \A s \in SUBSET Message, n \in Int : [e EXCEPT !.store = s, !.last = n] \in Engine
  BY DEF Engine
<1>2. {} \in SUBSET Message /\ 0 \in Int
  OBVIOUS
<1> QED BY <1>1, <1>2 DEF StoreReset

LEMMA RecordWriteType ==
  ASSUME NEW e \in Engine, NEW m \in Message
  PROVE  RecordWrite(e, m) \in Engine
<1> DEFINE written0 == [e EXCEPT !.write = 0]
           counted == [written0 EXCEPT !.out = @ + 1]
<1>1. written0 \in Engine
  BY EngineClocks
<1>2. counted \in Engine
  <2>1. written0.out + 1 \in Int
    BY <1>1 DEF Engine
  <2> HIDE DEF written0
  <2> QED BY <1>1, <2>1, EngineFields
<1> QED BY <1>1, <1>2, StoreAppendType DEF RecordWrite

LEMMA FinalizedType ==
  ASSUME NEW e \in Engine, NEW m \in Message
  PROVE  Finalized(e, m) \in Message
BY DEF Finalized, Engine, Message

LEMMA OffType == ASSUME NEW e \in Engine PROVE Off(e) \in Results
<1>1. To(e, "Closed") \in Engine
  BY ToType DEF States
<1>2. Send(Sample("5")) \in Action /\ Close \in Action
  BY ActionType, SampleType DEF MsgTypes, Admin
<1> QED BY <1>1, <1>2, ResultType, ListType DEF Off

-----------------------------------------------------------------------------
(* Types of the handlers. *)

LEMMA OnStartType ==
  ASSUME NEW e \in Engine, NEW isClient \in BOOLEAN
  PROVE  OnStart(e, isClient) \in Results
<1> DEFINE fresh == [e EXCEPT !.read = 0, !.write = 0]
<1>1. fresh \in Engine
  BY EngineClocks
<1>2. To(fresh, "LoggingIn") \in Engine /\ To(fresh, "Listening") \in Engine
  BY <1>1, ToType DEF States
<1>3. Send([Sample("A") EXCEPT !.reset = TRUE]) \in Action
  BY ActionType, SampleType, ResetFlag DEF MsgTypes, Admin
<1> QED BY <1>2, <1>3, ResultType, ListType DEF OnStart

LEMMA LogonNumbersType ==
  ASSUME NEW e \in Engine, NEW m \in Message
  PROVE  LogonNumbers(e, m) \in Engine
<1>1. CASE m.reset
  <2>1. StoreReset(e) \in Engine
    BY StoreResetType
  <2> DEFINE out == IF e.state = "Listening" THEN 1 ELSE StoreReset(e).out
  <2>2. LogonNumbers(e, m) = [StoreReset(e) EXCEPT !.in = 1, !.out = out]
    BY <1>1 DEF LogonNumbers
  <2>3. out \in Int /\ 1 \in Int
    BY <2>1 DEF Engine
  <2> HIDE DEF out
  <2> QED BY <2>1, <2>2, <2>3, EngineNumbers
<1>2. CASE ~m.reset
  <2>1. (IF m.seq > e.in THEN m.seq ELSE e.in) \in Int
    BY DEF Engine, Message
  <2> QED BY <1>2, <2>1, EngineFields DEF LogonNumbers
<1> QED BY <1>1, <1>2

LEMMA HandleLogonType ==
  ASSUME NEW e \in Engine, NEW m \in Message
  PROVE  HandleLogon(e, m) \in Results
<1>1. CASE BadHeartBtInt(e, m)
  <2>1. Off(e).eng \in Engine
    BY OffType DEF Results
  <2>2. Send(Sample("5")) \in Action /\ Close \in Action
    BY ActionType, SampleType DEF MsgTypes, Admin
  <2> QED BY <1>1, <2>1, <2>2, ResultType, ListType DEF HandleLogon
<1>2. CASE ~BadHeartBtInt(e, m)
  <2>1. LogonNumbers(e, m) \in Engine
    BY LogonNumbersType
  <2>2. m.hb \in Nat \ {0} /\ m.hb \in Int
    BY <1>2 DEF BadHeartBtInt, Message
  <2>3. [LogonNumbers(e, m) EXCEPT !.state = "Active", !.hb = m.hb] \in Engine
    BY <2>1, <2>2 DEF Engine, States
  <2>4. To(LogonNumbers(e, m), "Active") \in Engine
    BY <2>1, ToType DEF States
  <2>5. Send([Sample("A") EXCEPT !.hb = m.hb]) \in Action
    BY <2>2, ActionType, SampleType, MessageFields DEF MsgTypes, Admin
  <2> QED BY <1>2, <2>3, <2>4, <2>5, ResultType, ListType DEF HandleLogon
<1> QED BY <1>1, <1>2

LEMMA ReplayAtType ==
  ASSUME NEW e \in Engine, NEW m \in Message, m.beg > 0, NEW n \in Int, n >= m.beg
  PROVE  ReplayAt(e, m, n) \in Action
<1> DEFINE stored == {r.seq : r \in Fetched(e, m)}
           later == {k \in stored : k > n}
           next == IF later = {} THEN ReplayEnd(e, m) + 1
                   ELSE CHOOSE k \in later : \A l \in later : k <= l
<1>1. Fetched(e, m) \subseteq Message
  BY DEF Fetched, Engine
<1>2. stored \subseteq Int
  BY <1>1 DEF Message
<1>3. ReplayEnd(e, m) \in Int
  BY DEF ReplayEnd, Engine, Message
<1>4. next \in Int
  <2>1. later \in SUBSET Nat
    BY <1>2 DEF Message
  <2>2. CASE later # {}
    BY <1>2, <2>1, <2>2, LeastElement
  <2> QED BY <1>3, <2>2
<1>5. n \in stored => (CHOOSE r \in Fetched(e, m) : r.seq = n) \in Message
  BY <1>1
<1>6. \A r \in Message : ReplayOf(r) \in Message
  BY DEF ReplayOf, Message
<1>7. GapFillFrom(n, next) \in Message
  <2>1. Sample("4") \in Message
    BY SampleType DEF MsgTypes, Admin
  <2> HIDE DEF next
  <2>2. SeqResetTemplate \in Message
    BY <2>1, GapFillFlags DEF SeqResetTemplate
  <2> QED BY <1>4, <2>2 DEF GapFillFrom, Message
<1> HIDE DEF next
<1>8. \/ ReplayAt(e, m, n) = Send(ReplayOf(CHOOSE r \in Fetched(e, m) : r.seq = n)) /\ n \in stored
      \/ ReplayAt(e, m, n) = Send(GapFillFrom(n, next))
      \/ ReplayAt(e, m, n) = Skip
  BY DEF ReplayAt, next
<1> HIDE DEF stored
<1> QED BY <1>5, <1>6, <1>7, <1>8, ActionType

LEMMA HandleResendType ==
  ASSUME NEW e \in Engine, NEW m \in Message
  PROVE  HandleResend(e, m) \in Seq(Action)
<1>1. CASE m.fault = "number" \/ m.beg <= 0
  <2>1. Send(Sample("3")) \in Action
    BY ActionType, SampleType DEF MsgTypes, Admin
  <2> QED BY <1>1, <2>1 DEF HandleResend
<1>2. CASE ~(m.fault = "number" \/ m.beg <= 0)
  <2> DEFINE len == ReplayLast(e, m) - m.beg + 1
  <2>1. m.beg \in Int /\ m.beg > 0
    BY <1>2 DEF Message
  <2>2. ReplayLast(e, m) \in Int
    BY DEF ReplayLast, ReplayEnd, Engine, Message
  <2>3. len \in Int
    BY <2>1, <2>2
  <2>4. \A i \in 1..len : ReplayAt(e, m, m.beg + i - 1) \in Action
    <3> SUFFICES ASSUME NEW i \in 1..len PROVE ReplayAt(e, m, m.beg + i - 1) \in Action
      OBVIOUS
    <3>1. i \in Int /\ i >= 1
      BY <2>3
    <3> HIDE DEF len
    <3>2. m.beg + i - 1 \in Int /\ m.beg + i - 1 >= m.beg
      BY <2>1, <3>1
    <3> QED BY <2>1, <3>2, ReplayAtType
  <2>5. HandleResend(e, m) = [i \in 1..len |-> ReplayAt(e, m, m.beg + i - 1)]
    BY <1>2 DEF HandleResend
  <2> HIDE DEF len
  <2>6. \E k \in Nat : 1..len = 1..k
    <3>1. CASE len >= 0
      BY <2>3, <3>1
    <3>2. CASE len < 0
      <4>1. 1..len = 1..0
        BY <2>3, <3>2
      <4> QED BY <4>1
    <3> QED BY <2>3, <3>1, <3>2
  <2>7. PICK k \in Nat : 1..len = 1..k
    BY <2>6
  <2>8. HandleResend(e, m) \in [1..k -> Action]
    BY <2>4, <2>5, <2>7
  <2> QED BY <2>8
<1> QED BY <1>1, <1>2

LEMMA HandleSequenceResetType ==
  ASSUME NEW e \in Engine, NEW m \in Message
  PROVE  HandleSequenceReset(e, m) \in Results
<1>1. [e EXCEPT !.in = m.new] \in Engine
  BY EngineFields DEF Message
<1>2. Send(Sample("3")) \in Action
  BY ActionType, SampleType DEF MsgTypes, Admin
<1> QED BY <1>1, <1>2, ResultType, ListType DEF HandleSequenceReset

LEMMA HandleAppMessageType ==
  ASSUME NEW e \in Engine, NEW m \in Message
  PROVE  HandleAppMessage(e, m) \in Results
<1>1. CASE GapSeen(e, m)
  <2>1. [e EXCEPT !.state = "OutOfSync", !.until = m.seq] \in Engine
    BY EngineFields DEF Message
  <2>2. e.in \in Int
    BY DEF Engine
  <2>3. Send([Sample("2") EXCEPT !.beg = e.in]) \in Action
    BY <2>2, ActionType, SampleType, MessageFields DEF MsgTypes, Admin
  <2> QED BY <1>1, <2>1, <2>3, ResultType, ListType DEF HandleAppMessage
<1>2. CASE ~GapSeen(e, m)
  <2>1. Send(Sample("0")) \in Action /\ Deliver(m) \in Action
    BY ActionType, SampleType DEF MsgTypes, Admin
  <2>2. /\ Result(e, <<>>, TRUE) \in Results
        /\ Result(e, <<Send(Sample("0"))>>, TRUE) \in Results
        /\ Result(e, HandleResend(e, m), TRUE) \in Results
        /\ Result(e, <<Deliver(m)>>, TRUE) \in Results
    BY <2>1, ResultType, ListType, HandleResendType
  <2>3. HandleSequenceReset(e, m) \in Results /\ Off(e) \in Results
    BY HandleSequenceResetType, OffType
  <2> QED BY <1>2, <2>2, <2>3 DEF HandleAppMessage
<1> QED BY <1>1, <1>2

LEMMA ActivatedType ==
  ASSUME NEW r \in Results
  PROVE  [r EXCEPT !.eng.state = "Active"] \in Results
<1>1. To(r.eng, "Active") \in Engine
  BY ToType DEF States, Results
<1>2. [r EXCEPT !.eng.state = "Active"] = [r EXCEPT !.eng = To(r.eng, "Active")]
  BY DEF Results, To
<1> QED BY <1>1, <1>2 DEF Results

LEMMA HandleOutSyncMessageType ==
  ASSUME NEW e \in Engine, NEW m \in Message
  PROVE  HandleOutSyncMessage(e, m) \in Results
<1>1. HandleAppMessage(e, m) \in Results
  BY HandleAppMessageType
<1>2. [HandleAppMessage(e, m) EXCEPT !.eng.state = "Active"] \in Results
  BY <1>1, ActivatedType
<1>3. Result(e, HandleResend(e, m), FALSE) \in Results /\ Result(e, <<>>, FALSE) \in Results
  BY HandleResendType, ResultType, ListType
<1> QED BY <1>1, <1>2, <1>3 DEF HandleOutSyncMessage

LEMMA DispatchType ==
  ASSUME NEW e \in Engine, NEW m \in Message
  PROVE  Dispatch(e, m) \in Results
<1>1. /\ HandleLogon(e, m) \in Results
      /\ HandleAppMessage(e, m) \in Results
      /\ HandleOutSyncMessage(e, m) \in Results
  BY HandleLogonType, HandleAppMessageType, HandleOutSyncMessageType
<1>2. [HandleAppMessage(e, m) EXCEPT !.eng.state = "Active"] \in Results
  BY <1>1, ActivatedType
<1>3. Send(Sample("3")) \in Action
  BY ActionType, SampleType DEF MsgTypes, Admin
<1>4. Result(e, <<Send(Sample("3"))>>, FALSE) \in Results /\ Result(e, <<>>, FALSE) \in Results
  BY <1>3, ResultType, ListType
<1> QED BY <1>1, <1>2, <1>4 DEF Dispatch

LEMMA CountedType == ASSUME NEW e \in Engine PROVE Counted(e) \in Engine
<1>1. e.in + 1 \in Int
  BY DEF Engine
<1> QED BY <1>1, EngineFields DEF Counted

LEMMA ProcessType ==
  ASSUME NEW e \in Engine, NEW m \in Message
  PROVE  Process(e, m) \in Results
<1> DEFINE r == Dispatch(e, m)
<1>1. r \in Results
  BY DispatchType
<1>2. [r EXCEPT !.eng = Counted(r.eng)] \in Results
  <2> HIDE DEF r
  <2>1. Counted(r.eng) \in Engine
    BY <1>1, CountedType DEF Results
  <2> QED BY <1>1, <2>1 DEF Results
<1>3. Send(Sample("3")) \in Action /\ Send(Sample("5")) \in Action /\ Close \in Action
  BY ActionType, SampleType DEF MsgTypes, Admin
<1>4. /\ Result(Counted(e), <<Send(Sample("3"))>>, FALSE) \in Results
      /\ Result(e, <<Send(Sample("5")), Close>>, FALSE) \in Results
  BY <1>3, CountedType, ResultType, ListType
<1> QED BY <1>1, <1>2, <1>4 DEF Process

LEMMA OnMessageType ==
  ASSUME NEW e \in Engine, NEW m \in Message
  PROVE  OnMessage(e, m) \in Results
BY EngineClocks, ProcessType DEF OnMessage

LEMMA OnTickType ==
  ASSUME NEW e \in Engine
  PROVE  OnTick(e) \in Results
<1> DEFINE heartbeat == IF e.write >= e.hb THEN <<Send(Sample("0"))>> ELSE <<>>
<1>1. Send(Sample("0")) \in Action /\ Send(Sample("1")) \in Action /\ Close \in Action
  BY ActionType, SampleType DEF MsgTypes, Admin
<1>2. heartbeat \in Seq(Action)
  BY <1>1, ListType
<1>3. Off(e).eng \in Engine /\ To(e, "Stale") \in Engine
  BY OffType, ToType DEF States, Results
<1> HIDE DEF heartbeat
<1>4. Append(heartbeat, Send(Sample("1"))) \in Seq(Action)
  BY <1>1, <1>2
<1>5. /\ Result(Off(e).eng, <<Close>>, TRUE) \in Results
      /\ Result(To(e, "Stale"), Append(heartbeat, Send(Sample("1"))), TRUE) \in Results
      /\ Result(e, heartbeat, TRUE) \in Results
  BY <1>1, <1>2, <1>3, <1>4, ResultType, ListType
<1> QED BY <1>5 DEF OnTick, heartbeat

LEMMA OnResetSequenceType ==
  ASSUME NEW e \in Engine, NEW in \in Int, NEW out \in Int
  PROVE  OnResetSequence(e, in, out) \in Results
<1> DEFINE moved == [e EXCEPT !.in = in, !.out = out]
           hard == Send([Sample("4") EXCEPT !.new = out, !.gap = "N"])
<1>1. moved \in Engine
  BY EngineNumbers
<1>2. [moved EXCEPT !.state = "Active", !.until = 0] \in Engine
  <2> HIDE DEF moved
  <2>1. 0 \in Int
    OBVIOUS
  <2> QED BY <1>1, <2>1, EngineFields
<1>3. hard \in Action
  BY ActionType, SampleType, MessageFields DEF MsgTypes, Admin
<1> HIDE DEF hard
<1>4. <<hard>> \in Seq(Action) /\ <<>> \in Seq(Action)
  BY <1>3, ListType
<1> HIDE DEF moved
<1>5. \A acts \in Seq(Action) : /\ Result([moved EXCEPT !.state = "Active", !.until = 0], acts, TRUE) \in Results
                                /\ Result(moved, acts, TRUE) \in Results
  BY <1>1, <1>2, ResultType
<1> QED BY <1>4, <1>5 DEF OnResetSequence, moved, hard

-----------------------------------------------------------------------------
(* The state of FixSession. *)

LEMMA InboundType ==
  ASSUME NEW e \in Engine
  PROVE  Inbound(e) \subseteq Message
<1> SUFFICES ASSUME NEW m \in Inbound(e) PROVE m \in Message
  OBVIOUS
<1>1. PICK k \in PeerKinds, n \in {1} \cup {e.in + d : d \in Offsets} : m = [k EXCEPT !.seq = n]
  BY DEF Inbound
<1>2. n \in Int
  BY <1>1, OffsetsAssumption DEF Engine
<1>3. k \in Message
  BY KindsAssumption
<1> QED BY <1>1, <1>2, <1>3, MessageFields

LEMMA HandleSendType ==
  ASSUME TypeOK, NEW m \in Message, HandleSend(m)
  PROVE  eng' \in Engine /\ written' \subseteq Int \X Nat
<1>1. CASE UNCHANGED <<eng, written>>
  BY <1>1 DEF TypeOK
<1>2. CASE Write(Finalized(eng, m))
  <2>1. Finalized(eng, m) \in Message
    BY FinalizedType DEF TypeOK
  <2>2. eng' \in Engine
    BY <1>2, <2>1, RecordWriteType DEF Write, TypeOK
  <2>3. Finalized(eng, m).seq \in Int /\ Finalized(eng, m).body \in Nat
    BY <2>1 DEF Message
  <2> QED BY <1>2, <2>2, <2>3 DEF Write, TypeOK
<1> QED BY <1>1, <1>2 DEF HandleSend

LEMMA DueType ==
  ASSUME due \in Int, NEW m \in Message, NEW handshake \in BOOLEAN
  PROVE  DueAfter(m, handshake) \in Int
BY DEF DueAfter, Message

LEMMA TailType ==
  ASSUME todo \in Seq(Action), todo # <<>>
  PROVE  Head(todo) \in Action /\ Tail(todo) \in Seq(Action)
OBVIOUS

\* The initial state is well typed.
LEMMA InitTypeOK == Init => TypeOK
<1> SUFFICES ASSUME Init PROVE TypeOK
  OBVIOUS
<1>1. NewEngine \in Engine
  BY HbAssumption, IdleAssumption DEF NewEngine, Engine, States
<1>2. 0 \in 0..MaxReceives /\ 0 \in 0..MaxRequests
  BY BoundsAssumption
<1>3. eng \in Engine /\ todo \in Seq(Action)
  BY <1>1, ListType DEF Init
<1>4. written \subseteq Int \X Nat
  BY DEF Init
<1>5. received \in 0..MaxReceives /\ requested \in 0..MaxRequests
  BY <1>2 DEF Init
<1>6. /\ loop \in {"new", "running", "ended"}
      /\ conn \in {"none", "up", "down"}
      /\ closing \in {"no", "queued", "taken"}
  BY DEF Init
<1>7. logon \in BOOLEAN /\ ticked \in BOOLEAN /\ forced \in BOOLEAN /\ strayed \in BOOLEAN
  BY DEF Init
<1>8. due \in Int
  BY DEF Init
<1> QED BY <1>3, <1>4, <1>5, <1>6, <1>7, <1>8 DEF TypeOK

\* Every step keeps the types.
LEMMA NextTypeOK == TypeOK /\ [Next]_vars => TypeOK'
<1> SUFFICES ASSUME TypeOK, [Next]_vars PROVE TypeOK'
  OBVIOUS
<1> USE DEF TypeOK
<1>1. ASSUME NEW isClient \in Roles, Start(isClient) PROVE TypeOK'
  <2>1. OnStart(eng, isClient) \in Results
    BY OnStartType, RolesAssumption
  <2> QED BY <1>1, <2>1 DEF Start, boundVars, history, Results
<1>2. CASE ExecuteSend
  <2>1. Head(todo) \in Action /\ Tail(todo) \in Seq(Action)
    BY <1>2, TailType DEF ExecuteSend
  <2>2. Head(todo).msg \in Message
    BY <2>1 DEF Action
  <2>3. eng' \in Engine /\ written' \subseteq Int \X Nat
    BY <1>2, <2>2, HandleSendType DEF ExecuteSend
  <2> QED BY <1>2, <2>1, <2>3 DEF ExecuteSend, loopVars, boundVars
<1>3. CASE ExecuteDeliver
  BY <1>3, TailType DEF ExecuteDeliver, loopVars, boundVars, history
<1>4. CASE ExecuteClose
  BY <1>4, TailType DEF ExecuteClose, RequestClose, boundVars, history
<1>5. ASSUME NEW m \in Inbound(eng), Receive(m) PROVE TypeOK'
  <2> DEFINE r == OnMessage(eng, m)
             handshake == eng.state \in {"Listening", "LoggingIn"} /\ r.eng.state = "Active"
  <2>1. m \in Message
    BY InboundType
  <2>2. r \in Results
    BY <2>1, OnMessageType
  <2>3. DueAfter(m, handshake) \in Int
    BY <2>1, DueType
  <2> HIDE DEF r
  <2>4. eng' \in Engine /\ todo' \in Seq(Action)
    BY <1>5, <2>2 DEF Receive, r, Results
  <2>5. due' \in Int /\ logon' \in BOOLEAN
    BY <1>5, <2>3 DEF Receive, r
  <2>6. received' \in 0..MaxReceives
    BY <1>5, BoundsAssumption DEF Receive
  <2>7. written' \subseteq Int \X Nat
    BY <1>5 DEF Receive
  <2> QED BY <1>5, <2>4, <2>5, <2>6, <2>7 DEF Receive, loopVars
<1>6. CASE Elapse
  <2>1. eng.read \in 0..IdleCap /\ eng.write \in 0..IdleCap
    BY DEF Engine
  <2>2. Older(eng.read) \in 0..IdleCap /\ Older(eng.write) \in 0..IdleCap
    BY <2>1, IdleAssumption DEF Older
  <2>3. eng' \in Engine
    BY <1>6, <2>2 DEF Elapse, Engine
  <2> QED BY <1>6, <2>3 DEF Elapse, loopVars, boundVars, history
<1>7. CASE Tick
  <2>1. OnTick(eng) \in Results
    BY OnTickType
  <2> QED BY <1>7, <2>1 DEF Tick, loopVars, boundVars, history, Results
<1>8. ASSUME NEW k \in UserKinds, UserSend(k) PROVE TypeOK'
  <2>1. requested + 1 \in Nat /\ requested' \in 0..MaxRequests
    BY <1>8, BoundsAssumption DEF UserSend, Request
  <2>2. [k EXCEPT !.body = requested + 1] \in Message
    BY <2>1, KindsAssumption DEF Message
  <2>3. eng' \in Engine /\ written' \subseteq Int \X Nat
    BY <1>8, <2>2, HandleSendType DEF UserSend
  <2> QED BY <1>8, <2>1, <2>3 DEF UserSend, Request
<1>9. ASSUME NEW k \in RawKinds, UserSendRaw(k) PROVE TypeOK'
  <2>1. eng' \in Engine
    BY <1>9, RecordWriteType, KindsAssumption DEF UserSendRaw
  <2>2. requested' \in 0..MaxRequests
    BY <1>9, BoundsAssumption DEF UserSendRaw, Request
  <2> QED BY <1>9, <2>1, <2>2 DEF UserSendRaw, Request
<1>10. ASSUME NEW p \in Resets, UserReset(p[1], p[2]) PROVE TypeOK'
  <2>1. p[1] \in Int /\ p[2] \in Int
    BY ResetsAssumption
  <2>2. OnResetSequence(eng, p[1], p[2]) \in Results
    BY <2>1, OnResetSequenceType
  <2>3. requested' \in 0..MaxRequests
    BY <1>10, BoundsAssumption DEF UserReset, Request
  <2> QED BY <1>10, <2>1, <2>2, <2>3 DEF UserReset, Request, Results
<1>11. CASE UserClose
  BY <1>11 DEF UserClose, RequestClose, engineVars, boundVars, history
<1>12. CASE ApplyClose
  <2>1. Off(eng).eng \in Engine
    BY OffType DEF Results
  <2> QED BY <1>12, <2>1 DEF ApplyClose, boundVars, history
<1>13. CASE Disconnect
  BY <1>13 DEF Disconnect, engineVars, boundVars, history
<1>14. CASE LoopEnds
  <2>1. OnDisconnect(eng) \in Engine
    BY ToType DEF OnDisconnect, States
  <2> QED BY <1>14, <2>1 DEF LoopEnds, boundVars, history
<1>15. CASE Ended \/ UNCHANGED vars
  BY <1>15 DEF Ended, vars, engineVars, loopVars, boundVars, history
<1> QED
  BY <1>1, <1>2, <1>3, <1>4, <1>5, <1>6, <1>7, <1>8, <1>9, <1>10, <1>11, <1>12, <1>13, <1>14, <1>15
  DEF Next

\* Every reachable state is well typed: in particular the negotiated
\* heartbeat interval is positive and whatever execute is given is an action.
THEOREM TypeCorrect == Spec => []TypeOK
BY InitTypeOK, NextTypeOK, PTL DEF Spec

-----------------------------------------------------------------------------
(* What the handlers leave alone. *)

(***************************************************************************)
(* How a handler r of message m may leave inSeqNum: as it was, refused or  *)
(* accepted (and then m is not ahead of it), or moved forward by a         *)
(* SequenceReset.                                                          *)
(***************************************************************************)
InSeqMoves(e, m, r) ==
  \/ r.eng.in = e.in /\ r.accepted = FALSE
  \/ r.eng.in = e.in /\ r.accepted = TRUE /\ m.type # "4" /\ m.seq <= e.in
  \/ /\ r.accepted = FALSE /\ m.type = "4" /\ m.fault # "number"
     /\ r.eng.in = m.new /\ m.new >= e.in
     /\ HardReset(m) \/ m.seq <= e.in

StoreKept(e, f) == f.store = e.store /\ f.last = e.last
StoreEmptied(f) == f.store = {} /\ f.last = 0

LEMMA OffFrame ==
  ASSUME NEW e \in Engine
  PROVE  /\ Off(e).eng.state = "Closed"
         /\ Off(e).eng.in = e.in /\ Off(e).eng.until = e.until
         /\ StoreKept(e, Off(e).eng)
         /\ Off(e).accepted = TRUE
<1>1. CASE e.state = "Closed"
  BY <1>1 DEF Off, Result, StoreKept
<1>2. CASE e.state # "Closed"
  BY <1>2 DEF Off, Result, StoreKept, To, Engine
<1> QED BY <1>1, <1>2

LEMMA AppInSeq ==
  ASSUME NEW e \in Engine, NEW m \in Message
  PROVE  InSeqMoves(e, m, HandleAppMessage(e, m))
<1>1. e.in \in Int /\ m.seq \in Int /\ m.new \in Int
  BY DEF Engine, Message
<1>2. CASE GapSeen(e, m)
  BY <1>2 DEF HandleAppMessage, Result, Engine, InSeqMoves
<1>3. CASE ~GapSeen(e, m) /\ m.type = "4"
  <2>1. HandleAppMessage(e, m) = HandleSequenceReset(e, m)
    BY <1>3 DEF HandleAppMessage
  <2>2. HardReset(m) \/ m.seq <= e.in
    BY <1>1, <1>3 DEF GapSeen
  <2>3. CASE BadNewSeqNo(e, m)
    BY <2>1, <2>3 DEF HandleSequenceReset, Result, InSeqMoves
  <2>4. CASE ~BadNewSeqNo(e, m)
    <3>1. HandleAppMessage(e, m).eng.in = m.new /\ HandleAppMessage(e, m).accepted = FALSE
      BY <2>1, <2>4 DEF HandleSequenceReset, Result, Engine
    <3> QED BY <1>1, <1>3, <2>2, <2>4, <3>1 DEF BadNewSeqNo, InSeqMoves
  <2> QED BY <2>3, <2>4
<1>4. CASE ~GapSeen(e, m) /\ m.type # "4"
  <2>1. m.seq <= e.in
    BY <1>1, <1>4 DEF GapSeen, HardReset
  <2>2. HandleAppMessage(e, m).eng.in = e.in /\ HandleAppMessage(e, m).accepted = TRUE
    BY <1>4, OffFrame DEF HandleAppMessage, Result
  <2> QED BY <1>4, <2>1, <2>2 DEF InSeqMoves
<1> QED BY <1>2, <1>3, <1>4

\* handleAppMessage never touches the store, and changes the state only to
\* OutOfSync, on a gap, or to Closed.
LEMMA AppFrame ==
  ASSUME NEW e \in Engine, NEW m \in Message
  PROVE  LET r == HandleAppMessage(e, m) IN
         /\ StoreKept(e, r.eng)
         /\ \/ /\ GapSeen(e, m) /\ r.accepted = FALSE /\ r.eng.in = e.in
               /\ r.eng.state = "OutOfSync" /\ r.eng.until = m.seq
            \/ /\ ~GapSeen(e, m)
               /\ r.eng.state \in {e.state, "Closed"} /\ r.eng.until = e.until
<1> USE DEF StoreKept
<1>1. CASE GapSeen(e, m)
  BY <1>1 DEF HandleAppMessage, Result, Engine
<1>2. CASE ~GapSeen(e, m) /\ m.type = "4"
  <2>1. HandleAppMessage(e, m) = HandleSequenceReset(e, m)
    BY <1>2 DEF HandleAppMessage
  <2> QED BY <1>2, <2>1 DEF HandleSequenceReset, Result, Engine
<1>3. CASE ~GapSeen(e, m) /\ m.type # "4"
  BY <1>3, OffFrame DEF HandleAppMessage, Result
<1> QED BY <1>1, <1>2, <1>3

\* Setting the state of a result leaves the rest of it alone.
LEMMA ActivatedFrame ==
  ASSUME NEW r \in Results
  PROVE  LET s == [r EXCEPT !.eng.state = "Active"] IN
         /\ s.eng.state = "Active" /\ s.eng.in = r.eng.in
         /\ s.accepted = r.accepted /\ StoreKept(r.eng, s.eng)
BY DEF Results, Engine, StoreKept

\* handleOutSyncMessage: the session stays OutOfSync only while the number it
\* waits for is ahead of what it may count next.
LEMMA OutSyncFrame ==
  ASSUME NEW e \in Engine, NEW m \in Message, e.state = "OutOfSync"
  PROVE  LET r == HandleOutSyncMessage(e, m) IN
         /\ InSeqMoves(e, m, r)
         /\ StoreKept(e, r.eng)
         /\ r.eng.state = "OutOfSync" =>
              \/ r.eng = e /\ r.accepted = FALSE
              \/ r.eng.in + 1 < r.eng.until
<1> DEFINE r == HandleAppMessage(e, m)
           healed == [r EXCEPT !.eng.state = "Active"]
<1>1. r \in Results
  BY HandleAppMessageType
<1>2. InSeqMoves(e, m, r) /\ StoreKept(e, r.eng)
  BY AppInSeq, AppFrame
<1>3. InSeqMoves(e, m, healed) /\ StoreKept(e, healed.eng) /\ healed.eng.state = "Active"
  <2> HIDE DEF r
  <2> QED BY <1>1, <1>2, ActivatedFrame DEF InSeqMoves, StoreKept
<1>4. CASE m.type = "2" \/ (~HardReset(m) /\ m.seq # e.in)
  <2>1. HandleOutSyncMessage(e, m).eng = e /\ HandleOutSyncMessage(e, m).accepted = FALSE
    BY <1>4 DEF HandleOutSyncMessage, Result, HardReset
  <2> QED BY <2>1 DEF InSeqMoves, StoreKept
<1>5. CASE m.type # "2" /\ HardReset(m)
  BY <1>3, <1>5 DEF HandleOutSyncMessage
<1>6. CASE m.type # "2" /\ ~HardReset(m) /\ m.seq = e.in
  <2>1. HandleOutSyncMessage(e, m) = IF GapResolved(r.eng) THEN healed ELSE r
    BY <1>6 DEF HandleOutSyncMessage
  <2>2. ~GapResolved(r.eng) => r.eng.in + 1 < r.eng.until
    <3> HIDE DEF r
    <3> QED BY <1>1 DEF GapResolved, Results, Engine
  <2> HIDE DEF r, healed
  <2> QED BY <1>2, <1>3, <2>1, <2>2
<1> QED BY <1>4, <1>5, <1>6

LEMMA RecordWriteFrame ==
  ASSUME NEW e \in Engine, NEW m \in Message
  PROVE  /\ RecordWrite(e, m).state = e.state
         /\ RecordWrite(e, m).in = e.in
         /\ RecordWrite(e, m).until = e.until
BY DEF RecordWrite, StoreAppend, Engine

LEMMA TickFrame ==
  ASSUME NEW e \in Engine
  PROVE  /\ OnTick(e).eng.state \in {e.state, "Stale", "Closed"}
         /\ OnTick(e).eng.in = e.in /\ OnTick(e).eng.until = e.until
         /\ StoreKept(e, OnTick(e).eng)
<1>1. CASE LogonTimedOut(e) \/ Dead(e)
  <2>1. OnTick(e).eng = Off(e).eng
    BY <1>1 DEF OnTick, Result, Dead, FallsSilent
  <2> QED BY <2>1, OffFrame
<1>2. CASE ~(LogonTimedOut(e) \/ Dead(e)) /\ FallsSilent(e)
  <2>1. OnTick(e).eng = To(e, "Stale")
    BY <1>2 DEF OnTick, Result
  <2> QED BY <2>1 DEF To, Engine, StoreKept
<1>3. CASE ~(LogonTimedOut(e) \/ Dead(e)) /\ ~FallsSilent(e)
  <2>1. OnTick(e).eng = e
    BY <1>3 DEF OnTick, Result
  <2> QED BY <2>1 DEF StoreKept
<1> QED BY <1>1, <1>2, <1>3

LEMMA LogonFrame ==
  ASSUME NEW e \in Engine, NEW m \in Message
  PROVE  LET r == HandleLogon(e, m) IN
         /\ \/ r.eng.state = "Closed" /\ r.accepted = FALSE /\ r.eng.in = e.in
            \/ /\ r.eng.state = "Active" /\ r.accepted = TRUE
               /\ r.eng.in = IF m.reset THEN 1 ELSE IF m.seq > e.in THEN m.seq ELSE e.in
         /\ StoreKept(e, r.eng) \/ StoreEmptied(r.eng)
<1> USE DEF StoreKept, StoreEmptied
<1>1. CASE BadHeartBtInt(e, m)
  BY <1>1, OffFrame DEF HandleLogon, Result
<1>2. CASE ~BadHeartBtInt(e, m)
  <2> DEFINE f == LogonNumbers(e, m)
  <2>1. /\ f.in = IF m.reset THEN 1 ELSE IF m.seq > e.in THEN m.seq ELSE e.in
        /\ \/ f.store = e.store /\ f.last = e.last
           \/ f.store = {} /\ f.last = 0
    BY DEF LogonNumbers, StoreReset, Engine
  <2>2. f \in Engine
    BY LogonNumbersType
  <2> HIDE DEF f
  <2>3. \/ HandleLogon(e, m).eng = [f EXCEPT !.state = "Active", !.hb = m.hb]
        \/ HandleLogon(e, m).eng = To(f, "Active")
    BY <1>2 DEF HandleLogon, Result, f
  <2>4. HandleLogon(e, m).accepted = TRUE
    BY <1>2 DEF HandleLogon, Result
  <2>5. /\ HandleLogon(e, m).eng.state = "Active"
        /\ HandleLogon(e, m).eng.in = f.in
        /\ HandleLogon(e, m).eng.store = f.store
        /\ HandleLogon(e, m).eng.last = f.last
    BY <2>2, <2>3 DEF To, Engine
  <2> QED BY <2>1, <2>4, <2>5
<1> QED BY <1>1, <1>2

\* The message that is dispatched: where it may leave inSeqNum and the store.
LEMMA DispatchFrame ==
  ASSUME NEW e \in Engine, NEW m \in Message
  PROVE  LET r == Dispatch(e, m) IN
         /\ StoreKept(e, r.eng) \/ StoreEmptied(r.eng)
         /\ e.state \in Established => InSeqMoves(e, m, r)
         /\ e.state = "New" => r.eng = e /\ r.accepted = FALSE
<1> DEFINE r == HandleAppMessage(e, m)
<1>1. r \in Results /\ InSeqMoves(e, m, r) /\ StoreKept(e, r.eng)
  BY HandleAppMessageType, AppInSeq, AppFrame
<1>2. CASE e.state \in {"Listening", "LoggingIn"} /\ m.type = "A"
  <2>1. Dispatch(e, m) = HandleLogon(e, m)
    BY <1>2 DEF Dispatch
  <2> QED BY <1>2, <2>1, LogonFrame DEF Established
<1>3. CASE \/ e.state \in {"Listening", "LoggingIn"} /\ m.type # "A"
           \/ e.state \in {"New", "Closed"}
  <2>1. Dispatch(e, m).eng = e /\ Dispatch(e, m).accepted = FALSE
    BY <1>3 DEF Dispatch, Result
  <2> QED BY <2>1 DEF InSeqMoves, StoreKept
<1>4. CASE e.state = "Active"
  <2>1. Dispatch(e, m) = r
    BY <1>4 DEF Dispatch
  <2> QED BY <1>1, <1>4, <2>1
<1>5. CASE e.state = "Stale"
  <2> DEFINE active == [r EXCEPT !.eng.state = "Active"]
  <2>1. Dispatch(e, m) = r \/ Dispatch(e, m) = active
    BY <1>5 DEF Dispatch
  <2>2. InSeqMoves(e, m, active) /\ StoreKept(e, active.eng)
    <3> HIDE DEF r
    <3> QED BY <1>1, ActivatedFrame DEF InSeqMoves, StoreKept
  <2> HIDE DEF r, active
  <2> QED BY <1>1, <1>5, <2>1, <2>2
<1>6. CASE e.state = "OutOfSync"
  <2>1. Dispatch(e, m) = HandleOutSyncMessage(e, m)
    BY <1>6 DEF Dispatch
  <2> QED BY <1>6, <2>1, OutSyncFrame
<1>7. e.state \in States
  BY DEF Engine
<1> QED BY <1>2, <1>3, <1>4, <1>5, <1>6, <1>7 DEF States

LEMMA CountedFrame ==
  ASSUME NEW e \in Engine
  PROVE  /\ Counted(e).in = e.in + 1 /\ Counted(e).state = e.state
         /\ Counted(e).until = e.until /\ StoreKept(e, Counted(e))
BY DEF Counted, Engine, StoreKept

\* The cases of Process.
LEMMA ProcessCases ==
  ASSUME NEW e \in Engine, NEW m \in Message
  PROVE  \/ Rejects(e, m) /\ Process(e, m).eng = Counted(e)
         \/ LogsOut(e, m) /\ Process(e, m).eng = e
         \/ /\ ~Rejects(e, m) /\ ~LogsOut(e, m)
            /\ Process(e, m).eng = IF Dispatch(e, m).accepted
                                  THEN Counted(Dispatch(e, m).eng) ELSE Dispatch(e, m).eng
<1> DEFINE r == Dispatch(e, m)
<1>1. r \in Results
  BY DispatchType
<1>2. ~(Rejects(e, m) /\ LogsOut(e, m))
  BY DEF Rejects, LogsOut, RejectError
<1>3. CASE Rejects(e, m)
  BY <1>2, <1>3 DEF Process, Result
<1>4. CASE LogsOut(e, m)
  BY <1>2, <1>4 DEF Process, Result
<1>5. CASE ~Rejects(e, m) /\ ~LogsOut(e, m)
  <2>1. Process(e, m) = IF r.accepted THEN [r EXCEPT !.eng = Counted(@)] ELSE r
    BY <1>5 DEF Process
  <2> HIDE DEF r
  <2>2. [r EXCEPT !.eng = Counted(@)].eng = Counted(r.eng)
    BY <1>1 DEF Results
  <2> QED BY <1>5, <2>1, <2>2 DEF r
<1> QED BY <1>3, <1>4, <1>5

LEMMA ProcessStore ==
  ASSUME NEW e \in Engine, NEW m \in Message
  PROVE  StoreKept(e, Process(e, m).eng) \/ StoreEmptied(Process(e, m).eng)
<1> DEFINE d == Dispatch(e, m).eng
<1>1. d \in Engine
  BY DispatchType DEF Results
<1>2. StoreKept(e, d) \/ StoreEmptied(d)
  BY DispatchFrame
<1>3. StoreKept(e, Counted(e)) /\ StoreKept(d, Counted(d))
  BY <1>1, CountedFrame
<1>4. Process(e, m).eng \in {Counted(e), e, Counted(d), d}
  BY ProcessCases
<1> HIDE DEF d
<1> QED BY <1>2, <1>3, <1>4 DEF StoreKept, StoreEmptied

-----------------------------------------------------------------------------
(* The message store. *)

LEMMA KeyedKept ==
  ASSUME NEW e, NEW f, StoreKept(e, f), Keyed(e)
  PROVE  Keyed(f)
BY DEF StoreKept, Keyed

LEMMA KeyedEmptied == ASSUME NEW f, StoreEmptied(f) PROVE Keyed(f)
BY DEF StoreEmptied, Keyed

\* An append under a growing number keeps the numbers apart.
LEMMA StoreAppendKeyed ==
  ASSUME NEW e \in Engine, NEW m \in Message, Keyed(e)
  PROVE  Keyed(StoreAppend(e, m))
<1> DEFINE f == StoreAppend(e, m)
<1>1. e.store \subseteq Message /\ e.last \in Int /\ m.seq \in Int
  BY DEF Engine, Message
<1>2. \A k \in e.store : k.seq \in Int
  BY <1>1 DEF Message
<1>3. e.last >= 0
  <2>1. CASE e.store = {}
    BY <2>1 DEF Keyed
  <2>2. CASE e.store # {}
    <3>1. PICK k \in e.store : k.seq = e.last
      BY <2>2 DEF Keyed
    <3> QED BY <1>1, <1>2, <3>1 DEF Keyed
  <2> QED BY <2>1, <2>2
<1>4. CASE m.seq > e.last
  <2>1. f.store = e.store \cup {m} /\ f.last = m.seq
    BY <1>4 DEF StoreAppend, Engine
  <2> HIDE DEF f
  <2>2. \A k \in e.store : 0 < k.seq /\ k.seq <= e.last
    BY DEF Keyed
  <2>3. \A k \in f.store : 0 < k.seq /\ k.seq <= f.last
    BY <1>1, <1>2, <1>3, <1>4, <2>1, <2>2
  <2>4. \A k, l \in f.store : k.seq = l.seq => k = l
    <3>1. \A k \in e.store : k.seq # m.seq
      BY <1>1, <1>2, <1>4, <2>2
    <3>2. \A k, l \in e.store : k.seq = l.seq => k = l
      BY DEF Keyed
    <3> QED BY <2>1, <3>1, <3>2
  <2>5. m \in f.store /\ m.seq = f.last
    BY <2>1
  <2>6. Keyed(f)
    BY <2>3, <2>4, <2>5 DEF Keyed
  <2> QED BY <2>6 DEF f
<1>5. CASE ~(m.seq > e.last)
  <2>1. f = e
    BY <1>5 DEF StoreAppend
  <2> QED BY <2>1
<1> QED BY <1>4, <1>5

LEMMA RecordWriteKeyed ==
  ASSUME NEW e \in Engine, NEW m \in Message, Keyed(e)
  PROVE  Keyed(RecordWrite(e, m))
<1> DEFINE w == [e EXCEPT !.write = 0]
           c == [w EXCEPT !.out = @ + 1]
<1>1. w \in Engine /\ StoreKept(e, w)
  BY EngineClocks DEF StoreKept, Engine
<1>2. c \in Engine /\ StoreKept(w, c)
  <2>1. w.out + 1 \in Int
    BY <1>1 DEF Engine
  <2> HIDE DEF w
  <2> QED BY <1>1, <2>1, EngineFields DEF StoreKept, Engine
<1>3. Keyed(w) /\ Keyed(c)
  BY <1>1, <1>2, KeyedKept
<1>4. Keyed(StoreAppend(c, m))
  BY <1>2, <1>3, StoreAppendKeyed
<1> QED BY <1>3, <1>4 DEF RecordWrite

LEMMA HandleSendKeyed ==
  ASSUME TypeOK, StoreKeyed, NEW m \in Message, HandleSend(m)
  PROVE  StoreKeyed'
<1>1. CASE UNCHANGED <<eng, written>>
  BY <1>1 DEF StoreKeyed
<1>2. CASE Write(Finalized(eng, m))
  <2>1. eng \in Engine /\ Finalized(eng, m) \in Message
    BY FinalizedType DEF TypeOK
  <2> QED BY <1>2, <2>1, RecordWriteKeyed DEF Write, StoreKeyed
<1> QED BY <1>1, <1>2 DEF HandleSend

LEMMA StartStore ==
  ASSUME NEW e \in Engine, NEW isClient
  PROVE  StoreKept(e, OnStart(e, isClient).eng)
BY DEF OnStart, Result, To, Engine, StoreKept

LEMMA ResetStore ==
  ASSUME NEW e \in Engine, NEW in \in Int, NEW out \in Int
  PROVE  StoreKept(e, OnResetSequence(e, in, out).eng)
BY DEF OnResetSequence, Result, Engine, StoreKept

LEMMA NextStoreKeyed == TypeOK /\ StoreKeyed /\ [Next]_vars => StoreKeyed'
<1> SUFFICES ASSUME TypeOK, StoreKeyed, [Next]_vars PROVE StoreKeyed'
  OBVIOUS
<1>0. eng \in Engine
  BY DEF TypeOK
<1>1. ASSUME StoreKept(eng, eng') \/ StoreEmptied(eng') PROVE StoreKeyed'
  BY <1>1, KeyedKept, KeyedEmptied DEF StoreKeyed
<1>2. ASSUME NEW isClient \in Roles, Start(isClient) PROVE StoreKeyed'
  BY <1>0, <1>1, <1>2, StartStore DEF Start
<1>3. CASE ExecuteSend
  <2>1. Head(todo).msg \in Message
    BY <1>3, TailType DEF ExecuteSend, TypeOK, Action
  <2> QED BY <1>3, <2>1, HandleSendKeyed DEF ExecuteSend
<1>4. ASSUME NEW m \in Inbound(eng), Receive(m) PROVE StoreKeyed'
  <2> DEFINE e == [eng EXCEPT !.read = 0]
  <2>1. m \in Message
    BY <1>0, InboundType
  <2>2. e \in Engine /\ StoreKept(eng, e)
    BY <1>0, EngineClocks DEF StoreKept, Engine
  <2>3. eng' = Process(e, m).eng
    BY <1>4 DEF Receive, OnMessage
  <2> HIDE DEF e
  <2>4. StoreKept(e, eng') \/ StoreEmptied(eng')
    BY <2>1, <2>2, <2>3, ProcessStore
  <2> QED BY <1>1, <2>2, <2>4 DEF StoreKept
<1>5. CASE Elapse
  BY <1>0, <1>1, <1>5 DEF Elapse, StoreKept, Engine
<1>6. CASE Tick
  BY <1>0, <1>1, <1>6, TickFrame DEF Tick
<1>7. ASSUME NEW k \in UserKinds, UserSend(k) PROVE StoreKeyed'
  <2>1. requested + 1 \in Nat
    BY BoundsAssumption DEF TypeOK
  <2>2. [k EXCEPT !.body = requested + 1] \in Message
    BY <2>1, KindsAssumption DEF Message
  <2> QED BY <1>7, <2>2, HandleSendKeyed DEF UserSend
<1>8. ASSUME NEW k \in RawKinds, UserSendRaw(k) PROVE StoreKeyed'
  BY <1>0, <1>8, RecordWriteKeyed, KindsAssumption DEF UserSendRaw, StoreKeyed
<1>9. ASSUME NEW p \in Resets, UserReset(p[1], p[2]) PROVE StoreKeyed'
  <2>1. p[1] \in Int /\ p[2] \in Int
    BY ResetsAssumption
  <2> QED BY <1>0, <1>1, <1>9, <2>1, ResetStore DEF UserReset
<1>10. CASE ApplyClose
  BY <1>0, <1>1, <1>10, OffFrame DEF ApplyClose
<1>11. CASE LoopEnds
  BY <1>0, <1>1, <1>11 DEF LoopEnds, OnDisconnect, To, Engine, StoreKept
<1>12. CASE \/ ExecuteDeliver \/ ExecuteClose \/ UserClose
           \/ Disconnect \/ Ended \/ UNCHANGED vars
  BY <1>12 DEF ExecuteDeliver, ExecuteClose, UserClose, Disconnect, Ended,
               vars, engineVars, StoreKeyed
<1> QED
  BY <1>2, <1>3, <1>4, <1>5, <1>6, <1>7, <1>8, <1>9, <1>10, <1>11, <1>12 DEF Next

\* Whatever is sent, also raw messages with numbers of the user's choice, the
\* store holds one message per number and lastSeqNo is the highest of them.
THEOREM StoreIsKeyed == Spec => []StoreKeyed
<1>1. Init => StoreKeyed
  BY KeyedEmptied DEF Init, NewEngine, StoreKeyed, StoreEmptied
<1> QED BY <1>1, InitTypeOK, NextTypeOK, NextStoreKeyed, PTL DEF Spec

-----------------------------------------------------------------------------
(* Inbound sequence numbers. *)

\* A message moves inSeqNum back only when it is the Logon of the handshake.
Forward(e, f) ==
  f.in < e.in => e.state \in {"Listening", "LoggingIn"} /\ f.state = "Active"

LEMMA ProcessForward ==
  ASSUME NEW e \in Engine, NEW m \in Message
  PROVE  Forward(e, Process(e, m).eng)
<1> DEFINE r == Dispatch(e, m)
           f == Process(e, m).eng
<1>1. r.eng \in Engine /\ r.eng.in \in Int /\ e.in \in Int /\ m.new \in Int /\ m.seq \in Int
  BY DispatchType DEF Results, Engine, Message
<1>2. Counted(r.eng).in = r.eng.in + 1 /\ Counted(r.eng).state = r.eng.state
  BY <1>1, CountedFrame
<1>3. \/ f = e \/ f = Counted(e)
      \/ f = IF r.accepted THEN Counted(r.eng) ELSE r.eng
  BY ProcessCases
<1>4. ASSUME f = e \/ f = Counted(e) PROVE Forward(e, f)
  BY <1>1, <1>4, CountedFrame DEF Forward
<1>5. ASSUME f = IF r.accepted THEN Counted(r.eng) ELSE r.eng PROVE Forward(e, f)
  <2>1. ASSUME r.eng.in >= e.in PROVE Forward(e, f)
    <3> HIDE DEF r, f
    <3> QED BY <1>1, <1>2, <1>5, <2>1 DEF Forward
  <2>2. CASE e.state \in Established
    <3>1. InSeqMoves(e, m, r)
      BY <2>2, DispatchFrame
    <3> HIDE DEF r
    <3>2. r.eng.in >= e.in
      BY <1>1, <3>1 DEF InSeqMoves
    <3> QED BY <2>1, <3>2
  <2>3. CASE e.state \in {"Listening", "LoggingIn"} /\ m.type = "A"
    <3>1. r.eng.in = e.in \/ r.eng.state = "Active"
      BY <2>3, LogonFrame DEF Dispatch
    <3>2. ASSUME r.eng.state = "Active" PROVE Forward(e, f)
      <4> HIDE DEF r, f
      <4> QED BY <1>2, <1>5, <2>3, <3>2 DEF Forward
    <3> HIDE DEF f
    <3> QED BY <1>1, <2>1, <3>1, <3>2
  <2>4. CASE e.state \in {"Listening", "LoggingIn"} /\ m.type # "A"
    <3>1. r.eng = e
      BY <2>4 DEF Dispatch, Result
    <3> HIDE DEF f
    <3> QED BY <1>1, <2>1, <3>1
  <2>5. CASE e.state = "New"
    <3>1. r.eng = e
      BY <2>5, DispatchFrame
    <3> HIDE DEF f
    <3> QED BY <1>1, <2>1, <3>1
  <2>6. e.state \in States
    BY DEF Engine
  <2> QED BY <2>2, <2>3, <2>4, <2>5, <2>6 DEF States, Established
<1> QED BY <1>3, <1>4, <1>5

LEMMA HandleSendFrame ==
  ASSUME TypeOK, NEW m \in Message, HandleSend(m)
  PROVE  eng'.state = eng.state /\ eng'.in = eng.in /\ eng'.until = eng.until
<1>1. eng \in Engine /\ Finalized(eng, m) \in Message
  BY FinalizedType DEF TypeOK
<1> QED BY <1>1, RecordWriteFrame DEF HandleSend, Write

\* What each step other than a message or a reset does to the numbers.
LEMMA NextFrame ==
  ASSUME TypeOK, [Next]_vars
  PROVE  \/ \E m \in Inbound(eng) : Receive(m)
         \/ \E p \in Resets : UserReset(p[1], p[2])
         \/ /\ eng'.in = eng.in /\ eng'.until = eng.until /\ due' = due /\ strayed' = strayed
            /\ eng'.state = "OutOfSync" => eng.state = "OutOfSync"
<1>0. eng \in Engine
  BY DEF TypeOK
<1> DEFINE Same == /\ eng'.in = eng.in /\ eng'.until = eng.until /\ due' = due /\ strayed' = strayed
                   /\ eng'.state = "OutOfSync" => eng.state = "OutOfSync"
<1>1. ASSUME NEW isClient \in Roles, Start(isClient) PROVE Same
  <2>1. eng' \in {To([eng EXCEPT !.read = 0, !.write = 0], s) : s \in {"LoggingIn", "Listening"}}
    BY <1>1 DEF Start, OnStart, Result
  <2> QED BY <1>0, <1>1, <2>1 DEF Start, To, Engine, history
<1>2. CASE ExecuteSend
  <2>1. Head(todo).msg \in Message
    BY <1>2, TailType DEF ExecuteSend, TypeOK, Action
  <2> QED BY <1>2, <2>1, HandleSendFrame DEF ExecuteSend
<1>3. CASE Elapse
  BY <1>0, <1>3 DEF Elapse, Engine, history
<1>4. CASE Tick
  BY <1>0, <1>4, TickFrame DEF Tick, history
<1>5. ASSUME NEW k \in UserKinds, UserSend(k) PROVE Same
  <2>1. requested + 1 \in Nat
    BY BoundsAssumption DEF TypeOK
  <2>2. [k EXCEPT !.body = requested + 1] \in Message
    BY <2>1, KindsAssumption DEF Message
  <2> QED BY <1>5, <2>2, HandleSendFrame DEF UserSend
<1>6. ASSUME NEW k \in RawKinds, UserSendRaw(k) PROVE Same
  BY <1>0, <1>6, RecordWriteFrame, KindsAssumption DEF UserSendRaw
<1>7. CASE ApplyClose
  BY <1>0, <1>7, OffFrame DEF ApplyClose, history
<1>8. CASE LoopEnds
  BY <1>0, <1>8 DEF LoopEnds, OnDisconnect, To, Engine, history
<1>9. CASE \/ ExecuteDeliver \/ ExecuteClose \/ UserClose
          \/ Disconnect \/ Ended \/ UNCHANGED vars
  BY <1>9 DEF ExecuteDeliver, ExecuteClose, UserClose, Disconnect, Ended,
              vars, engineVars, history
<1> QED BY <1>1, <1>2, <1>3, <1>4, <1>5, <1>6, <1>7, <1>8, <1>9 DEF Next

\* Receive in terms of Process.
LEMMA ReceiveEngine ==
  ASSUME TypeOK, NEW m \in Inbound(eng), Receive(m)
  PROVE  \E e \in Engine : /\ e.state = eng.state /\ e.in = eng.in /\ e.until = eng.until
                          /\ m \in Message
                          /\ eng' = Process(e, m).eng
<1> DEFINE e == [eng EXCEPT !.read = 0]
<1>1. e \in Engine /\ e.state = eng.state /\ e.in = eng.in /\ e.until = eng.until
  BY EngineClocks DEF TypeOK, Engine
<1>2. eng' = Process(e, m).eng
  BY DEF Receive, OnMessage
<1>3. m \in Message
  BY InboundType DEF TypeOK
<1> QED BY <1>1, <1>2, <1>3

\* Without any assumption on the counterparty, the store or the user: only
\* the Logon exchange and ResetSequence move inSeqNum back.
THEOREM InSeqNeverRewinds == Spec => InSeqForward
<1> DEFINE Step == Forward(eng, eng') \/ requested' # requested
<1>1. TypeOK /\ [Next]_vars => [Step]_vars
  <2> SUFFICES ASSUME TypeOK, [Next]_vars PROVE Step
    OBVIOUS
  <2>1. eng.in \in Int /\ requested \in Int
    BY BoundsAssumption DEF TypeOK, Engine
  <2>2. ASSUME NEW m \in Inbound(eng), Receive(m) PROVE Step
    <3>1. PICK e \in Engine : e.state = eng.state /\ e.in = eng.in /\ m \in Message
                             /\ eng' = Process(e, m).eng
      BY <2>2, ReceiveEngine
    <3>2. Forward(e, eng')
      BY <3>1, ProcessForward
    <3> QED BY <3>1, <3>2 DEF Forward
  <2>3. ASSUME NEW p \in Resets, UserReset(p[1], p[2]) PROVE Step
    BY <2>1, <2>3 DEF UserReset, Request
  <2>4. CASE eng'.in = eng.in
    BY <2>1, <2>4 DEF Forward
  <2> QED BY <2>2, <2>3, <2>4, NextFrame
<1>2. Step => (eng'.in < eng.in =>
                 \/ eng.state \in {"Listening", "LoggingIn"} /\ eng'.state = "Active"
                 \/ requested' # requested)
  BY DEF Forward
<1> QED BY <1>1, <1>2, InitTypeOK, NextTypeOK, PTL DEF Spec, InSeqForward

\* What the assumption on the counterparty says of a message received.
LEMMA InboundFaults ==
  ASSUME NEW e \in Engine, NEW m \in Inbound(e)
  PROVE  AllValid => m.fault # "invalid"
<1>1. PICK k \in PeerKinds, n \in {1} \cup {e.in + d : d \in Offsets} : m = [k EXCEPT !.seq = n]
  BY DEF Inbound
<1>2. k \in Message
  BY KindsAssumption
<1>3. m.fault = k.fault
  BY <1>1, <1>2 DEF Message
<1> QED BY <1>3 DEF AllValid

\* An OutOfSync engine waits for a number that is still ahead.
Waits(e) == e.state = "OutOfSync" => e.in < e.until

LEMMA ProcessWaits ==
  ASSUME NEW e \in Engine, NEW m \in Message, m.fault # "invalid", Waits(e)
  PROVE  Waits(Process(e, m).eng)
<1> DEFINE r == Dispatch(e, m)
           f == Process(e, m).eng
           g == IF r.accepted THEN Counted(r.eng) ELSE r.eng
<1>1. /\ r.eng \in Engine /\ r.eng.in \in Int /\ r.eng.until \in Int
      /\ e.in \in Int /\ e.until \in Int /\ m.seq \in Int
  BY DispatchType DEF Results, Engine, Message
<1>2. /\ Counted(r.eng).in = r.eng.in + 1 /\ Counted(r.eng).state = r.eng.state
      /\ Counted(r.eng).until = r.eng.until
  BY <1>1, CountedFrame
<1>3. f = e \/ f = g
  BY ProcessCases DEF Rejects, RejectError
<1>4. Waits(g)
  <2>1. ASSUME r.eng.state # "OutOfSync" PROVE Waits(g)
    <3> HIDE DEF r
    <3> QED BY <1>2, <2>1 DEF Waits
  <2>2. ASSUME r.eng = e, r.accepted = FALSE PROVE Waits(g)
    <3> HIDE DEF r
    <3> QED BY <2>2
  <2>3. CASE e.state \in {"Listening", "LoggingIn"} /\ m.type = "A"
    <3>1. r.eng.state # "OutOfSync"
      BY <2>3, LogonFrame DEF Dispatch
    <3> QED BY <2>1, <3>1
  <2>4. CASE \/ e.state \in {"Listening", "LoggingIn"} /\ m.type # "A"
             \/ e.state \in {"New", "Closed"}
    <3>1. r.eng = e /\ r.accepted = FALSE
      BY <2>4 DEF Dispatch, Result
    <3> QED BY <2>2, <3>1
  <2>5. CASE e.state \in {"Active", "Stale"}
    <3> DEFINE a == HandleAppMessage(e, m)
    <3>1. a \in Results
      BY HandleAppMessageType
    <3>2. r = a \/ r = [a EXCEPT !.eng.state = "Active"]
      BY <2>5 DEF Dispatch
    <3>3. CASE GapSeen(e, m)
      <4>1. a.eng.state = "OutOfSync" /\ a.eng.until = m.seq /\ a.eng.in = e.in
            /\ a.accepted = FALSE
        BY <3>3, AppFrame
      <4>2. m.seq > e.in
        BY <3>3 DEF GapSeen
      <4>3. r = a \/ r.eng.state # "OutOfSync"
        <5> HIDE DEF a
        <5> QED BY <3>1, <3>2, ActivatedFrame
      <4>4. ASSUME r = a PROVE Waits(g)
        <5> HIDE DEF r, a
        <5> QED BY <1>1, <4>1, <4>2, <4>4 DEF Waits
      <4> QED BY <2>1, <4>3, <4>4
    <3>4. CASE ~GapSeen(e, m)
      <4>1. a.eng.state \in {e.state, "Closed"}
        BY <3>4, AppFrame
      <4>2. r.eng.state # "OutOfSync"
        <5> HIDE DEF a
        <5> QED BY <2>5, <3>1, <3>2, <4>1, ActivatedFrame
      <4> QED BY <2>1, <4>2
    <3> QED BY <3>3, <3>4
  <2>6. CASE e.state = "OutOfSync"
    <3>1. r = HandleOutSyncMessage(e, m)
      BY <2>6 DEF Dispatch
    <3>2. r.eng.state = "OutOfSync" => \/ r.eng = e /\ r.accepted = FALSE
                                       \/ r.eng.in + 1 < r.eng.until
      BY <2>6, <3>1, OutSyncFrame
    <3>3. ASSUME r.eng.in + 1 < r.eng.until PROVE Waits(g)
      <4> HIDE DEF r
      <4> QED BY <1>1, <1>2, <3>3 DEF Waits
    <3> QED BY <2>1, <2>2, <3>2, <3>3
  <2>7. e.state \in States
    BY DEF Engine
  <2> QED BY <2>3, <2>4, <2>5, <2>6, <2>7 DEF States
<1> HIDE DEF f, g
<1>5. Waits(f)
  BY <1>3, <1>4
<1> QED BY <1>5 DEF f

LEMMA ResetWaits ==
  ASSUME NEW e \in Engine, NEW in \in Int, NEW out \in Int
  PROVE  Waits(OnResetSequence(e, in, out).eng)
BY DEF OnResetSequence, Result, Engine, Waits

\* As long as the counterparty's messages are valid, a session that is
\* OutOfSync is behind the number it waits for and can still get there.
THEOREM OutOfSyncIsWaiting == ASSUME AllValid PROVE Spec => []OutOfSyncWaits
<1>1. Init => OutOfSyncWaits
  BY DEF Init, NewEngine, OutOfSyncWaits
<1>2. TypeOK /\ OutOfSyncWaits /\ [Next]_vars => OutOfSyncWaits'
  <2> SUFFICES ASSUME TypeOK, OutOfSyncWaits, [Next]_vars PROVE OutOfSyncWaits'
    OBVIOUS
  <2>1. ASSUME NEW m \in Inbound(eng), Receive(m) PROVE OutOfSyncWaits'
    <3>1. PICK e \in Engine : /\ e.state = eng.state /\ e.in = eng.in /\ e.until = eng.until
                              /\ m \in Message
                              /\ eng' = Process(e, m).eng
      BY <2>1, ReceiveEngine
    <3>2. m.fault # "invalid"
      BY InboundFaults, AllValid DEF TypeOK
    <3>3. Waits(e)
      BY <3>1 DEF Waits, OutOfSyncWaits
    <3>4. Waits(eng')
      BY <3>1, <3>2, <3>3, ProcessWaits
    <3> QED BY <3>4 DEF Waits, OutOfSyncWaits
  <2>2. ASSUME NEW p \in Resets, UserReset(p[1], p[2]) PROVE OutOfSyncWaits'
    <3>1. p[1] \in Int /\ p[2] \in Int
      BY ResetsAssumption
    <3>2. Waits(eng')
      BY <2>2, <3>1, ResetWaits DEF UserReset, TypeOK
    <3> QED BY <3>2 DEF Waits, OutOfSyncWaits
  <2>3. CASE /\ eng'.in = eng.in /\ eng'.until = eng.until
             /\ eng'.state = "OutOfSync" => eng.state = "OutOfSync"
    BY <2>3 DEF OutOfSyncWaits
  <2> QED BY <2>1, <2>2, <2>3, NextFrame
<1> QED BY <1>1, <1>2, InitTypeOK, NextTypeOK, PTL DEF Spec

\* But for the Logon of a handshake that resets the numbers, the number due
\* never goes back.
LEMMA DueGrows ==
  ASSUME due \in Int, NEW m \in Message, NEW handshake \in BOOLEAN, ~(handshake /\ m.reset)
  PROVE  DueAfter(m, handshake) >= due
BY DEF DueAfter, Message

\* A message that is counted and does not stray is the one that is due, or
\* comes after a number the history has accounted for.
LEMMA ProcessNoSkip ==
  ASSUME NEW e \in Engine, NEW m \in Message, due \in Int, e.in <= due, ~Strays(e, m)
  PROVE  LET handshake == /\ e.state \in {"Listening", "LoggingIn"}
                          /\ Process(e, m).eng.state = "Active"
         IN Process(e, m).eng.in <= DueAfter(m, handshake)
<1> DEFINE r == Dispatch(e, m)
           f == Process(e, m).eng
           handshake == e.state \in {"Listening", "LoggingIn"} /\ f.state = "Active"
           bound == DueAfter(m, handshake)
<1> SUFFICES f.in <= bound
  OBVIOUS
<1>1. /\ r.eng \in Engine /\ r.eng.in \in Int
      /\ e.in \in Int /\ m.seq \in Int /\ m.new \in Int
  BY DispatchType DEF Results, Engine, Message
<1>2. Counted(r.eng).in = r.eng.in + 1 /\ Counted(r.eng).state = r.eng.state
  BY <1>1, CountedFrame
<1>3. bound \in Int /\ (~(handshake /\ m.reset) => bound >= due)
  BY DueType, DueGrows
<1>4. CASE Rejects(e, m) /\ f = Counted(e)
  <2>1. ~handshake /\ m.fault = "invalid" /\ m.seq = e.in
    BY <1>4 DEF Rejects, RejectError, Established, Strays
  <2>2. bound = IF m.seq = due THEN due + 1 ELSE due
    BY <2>1 DEF DueAfter
  <2>3. f.in = e.in + 1
    BY <1>4, CountedFrame
  <2> HIDE DEF f, bound, handshake
  <2> QED BY <1>1, <2>1, <2>2, <2>3
<1>5. CASE f = e
  <2>1. ~handshake
    BY <1>5
  <2> HIDE DEF f, bound, handshake
  <2> QED BY <1>1, <1>3, <1>5, <2>1
<1>6. CASE /\ ~Rejects(e, m) /\ ~LogsOut(e, m)
           /\ f = IF r.accepted THEN Counted(r.eng) ELSE r.eng
  <2>1. /\ ~FatalError(e, m)
        /\ m.fault # "invalid" /\ m.fault # "alien"
    BY <1>6 DEF LogsOut, Rejects, RejectError, FatalError
  <2>2. ASSUME r.eng.in = e.in, r.accepted = FALSE, ~handshake PROVE f.in <= bound
    <3> HIDE DEF r, f, bound, handshake
    <3> QED BY <1>1, <1>3, <1>6, <2>2
  <2>3. CASE e.state \in {"Active", "Stale", "OutOfSync"}
    <3>0. ~handshake
      BY <2>3
    <3>1. InSeqMoves(e, m, r)
      BY <2>3, DispatchFrame DEF Established
    <3>2. CASE r.eng.in = e.in /\ r.accepted = TRUE /\ m.type # "4" /\ m.seq <= e.in
      <4>1. m.seq = e.in
        <5>1. CASE e.state \in {"Active", "Stale"}
          BY <1>1, <2>1, <3>2, <5>1 DEF Strays
        <5>2. CASE e.state = "OutOfSync"
          <6>1. r = HandleOutSyncMessage(e, m)
            BY <5>2 DEF Dispatch
          <6>2. m.type # "2" /\ ~HardReset(m) /\ m.seq # e.in => r.accepted = FALSE
            BY <6>1 DEF HandleOutSyncMessage, Result
          <6>3. m.type = "2" => r.accepted = FALSE
            BY <6>1 DEF HandleOutSyncMessage, Result, HardReset
          <6> QED BY <3>2, <6>2, <6>3 DEF HardReset
        <5> QED BY <2>3, <5>1, <5>2
      <4>2. bound = IF m.seq = due THEN due + 1 ELSE due
        BY <3>0, <3>2 DEF DueAfter
      <4>3. f.in = e.in + 1
        <5> HIDE DEF r, f
        <5> QED BY <1>2, <1>6, <3>2
      <4> HIDE DEF r, f, bound, handshake
      <4> QED BY <1>1, <4>1, <4>2, <4>3
    <3>3. CASE /\ r.accepted = FALSE /\ m.type = "4" /\ m.fault # "number"
               /\ r.eng.in = m.new /\ m.new >= e.in
               /\ HardReset(m) \/ m.seq <= e.in
      <4>1. m.fault = "none"
        BY <2>1, <3>3 DEF Message, Faults
      <4>2. HardReset(m) \/ m.seq <= due
        BY <1>1, <3>3
      <4>3. bound = IF m.new > due THEN m.new ELSE due
        BY <3>0, <3>3, <4>1, <4>2 DEF DueAfter
      <4>4. f.in = m.new
        <5> HIDE DEF r, f
        <5> QED BY <1>6, <3>3
      <4> HIDE DEF r, f, bound, handshake
      <4> QED BY <1>1, <4>3, <4>4
    <3> HIDE DEF r, f, bound, handshake
    <3> QED BY <2>2, <3>0, <3>1, <3>2, <3>3 DEF InSeqMoves
  <2>4. CASE e.state \in {"Listening", "LoggingIn"} /\ m.type = "A"
    <3>1. \/ r.eng.state = "Closed" /\ r.accepted = FALSE /\ r.eng.in = e.in
          \/ /\ r.eng.state = "Active" /\ r.accepted = TRUE
             /\ r.eng.in = IF m.reset THEN 1 ELSE IF m.seq > e.in THEN m.seq ELSE e.in
      BY <2>4, LogonFrame DEF Dispatch
    <3>2. ASSUME r.eng.state = "Active", r.accepted = TRUE,
                 r.eng.in = IF m.reset THEN 1 ELSE IF m.seq > e.in THEN m.seq ELSE e.in
          PROVE  f.in <= bound
      <4>1. /\ f.state = "Active"
            /\ f.in = (IF m.reset THEN 1 ELSE IF m.seq > e.in THEN m.seq ELSE e.in) + 1
        <5> HIDE DEF r, f
        <5> QED BY <1>2, <1>6, <3>2
      <4>2. bound = IF m.reset \/ m.seq > due THEN m.seq + 1 ELSE due + 1
        BY <2>4, <4>1 DEF DueAfter
      <4>3. m.reset => m.seq = 1
        BY <2>1, <2>4 DEF FatalError, LogonReset
      <4> HIDE DEF r, f, bound, handshake
      <4> QED BY <1>1, <4>1, <4>2, <4>3
    <3>3. ASSUME r.eng.state = "Closed", r.accepted = FALSE, r.eng.in = e.in
          PROVE  f.in <= bound
      <4>1. ~handshake
        BY <1>6, <3>3
      <4> HIDE DEF r, f, bound, handshake
      <4> QED BY <2>2, <3>3, <4>1
    <3> HIDE DEF r, f, bound, handshake
    <3> QED BY <3>1, <3>2, <3>3
  <2>5. CASE \/ e.state \in {"Listening", "LoggingIn"} /\ m.type # "A"
             \/ e.state \in {"New", "Closed"}
    <3>1. r.eng = e /\ r.accepted = FALSE
      BY <2>5 DEF Dispatch, Result
    <3>2. f = e
      BY <1>6, <3>1
    <3> QED BY <1>5, <3>2
  <2>6. e.state \in States
    BY DEF Engine
  <2> QED BY <2>3, <2>4, <2>5, <2>6 DEF States
<1>7. \/ Rejects(e, m) /\ f = Counted(e)
      \/ f = e
      \/ /\ ~Rejects(e, m) /\ ~LogsOut(e, m)
         /\ f = IF r.accepted THEN Counted(r.eng) ELSE r.eng
  BY ProcessCases
<1> HIDE DEF r, f, bound, handshake
<1> QED BY <1>4, <1>5, <1>6, <1>7

\* inSeqNum never runs ahead of what was received, whatever the counterparty
\* sends and the user does, until the session counts a message that strays.
THEOREM NothingSkipped == Spec => []NoSkip
<1>1. Init => NoSkip
  BY DEF Init, NewEngine, NoSkip
<1>2. TypeOK /\ NoSkip /\ [Next]_vars => NoSkip'
  <2> SUFFICES ASSUME TypeOK, NoSkip, [Next]_vars PROVE NoSkip'
    OBVIOUS
  <2>1. ASSUME NEW m \in Inbound(eng), Receive(m) PROVE NoSkip'
    <3>1. PICK e \in Engine : /\ e.state = eng.state /\ e.in = eng.in
                              /\ m \in Message
                              /\ eng' = Process(e, m).eng
      BY <2>1, ReceiveEngine
    <3>2. strayed' = (strayed \/ Strays(e, m))
      BY <2>1, <3>1 DEF Receive, Strays, Rejects, RejectError, FatalError
    <3>3. due' = DueAfter(m, /\ e.state \in {"Listening", "LoggingIn"}
                             /\ Process(e, m).eng.state = "Active")
      BY <2>1, <3>1 DEF Receive
    <3>4. CASE strayed \/ Strays(e, m)
      BY <3>2, <3>4 DEF NoSkip
    <3>5. CASE ~strayed /\ ~Strays(e, m)
      BY <3>1, <3>3, <3>5, ProcessNoSkip DEF NoSkip, TypeOK
    <3> QED BY <3>4, <3>5
  <2>2. ASSUME NEW p \in Resets, UserReset(p[1], p[2]) PROVE NoSkip'
    <3>1. p[1] \in Int /\ p[2] \in Int
      BY ResetsAssumption
    <3>2. eng'.in = p[1] /\ due' = p[1]
      BY <2>2, <3>1 DEF UserReset, OnResetSequence, Result, TypeOK, Engine
    <3> QED BY <3>1, <3>2 DEF NoSkip
  <2>3. CASE eng'.in = eng.in /\ due' = due /\ strayed' = strayed
    BY <2>3 DEF NoSkip
  <2> QED BY <2>1, <2>2, <2>3, NextFrame
<1> QED BY <1>1, <1>2, InitTypeOK, NextTypeOK, PTL DEF Spec

-----------------------------------------------------------------------------
(* Outbound numbers and the store. *)

\* What a handler does to outSeqNum and the store: nothing, but for the Logon
\* of the handshake that resets the numbers.
OutKept(e, f) == StoreKept(e, f) /\ f.out = e.out
OutReset(e, m, f) ==
  /\ e.state \in {"Listening", "LoggingIn"} /\ f.state = "Active" /\ m.reset
  /\ StoreEmptied(f) /\ f.out \in {1, e.out}

LEMMA OffOut == ASSUME NEW e \in Engine PROVE OutKept(e, Off(e).eng)
BY OffFrame DEF OutKept, Off, Result, To, Engine

LEMMA AppOut ==
  ASSUME NEW e \in Engine, NEW m \in Message
  PROVE  OutKept(e, HandleAppMessage(e, m).eng)
<1>1. HandleAppMessage(e, m).eng.out = e.out
  <2>1. CASE GapSeen(e, m)
    BY <2>1 DEF HandleAppMessage, Result, Engine
  <2>2. CASE ~GapSeen(e, m) /\ m.type = "4"
    <3>1. HandleAppMessage(e, m) = HandleSequenceReset(e, m)
      BY <2>2 DEF HandleAppMessage
    <3> QED BY <3>1 DEF HandleSequenceReset, Result, Engine
  <2>3. CASE ~GapSeen(e, m) /\ m.type # "4"
    BY <2>3, OffOut DEF HandleAppMessage, Result, OutKept
  <2> QED BY <2>1, <2>2, <2>3
<1> QED BY <1>1, AppFrame DEF OutKept

LEMMA ActivatedOut ==
  ASSUME NEW r \in Results
  PROVE  OutKept(r.eng, [r EXCEPT !.eng.state = "Active"].eng)
BY DEF Results, Engine, StoreKept, OutKept

LEMMA LogonOut ==
  ASSUME NEW e \in Engine, NEW m \in Message, e.state \in {"Listening", "LoggingIn"}
  PROVE  LET f == HandleLogon(e, m).eng IN OutKept(e, f) \/ OutReset(e, m, f)
<1>1. CASE BadHeartBtInt(e, m)
  BY <1>1, OffOut DEF HandleLogon, Result
<1>2. CASE ~BadHeartBtInt(e, m)
  <2> DEFINE f == LogonNumbers(e, m)
  <2>1. \/ ~m.reset /\ OutKept(e, f)
        \/ m.reset /\ StoreEmptied(f) /\ f.out \in {1, e.out}
    BY DEF LogonNumbers, StoreReset, Engine, OutKept, StoreKept, StoreEmptied
  <2>2. f \in Engine
    BY LogonNumbersType
  <2> HIDE DEF f
  <2>3. \/ HandleLogon(e, m).eng = [f EXCEPT !.state = "Active", !.hb = m.hb]
        \/ HandleLogon(e, m).eng = To(f, "Active")
    BY <1>2 DEF HandleLogon, Result, f
  <2>4. HandleLogon(e, m).eng.state = "Active" /\ OutKept(f, HandleLogon(e, m).eng)
    BY <2>2, <2>3 DEF To, Engine, OutKept, StoreKept
  <2> QED BY <2>1, <2>4 DEF OutKept, OutReset, StoreKept, StoreEmptied
<1> QED BY <1>1, <1>2

LEMMA DispatchOut ==
  ASSUME NEW e \in Engine, NEW m \in Message
  PROVE  LET f == Dispatch(e, m).eng IN OutKept(e, f) \/ OutReset(e, m, f)
<1> DEFINE r == HandleAppMessage(e, m)
           active == [r EXCEPT !.eng.state = "Active"]
<1>1. OutKept(e, e)
  BY DEF OutKept, StoreKept
<1>2. OutKept(e, r.eng) /\ OutKept(e, active.eng)
  <2>1. r \in Results /\ OutKept(e, r.eng)
    BY HandleAppMessageType, AppOut
  <2> HIDE DEF r
  <2> QED BY <2>1, ActivatedOut DEF OutKept, StoreKept
<1>3. CASE e.state \in {"Listening", "LoggingIn"}
  BY <1>1, <1>3, LogonOut DEF Dispatch, Result
<1>4. CASE e.state \notin {"Listening", "LoggingIn"}
  <2>1. Dispatch(e, m).eng \in {e, r.eng, active.eng}
    <3>1. CASE e.state = "OutOfSync"
      <4>1. Dispatch(e, m) = HandleOutSyncMessage(e, m)
        BY <3>1 DEF Dispatch
      <4> QED BY <4>1 DEF HandleOutSyncMessage, Result, HardReset
    <3>2. CASE e.state # "OutOfSync"
      BY <1>4, <3>2 DEF Dispatch, Result
    <3> QED BY <3>1, <3>2
  <2> HIDE DEF r, active
  <2> QED BY <1>1, <1>2, <2>1
<1> QED BY <1>3, <1>4

LEMMA ProcessOut ==
  ASSUME NEW e \in Engine, NEW m \in Message
  PROVE  LET f == Process(e, m).eng IN OutKept(e, f) \/ OutReset(e, m, f)
<1> DEFINE d == Dispatch(e, m).eng
<1>1. d \in Engine
  BY DispatchType DEF Results
<1>2. OutKept(e, d) \/ OutReset(e, m, d)
  BY DispatchOut
<1>3. \A f \in Engine : OutKept(f, Counted(f)) /\ Counted(f).state = f.state
  BY DEF Counted, Engine, OutKept, StoreKept
<1>4. Process(e, m).eng \in {Counted(e), e, Counted(d), d}
  BY ProcessCases
<1> HIDE DEF d
<1> QED BY <1>1, <1>2, <1>3, <1>4 DEF OutKept, OutReset, StoreKept, StoreEmptied

\* recordWrite counts what it is given, but for a SequenceReset, and offers an
\* application message to the store.
LEMMA RecordWriteOut ==
  ASSUME NEW e \in Engine, NEW m \in Message
  PROVE  LET f == RecordWrite(e, m) IN
         /\ f.out = IF m.type = "4" THEN e.out ELSE e.out + 1
         /\ \/ StoreKept(e, f) /\ (m.type \in Admin \/ m.seq <= e.last)
            \/ /\ m.type \notin Admin /\ m.seq > e.last
               /\ f.store = e.store \cup {m} /\ f.last = m.seq
<1>1. e.last \in Int /\ m.seq \in Int
  BY DEF Engine, Message
<1> DEFINE w == [e EXCEPT !.write = 0]
           c == [w EXCEPT !.out = @ + 1]
<1>2. w \in Engine /\ StoreKept(e, w) /\ w.out = e.out
  BY EngineClocks DEF StoreKept, Engine
<1>3. c.out = e.out + 1 /\ StoreKept(e, c) /\ c \in Engine
  <2>1. w.out + 1 \in Int
    BY <1>2 DEF Engine
  <2> HIDE DEF w
  <2> QED BY <1>2, <2>1, EngineFields DEF StoreKept, Engine
<1>4. CASE m.type = "4"
  <2>1. RecordWrite(e, m) = w
    BY <1>4 DEF RecordWrite
  <2> HIDE DEF w, c
  <2> QED BY <1>2, <1>4, <2>1 DEF Admin
<1>5. CASE m.type # "4" /\ m.type \in Admin
  <2>1. RecordWrite(e, m) = c
    BY <1>5 DEF RecordWrite
  <2> HIDE DEF c
  <2> QED BY <1>3, <1>5, <2>1
<1>6. CASE m.type \notin Admin
  <2>1. RecordWrite(e, m) = StoreAppend(c, m) /\ m.type # "4"
    BY <1>6 DEF RecordWrite, Admin
  <2> HIDE DEF c
  <2>2. StoreAppend(c, m).out = c.out
    BY <1>3 DEF StoreAppend, Engine
  <2>3. CASE m.seq > e.last
    <3>1. StoreAppend(c, m).store = c.store \cup {m} /\ StoreAppend(c, m).last = m.seq
      BY <1>3, <2>3 DEF StoreAppend, Engine, StoreKept
    <3> QED BY <1>3, <1>6, <2>1, <2>2, <2>3, <3>1 DEF StoreKept
  <2>4. CASE ~(m.seq > e.last)
    <3>1. StoreAppend(c, m) = c
      BY <1>3, <2>4 DEF StoreAppend, StoreKept
    <3> QED BY <1>1, <1>3, <2>1, <2>4, <3>1
  <2> QED BY <2>3, <2>4
<1> QED BY <1>4, <1>5, <1>6

(***************************************************************************)
(* What a step does to outSeqNum, the store and what was written: nothing, *)
(* the reset of the Logon exchange, one message that is finalized and      *)
(* written, a raw message, or a ResetSequence.                             *)
(***************************************************************************)
OutStep ==
  \/ OutKept(eng, eng') /\ written' \subseteq written /\ forced' = forced
  \/ /\ StoreEmptied(eng') /\ eng'.out \in {1, eng.out}
     /\ written' = {} /\ forced' = forced
  \/ /\ \E m \in Message : Write(m) /\ (m.type \in Admin \/ m.seq = eng.out)
     /\ forced' = forced
  \/ forced' /\ \E m \in Message : eng' = RecordWrite(eng, m)
  \/ /\ StoreKept(eng, eng') /\ written' = written
     /\ forced' \/ eng'.out >= eng.out
     /\ forced => forced'

LEMMA HandleSendOut ==
  ASSUME TypeOK, NEW m \in Message, HandleSend(m), forced' = forced
  PROVE  OutStep
<1>1. CASE UNCHANGED <<eng, written>>
  BY <1>1 DEF OutStep, OutKept, StoreKept
<1>2. CASE Write(Finalized(eng, m))
  <2>1. Finalized(eng, m) \in Message
    BY FinalizedType DEF TypeOK
  <2>2. Finalized(eng, m).type \in Admin \/ Finalized(eng, m).seq = eng.out
    BY DEF Finalized, GapFill, Admin, Message
  <2> QED BY <1>2, <2>1, <2>2 DEF OutStep
<1> QED BY <1>1, <1>2 DEF HandleSend

LEMMA ReceiveOut ==
  ASSUME TypeOK, NEW m \in Inbound(eng), Receive(m)
  PROVE  OutStep
<1> DEFINE e == [eng EXCEPT !.read = 0]
           f == Process(e, m).eng
<1>1. /\ e \in Engine /\ m \in Message
      /\ e.state = eng.state /\ e.out = eng.out /\ StoreKept(eng, e)
  BY EngineClocks, InboundType DEF TypeOK, Engine, StoreKept
<1>2. eng' = f /\ forced' = forced
  BY DEF Receive, OnMessage
<1>3. written' = IF /\ eng.state \in {"Listening", "LoggingIn"} /\ f.state = "Active"
                    /\ m.reset
                 THEN {} ELSE written
  BY DEF Receive, OnMessage
<1>4. OutKept(e, f) \/ OutReset(e, m, f)
  BY <1>1, ProcessOut
<1> HIDE DEF e, f
<1> QED BY <1>1, <1>2, <1>3, <1>4 DEF OutKept, OutReset, StoreKept, StoreEmptied, OutStep

LEMMA NextOut == TypeOK /\ [Next]_vars => OutStep
<1> SUFFICES ASSUME TypeOK, [Next]_vars PROVE OutStep
  OBVIOUS
<1>0. eng \in Engine
  BY DEF TypeOK
<1> DEFINE Same == OutKept(eng, eng') /\ written' = written /\ forced' = forced
<1>1. Same => OutStep
  BY DEF OutStep
<1>2. ASSUME NEW isClient \in Roles, Start(isClient) PROVE Same
  BY <1>0, <1>2, StartStore DEF Start, history, OnStart, Result, To, Engine, OutKept
<1>3. CASE ExecuteSend
  <2>1. Head(todo).msg \in Message
    BY <1>3, TailType DEF ExecuteSend, TypeOK, Action
  <2> QED BY <1>3, <2>1, HandleSendOut DEF ExecuteSend
<1>4. ASSUME NEW m \in Inbound(eng), Receive(m) PROVE OutStep
  BY <1>4, ReceiveOut
<1>5. CASE Elapse
  BY <1>0, <1>1, <1>5 DEF Elapse, StoreKept, OutKept, Engine, history
<1>6. CASE Tick
  <2>1. OnTick(eng).eng \in {Off(eng).eng, To(eng, "Stale"), eng}
    BY DEF OnTick, Result, FallsSilent, Dead
  <2>2. OutKept(eng, OnTick(eng).eng)
    BY <1>0, <2>1, OffOut DEF OutKept, StoreKept, To, Engine
  <2> QED BY <1>6, <2>2, <1>1 DEF Tick, history
<1>7. ASSUME NEW k \in UserKinds, UserSend(k) PROVE OutStep
  <2>1. requested + 1 \in Nat
    BY BoundsAssumption DEF TypeOK
  <2>2. [k EXCEPT !.body = requested + 1] \in Message
    BY <2>1, KindsAssumption DEF Message
  <2> QED BY <1>7, <2>2, HandleSendOut DEF UserSend
<1>8. ASSUME NEW k \in RawKinds, UserSendRaw(k) PROVE OutStep
  <2>1. k \in Message
    BY KindsAssumption
  <2>2. CASE eng' = RecordWrite(eng, k)
    BY <1>8, <2>1, <2>2 DEF UserSendRaw, OutStep
  <2>3. CASE UNCHANGED eng
    BY <1>8, <2>3 DEF UserSendRaw, OutStep, StoreKept
  <2> QED BY <1>8, <2>2, <2>3 DEF UserSendRaw
<1>9. ASSUME NEW p \in Resets, UserReset(p[1], p[2]) PROVE OutStep
  <2>1. p[1] \in Int /\ p[2] \in Int /\ eng.out \in Int
    BY <1>0, ResetsAssumption DEF Engine
  <2>2. eng'.out = p[2] /\ StoreKept(eng, eng')
    <3>1. eng' = OnResetSequence(eng, p[1], p[2]).eng
      BY <1>9 DEF UserReset
    <3>2. OnResetSequence(eng, p[1], p[2]).eng.out = p[2]
      BY <1>0, <2>1 DEF OnResetSequence, Result, Engine
    <3> QED BY <1>0, <2>1, <3>1, <3>2, ResetStore
  <2>3. forced' = (forced \/ p[2] < eng.out) /\ written' = written
    BY <1>9 DEF UserReset
  <2>4. forced => forced'
    BY <2>3
  <2>5. forced' \/ eng'.out >= eng.out
    <3>1. CASE p[2] < eng.out
      BY <2>3, <3>1
    <3>2. CASE ~(p[2] < eng.out)
      BY <2>1, <2>2, <3>2
    <3> QED BY <3>1, <3>2
  <2> QED BY <2>2, <2>3, <2>4, <2>5 DEF OutStep
<1>10. CASE ApplyClose
  BY <1>0, <1>1, <1>10, OffOut DEF ApplyClose, history
<1>11. CASE LoopEnds
  BY <1>0, <1>1, <1>11 DEF LoopEnds, OnDisconnect, To, Engine, StoreKept, OutKept, history
<1>12. CASE \/ ExecuteDeliver \/ ExecuteClose \/ UserClose
            \/ Disconnect \/ Ended \/ UNCHANGED vars
  BY <1>1, <1>12 DEF ExecuteDeliver, ExecuteClose, UserClose, Disconnect, Ended,
               vars, engineVars, history, StoreKept, OutKept
<1> QED
  BY <1>1, <1>2, <1>3, <1>4, <1>5, <1>6, <1>7, <1>8, <1>9, <1>10, <1>11, <1>12 DEF Next

(***************************************************************************)
(* Why what was written can be recovered: until the user interferes the    *)
(* next number is beyond everything stored, so that MessageStore.Append,   *)
(* which refuses numbers that do not grow, refuses none of them.           *)
(***************************************************************************)
RecoverInv == Recoverable /\ (forced \/ (eng.out >= 1 /\ eng.last < eng.out))

LEMMA RecoverInvStep == TypeOK /\ TypeOK' /\ RecoverInv /\ OutStep => RecoverInv'
<1> SUFFICES ASSUME TypeOK, TypeOK', RecoverInv, OutStep PROVE RecoverInv'
  OBVIOUS
<1> DEFINE Kept(s, ws) == \A w \in ws : \E m \in s : m.seq = w[1] /\ m.body = w[2]
<1>0. eng \in Engine /\ eng.out \in Int /\ eng.last \in Int /\ forced \in BOOLEAN
  BY DEF TypeOK, Engine
<1>1. CASE forced'
  BY <1>1 DEF RecoverInv, Recoverable
<1>2. CASE ~forced'
  <2>1. ~forced
    BY <1>0, <1>2 DEF OutStep
  <2>2. Kept(eng.store, written) /\ eng.out >= 1 /\ eng.last < eng.out
    BY <2>1 DEF RecoverInv, Recoverable
  <2>3. SUFFICES Kept(eng'.store, written') /\ eng'.out >= 1 /\ eng'.last < eng'.out
    BY DEF RecoverInv, Recoverable
  <2>4. CASE OutKept(eng, eng') /\ written' \subseteq written
    BY <2>2, <2>4 DEF OutKept, StoreKept
  <2>5. CASE StoreEmptied(eng') /\ eng'.out \in {1, eng.out} /\ written' = {}
    BY <1>0, <2>2, <2>5 DEF StoreEmptied
  <2>6. ASSUME NEW m \in Message, Write(m), m.type \in Admin \/ m.seq = eng.out
        PROVE  Kept(eng'.store, written') /\ eng'.out >= 1 /\ eng'.last < eng'.out
    <3>1. eng' = RecordWrite(eng, m)
      BY <2>6 DEF Write
    <3>2. CASE m.type \in Admin
      <4>1. StoreKept(eng, eng') /\ eng'.out \in {eng.out, eng.out + 1} /\ written' = written
        BY <1>0, <2>6, <3>1, <3>2, RecordWriteOut DEF Write
      <4> QED BY <1>0, <2>2, <4>1 DEF StoreKept
    <3>3. CASE m.type \notin Admin
      <4>1. m.seq = eng.out /\ m.seq > eng.last /\ m.type # "4"
        BY <1>0, <2>2, <2>6, <3>3 DEF Admin
      <4>2. eng'.store = eng.store \cup {m} /\ eng'.last = m.seq /\ eng'.out = eng.out + 1
        BY <1>0, <3>1, <3>3, <4>1, RecordWriteOut
      <4>3. written' = written \cup {<<m.seq, m.body>>}
        BY <2>6, <3>3 DEF Write
      <4> QED BY <1>0, <2>2, <4>1, <4>2, <4>3
    <3> QED BY <3>2, <3>3
  <2>7. CASE StoreKept(eng, eng') /\ written' = written /\ eng'.out >= eng.out
    <3>1. eng'.last = eng.last /\ eng'.store = eng.store
      BY <2>7 DEF StoreKept
    <3>2. eng'.out \in Int
      BY DEF TypeOK, Engine
    <3> QED BY <1>0, <2>2, <2>7, <3>1, <3>2
  <2> QED BY <1>2, <2>4, <2>5, <2>6, <2>7 DEF OutStep
<1> QED BY <1>1, <1>2

\* Every application message the session numbered and wrote since the numbers
\* were last reset can be replayed, through Logons, gaps, replays, timeouts and
\* disconnects, until the user moves the numbers back or writes raw messages.
THEOREM WrittenIsRecoverable == Spec => []Recoverable
<1>1. Init => RecoverInv
  BY DEF Init, NewEngine, RecoverInv, Recoverable
<1>2. TypeOK /\ RecoverInv /\ [Next]_vars => RecoverInv'
  BY NextTypeOK, NextOut, RecoverInvStep
<1>3. RecoverInv => Recoverable
  BY DEF RecoverInv
<1> QED BY <1>1, <1>2, <1>3, InitTypeOK, NextTypeOK, PTL DEF Spec

-----------------------------------------------------------------------------
(* What a replay covers. *)

\* Only application messages are stored.
StoresApp == \A r \in eng.store : r.type \notin Admin

LEMMA StoresAppStep == TypeOK /\ StoresApp /\ OutStep => StoresApp'
<1> SUFFICES ASSUME TypeOK, StoresApp, OutStep PROVE StoresApp'
  OBVIOUS
<1>1. eng \in Engine
  BY DEF TypeOK
<1>2. ASSUME StoreKept(eng, eng') \/ StoreEmptied(eng') PROVE StoresApp'
  BY <1>2 DEF StoreKept, StoreEmptied, StoresApp
<1>3. ASSUME NEW m \in Message, eng' = RecordWrite(eng, m) PROVE StoresApp'
  <2>1. \/ StoreKept(eng, eng')
        \/ m.type \notin Admin /\ eng'.store = eng.store \cup {m}
    BY <1>1, <1>3, RecordWriteOut
  <2> QED BY <1>2, <2>1 DEF StoresApp
<1> QED BY <1>2, <1>3 DEF OutStep, OutKept, Write

\* A set of integers above some bound has a least element, one below a
\* greatest.
LEMMA LeastAbove ==
  ASSUME NEW lo \in Int, NEW S, S # {}, \A x \in S : x \in Int /\ lo <= x
  PROVE  \E x \in S : \A y \in S : x <= y
<1> DEFINE T == {x - lo : x \in S}
<1>1. T \in SUBSET Nat /\ T # {}
  OBVIOUS
<1>2. PICK t \in T : \A u \in T : t <= u
  BY <1>1, LeastElement
<1>3. PICK x \in S : t = x - lo
  BY <1>2
<1>4. \A y \in S : x - lo <= y - lo
  BY <1>2, <1>3
<1>5. \A y \in S : x <= y
  BY <1>3, <1>4
<1> QED BY <1>5

LEMMA GreatestBelow ==
  ASSUME NEW hi \in Int, NEW S, S # {}, \A x \in S : x \in Int /\ x <= hi
  PROVE  \E x \in S : \A y \in S : y <= x
<1> DEFINE T == {hi - x : x \in S}
<1>1. T \in SUBSET Nat /\ T # {}
  OBVIOUS
<1>2. PICK t \in T : \A u \in T : t <= u
  BY <1>1, LeastElement
<1>3. PICK x \in S : t = hi - x
  BY <1>2
<1>4. \A y \in S : hi - x <= hi - y
  BY <1>2, <1>3
<1>5. \A y \in S : y <= x
  BY <1>3, <1>4
<1> QED BY <1>5

(***************************************************************************)
(* The walk of handleResend as arithmetic: S is stored, C[n] is what the   *)
(* place n of the walk covers.  The first number of every run that is not  *)
(* stored covers its run; so each number is covered from one place.        *)
(***************************************************************************)
Fills(n, S, last, covered) ==
  \E next \in Int :
    /\ n < next /\ next <= last + 1 /\ covered = n..(next - 1)
    /\ \A k \in n..(next - 1) : k \notin S
    /\ next \in S \/ next = last + 1

LEMMA WalkCoversOnce ==
  ASSUME NEW beg \in Int, NEW last \in Int, NEW S \in SUBSET (beg..last), NEW C,
         \A n \in beg..last : n \in S => C[n] = {n},
         \A n \in beg..last : n \notin S /\ (n = beg \/ n - 1 \in S) => Fills(n, S, last, C[n]),
         \A n \in beg..last : n \notin S /\ n # beg /\ n - 1 \notin S => C[n] = {}
  PROVE  /\ \A n \in beg..last : C[n] \subseteq beg..last
         /\ \A n \in beg..last : \E k \in beg..last :
              /\ n \in C[k] /\ (k \in S <=> n \in S)
              /\ \A l \in beg..last : n \in C[l] => l = k
<1> DEFINE First(n) == n \notin S /\ (n = beg \/ n - 1 \in S)
<1>1. ASSUME NEW n \in beg..last PROVE C[n] \subseteq beg..last
  <2>1. CASE n \in S
    BY <2>1
  <2>2. CASE First(n)
    BY <2>2 DEF Fills
  <2>3. CASE n \notin S /\ ~First(n)
    BY <2>3
  <2> QED BY <2>1, <2>2, <2>3
\* A place that covers n and does not replay it begins the run n is in.
<1>2. ASSUME NEW n \in beg..last, NEW k \in beg..last, n \in C[k]
      PROVE  \/ k \in S /\ n = k
             \/ First(k) /\ k <= n /\ \A j \in k..n : j \notin S
  <2>1. CASE k \in S
    BY <1>2, <2>1
  <2>2. CASE First(k)
    <3>1. PICK next \in Int : C[k] = k..(next - 1) /\ \A j \in k..(next - 1) : j \notin S
      BY <2>2 DEF Fills
    <3> QED BY <1>2, <2>2, <3>1
  <2>3. CASE k \notin S /\ ~First(k)
    BY <1>2, <2>3
  <2> QED BY <2>1, <2>2, <2>3
<1>3. ASSUME NEW n \in beg..last
      PROVE  \E k \in beg..last : n \in C[k] /\ (k \in S <=> n \in S)
  <2>1. CASE n \in S
    BY <2>1
  <2>2. CASE n \notin S
    <3> DEFINE Starts == {k \in beg..n : k = beg \/ k - 1 \in S}
    <3>1. beg \in Starts /\ \A x \in Starts : x \in Int /\ x <= n
      OBVIOUS
    <3>2. PICK k \in Starts : \A j \in Starts : j <= k
      <4> HIDE DEF Starts
      <4>1. n \in Int /\ Starts # {}
        BY <3>1
      <4> QED BY <3>1, <4>1, GreatestBelow
    <3>3. k \in beg..last /\ k <= n
      BY <3>2
    <3>4. \A j \in k..n : j \notin S
      <4> SUFFICES ASSUME NEW j \in k..n, j \in S PROVE FALSE
        OBVIOUS
      <4>1. j < n
        BY <2>2
      <4>2. j + 1 \in Starts
        BY <3>3, <4>1
      <4> HIDE DEF Starts
      <4>3. j + 1 <= k
        BY <3>2, <4>2
      <4> QED BY <3>3, <4>3
    <3>5. First(k)
      BY <3>2, <3>3, <3>4
    <3>6. PICK next \in Int : /\ k < next /\ C[k] = k..(next - 1)
                              /\ next \in S \/ next = last + 1
      BY <3>3, <3>5 DEF Fills
    <3>7. n < next
      BY <3>3, <3>4, <3>6
    <3>8. n \in C[k] /\ k \notin S
      BY <3>3, <3>4, <3>6, <3>7
    <3> QED BY <2>2, <3>3, <3>8
  <2> QED BY <2>1, <2>2
<1>4. ASSUME NEW n \in beg..last, NEW k \in beg..last, NEW l \in beg..last,
             n \in C[k], n \in C[l], k < l
      PROVE  FALSE
  <2>1. \/ l \in S /\ n = l
        \/ First(l) /\ l <= n
    BY <1>2, <1>4
  <2>2. First(k) /\ \A j \in k..n : j \notin S
    BY <1>2, <1>4, <2>1
  <2>3. First(l) /\ l <= n
    BY <2>1, <2>2, <1>4
  <2>4. l - 1 \in S /\ l - 1 \in k..n
    BY <1>4, <2>3
  <2> QED BY <2>2, <2>4
<1>5. \A n \in beg..last : \E k \in beg..last :
        /\ n \in C[k] /\ (k \in S <=> n \in S)
        /\ \A l \in beg..last : n \in C[l] => l = k
  <2> SUFFICES ASSUME NEW n \in beg..last
               PROVE \E k \in beg..last :
                       /\ n \in C[k] /\ (k \in S <=> n \in S)
                       /\ \A l \in beg..last : n \in C[l] => l = k
    OBVIOUS
  <2>1. PICK k \in beg..last : n \in C[k] /\ (k \in S <=> n \in S)
    BY <1>3
  <2>2. \A l \in beg..last : n \in C[l] => l = k
    <3> SUFFICES ASSUME NEW l \in beg..last, n \in C[l], l # k PROVE FALSE
      OBVIOUS
    <3>1. k < l \/ l < k
      OBVIOUS
    <3> QED BY <1>4, <2>1, <3>1
  <2> QED BY <2>1, <2>2
<1> QED BY <1>1, <1>5

\* The walk of handleResend over a store that is keyed is such a walk.
LEMMA ResendAccounts ==
  ASSUME TypeOK, StoreKeyed, StoresApp,
         NEW beg \in 1..eng.out - 1, NEW end \in 0..eng.out, end = 0 \/ end >= beg
  PROVE  LET m == [Sample("2") EXCEPT !.beg = beg, !.end = end]
             acts == HandleResend(eng, m)
             asked == {n \in beg..eng.out - 1 : end = 0 \/ n <= end}
         IN /\ \A i \in DOMAIN acts : Covers(acts[i]) \subseteq asked
            /\ \A n \in asked : \E i \in DOMAIN acts :
                 /\ n \in Covers(acts[i])
                 /\ GapFill(acts[i].msg) <=> \A r \in eng.store : r.seq # n
                 /\ \A j \in DOMAIN acts : n \in Covers(acts[j]) => j = i
<1> DEFINE m == [Sample("2") EXCEPT !.beg = beg, !.end = end]
           acts == HandleResend(eng, m)
           asked == {n \in beg..eng.out - 1 : end = 0 \/ n <= end}
           last == ReplayEnd(eng, m)
           S == {r.seq : r \in Fetched(eng, m)}
           At(n) == ReplayAt(eng, m, n)
           C == [n \in beg..last |-> Covers(At(n))]
<1>1. /\ eng.out \in Int /\ eng.last \in Int /\ beg \in Int /\ end \in Int /\ beg >= 1
      /\ eng.store \subseteq Message
  BY DEF TypeOK, Engine
<1>2. m.beg = beg /\ m.end = end /\ m.fault = "none"
  BY DEF Sample
<1>3. last \in Int /\ beg <= last /\ last >= 1 /\ asked = beg..last
  BY <1>1, <1>2 DEF ReplayEnd
<1>4. \A r \in eng.store : r.seq \in Int /\ r.seq <= eng.last /\ r.type \notin Admin
  BY <1>1 DEF StoreKeyed, Keyed, StoresApp, Message
<1>5. Fetched(eng, m) = {r \in eng.store : beg <= r.seq /\ r.seq <= last}
  <2> HIDE DEF last, m
  <2> QED BY <1>1, <1>2, <1>3, <1>4 DEF Fetched, last
<1> HIDE DEF m
<1>6. S \in SUBSET (beg..last) /\ \A n \in beg..last : n \in S <=> \E r \in eng.store : r.seq = n
  <2> HIDE DEF last
  <2> QED BY <1>1, <1>3, <1>4, <1>5
<1>7. ReplayLast(eng, m) = last
  <2>1. \A k \in S : ~(k > last)
    <3> HIDE DEF last, S
    <3> QED BY <1>1, <1>3, <1>6
  <2> QED BY <2>1 DEF ReplayLast
<1>8. acts = [i \in 1..(last - beg + 1) |-> At(beg + i - 1)]
  BY <1>1, <1>2, <1>7 DEF HandleResend
<1>9. ASSUME NEW n \in beg..last, n \in S
      PROVE  ~GapFill(At(n).msg) /\ Covers(At(n)) = {n}
  <2> DEFINE r == CHOOSE r \in Fetched(eng, m) : r.seq = n
  <2>1. r \in Fetched(eng, m) /\ r.seq = n
    BY <1>9
  <2>2. r \in Message /\ r.type # "4"
    BY <1>1, <1>4, <1>5, <2>1 DEF Admin
  <2>3. At(n) = Send(ReplayOf(r))
    BY <1>9 DEF ReplayAt
  <2> HIDE DEF r, At
  <2>4. ReplayOf(r).type = r.type /\ ReplayOf(r).seq = r.seq
    BY <2>2 DEF ReplayOf, Message
  <2>5. ~GapFill(At(n).msg) /\ At(n).do = "send" /\ At(n).msg.seq = n
    BY <2>1, <2>2, <2>3, <2>4 DEF GapFill, Send
  <2> QED BY <2>5 DEF Covers
<1>10. ASSUME NEW n \in beg..last, n \notin S, n = beg \/ n - 1 \in S
       PROVE  GapFill(At(n).msg) /\ Fills(n, S, last, Covers(At(n)))
  <2> DEFINE later == {k \in S : k > n}
             next == IF later = {} THEN last + 1
                     ELSE CHOOSE k \in later : \A l \in later : k <= l
  <2>1. At(n) = Send(GapFillFrom(n, next))
    BY <1>2, <1>10 DEF ReplayAt
  <2>2. n \in Int /\ S \subseteq Int
    BY <1>1, <1>3, <1>6
  <2>3. /\ next \in Int /\ n < next /\ next <= last + 1
        /\ \A k \in n..(next - 1) : k \notin S
        /\ next \in S \/ next = last + 1
    <3> HIDE DEF last, S
    <3>1. CASE later = {}
      <4>1. next = last + 1
        BY <3>1
      <4>2. \A k \in S : k <= n
        BY <2>2, <3>1
      <4> HIDE DEF next, later
      <4>3. \A k \in n..(next - 1) : k \notin S
        BY <1>10, <2>2, <4>1, <4>2
      <4> QED BY <1>3, <2>2, <4>1, <4>3
    <3>2. CASE later # {}
      <4>1. \A k \in later : k \in Int /\ n <= k
        BY <2>2
      <4>2. \E k \in later : \A l \in later : k <= l
        <5> HIDE DEF later
        <5> QED BY <2>2, <3>2, <4>1, LeastAbove
      <4>3. next \in later /\ \A l \in later : next <= l
        BY <3>2, <4>2
      <4>4. next \in S /\ next > n /\ \A l \in S : l > n => next <= l
        BY <4>3
      <4> HIDE DEF next, later
      <4>5. next \in beg..last
        BY <1>6, <4>4
      <4>6. \A k \in n..(next - 1) : k \notin S
        BY <1>10, <2>2, <4>4, <4>5
      <4> QED BY <1>1, <1>3, <2>2, <4>4, <4>5, <4>6
    <3> QED BY <3>1, <3>2
  <2> HIDE DEF next, At
  <2>4. /\ GapFillFrom(n, next).type = "4" /\ GapFillFrom(n, next).gap = "Y"
        /\ GapFillFrom(n, next).seq = n /\ GapFillFrom(n, next).new = next
    BY DEF GapFillFrom, SeqResetTemplate, Sample
  <2>5. /\ At(n).do = "send" /\ GapFill(At(n).msg)
        /\ At(n).msg.seq = n /\ At(n).msg.new = next
    BY <2>1, <2>4 DEF GapFill, Send
  <2>6. Covers(At(n)) = n..(next - 1)
    BY <2>5 DEF Covers
  <2> QED BY <2>3, <2>5, <2>6 DEF Fills
<1>11. ASSUME NEW n \in beg..last, n \notin S, n # beg, n - 1 \notin S
       PROVE  Covers(At(n)) = {}
  <2>1. At(n) = Skip
    BY <1>2, <1>11 DEF ReplayAt
  <2> QED BY <2>1 DEF Covers, Skip
<1> HIDE DEF last, S, At
<1>12. /\ \A n \in beg..last : C[n] \subseteq beg..last
       /\ \A n \in beg..last : \E k \in beg..last :
            /\ n \in C[k] /\ (k \in S <=> n \in S)
            /\ \A l \in beg..last : n \in C[l] => l = k
  <2>1. \A n \in beg..last : n \in S => C[n] = {n}
    BY <1>9
  <2>2. \A n \in beg..last : n \notin S /\ (n = beg \/ n - 1 \in S) => Fills(n, S, last, C[n])
    BY <1>10
  <2>3. \A n \in beg..last : n \notin S /\ n # beg /\ n - 1 \notin S => C[n] = {}
    BY <1>11
  <2> HIDE DEF C
  <2> QED BY <1>1, <1>3, <1>6, <2>1, <2>2, <2>3, WalkCoversOnce
<1>13. /\ DOMAIN acts = 1..(last - beg + 1)
       /\ \A i \in DOMAIN acts : /\ beg + i - 1 \in beg..last
                                 /\ acts[i] = At(beg + i - 1)
                                 /\ Covers(acts[i]) = C[beg + i - 1]
  <2>1. \A i \in 1..(last - beg + 1) : beg + i - 1 \in beg..last
    BY <1>1, <1>3
  <2> QED BY <1>8, <2>1
<1> HIDE DEF C, acts
<1>14. ASSUME NEW i \in DOMAIN acts PROVE Covers(acts[i]) \subseteq asked
  <2> DEFINE n == beg + i - 1
  <2>1. n \in beg..last /\ Covers(acts[i]) = C[n]
    BY <1>13, <1>14
  <2> HIDE DEF n
  <2>2. C[n] \subseteq beg..last
    BY <1>12, <2>1
  <2> QED BY <1>3, <2>1, <2>2
<1>15. ASSUME NEW n \in asked
       PROVE \E i \in DOMAIN acts :
               /\ n \in Covers(acts[i])
               /\ GapFill(acts[i].msg) <=> \A r \in eng.store : r.seq # n
               /\ \A j \in DOMAIN acts : n \in Covers(acts[j]) => j = i
  <2>1. n \in beg..last
    BY <1>3
  <2>2. PICK k \in beg..last : /\ n \in C[k] /\ (k \in S <=> n \in S)
                               /\ \A l \in beg..last : n \in C[l] => l = k
    BY <1>12, <2>1
  <2> DEFINE i == k - beg + 1
  <2>3. i \in DOMAIN acts /\ beg + i - 1 = k
    BY <1>1, <1>3, <1>13
  <2>4. n \in Covers(acts[i]) /\ acts[i] = At(k)
    BY <1>13, <2>2, <2>3
  <2>5. GapFill(acts[i].msg) <=> n \notin S
    <3>1. CASE k \in S
      BY <1>9, <2>2, <2>4, <3>1
    <3>2. CASE k \notin S
      <4>1. k = beg \/ k - 1 \in S
        BY <1>11, <2>4, <3>2
      <4> QED BY <1>10, <2>2, <2>4, <3>2, <4>1
    <3> QED BY <3>1, <3>2
  <2>6. ASSUME NEW j \in DOMAIN acts, n \in Covers(acts[j]) PROVE j = i
    <3>1. beg + j - 1 \in beg..last /\ n \in C[beg + j - 1]
      BY <1>13, <2>6
    <3>2. beg + j - 1 = k
      BY <2>2, <3>1
    <3>3. j \in Int
      BY <1>1, <1>3, <1>13
    <3> QED BY <1>1, <3>2, <3>3
  <2> HIDE DEF i
  <2> QED BY <1>6, <2>1, <2>3, <2>4, <2>5, <2>6
<1> QED BY <1>14, <1>15 DEF acts, asked, m

\* In every reachable state the answer to every ResendRequest for numbers that
\* were sent accounts for each of them exactly once.
THEOREM EveryReplayAccounts == Spec => []ReplayAccounts
<1>1. Init => StoresApp
  BY DEF Init, NewEngine, StoresApp
<1>2. TypeOK /\ StoresApp /\ [Next]_vars => StoresApp'
  BY NextOut, StoresAppStep
<1>3. TypeOK /\ StoreKeyed /\ StoresApp => ReplayAccounts
  <2> SUFFICES ASSUME TypeOK, StoreKeyed, StoresApp PROVE ReplayAccounts
    OBVIOUS
  <2> QED BY ResendAccounts DEF ReplayAccounts
<1> QED BY <1>1, <1>2, <1>3, TypeCorrect, StoreIsKeyed, PTL DEF Spec

=============================================================================
