------------------------------ MODULE FixEngine ------------------------------
(***************************************************************************)
(* The protocol logic of pkg/session as operators on one engine value:     *)
(* every event handler of Engine returns the engine it leaves behind and   *)
(* the actions it asks the session's run loop to execute, in order.  The   *)
(* module has no variables; FixSession runs it.                            *)
(***************************************************************************)
EXTENDS Integers, Sequences

CONSTANTS
  HbInt,     \* Engine.heartbeatInt as configured, in ticks of the run loop
  IdleCap,   \* silences of this many ticks and more are not told apart
  Strict     \* EngineOptions.FixValidateStrict

LogonTimeout == 3

ASSUME HbAssumption == HbInt \in Nat \ {0}
ASSUME IdleAssumption == IdleCap \in Nat /\ IdleCap > LogonTimeout
ASSUME StrictAssumption == Strict \in BOOLEAN

States == {"New", "Listening", "LoggingIn", "Active", "Stale", "OutOfSync", "Closed"}

\* engine.state >= SessionActive, in the order of the iota block
Established == {"Active", "Stale", "OutOfSync", "Closed"}

-----------------------------------------------------------------------------
\* Messages.  "D" stands for every message type that is not administrative.
Admin == {"0", "1", "2", "3", "4", "5", "A"}
MsgTypes == Admin \cup {"D"}

(***************************************************************************)
(* A message is what the handlers read of it: 35, 34, 123, 36, 7, 16, 141, *)
(* 108 and the number of 43 tags (beyond two they are not told apart).     *)
(* body names the business content of an application message.  fault is   *)
(* the outcome of the checks that do not depend on sequence numbers:       *)
(*   alien    8, 49, 56 or 52 missing or wrong: a plain error              *)
(*   invalid  stale or malformed 52, or the specification is violated: a   *)
(*            RejectError                                                  *)
(*   number   valid, but the number its handler parses does not parse      *)
(***************************************************************************)
Faults == {"none", "alien", "invalid", "number"}
Message ==
  [type : MsgTypes, seq : Int, dups : 0..2, gap : {"-", "Y", "N"}, new : Int,
   beg : Int, end : Int, reset : BOOLEAN, hb : Int, fault : Faults, body : Nat]

Sample(t) ==
  [type |-> t, seq |-> 0, dups |-> 0, gap |-> "-", new |-> 0, beg |-> 0,
   end |-> 0, reset |-> FALSE, hb |-> HbInt, fault |-> "none", body |-> 0]

PossDup(m) == m.dups > 0
HardReset(m) == m.type = "4" /\ m.gap = "N"
GapFill(m) == m.type = "4" /\ m.gap = "Y"
LogonReset(m) == m.type = "A" /\ m.reset

-----------------------------------------------------------------------------
\* Actions.  The ones that only write a log line are left out; Skip stands
\* for a place in a list where the code appends nothing.
Send(m) == [do |-> "send", msg |-> m]
Deliver(m) == [do |-> "deliver", msg |-> m]
Close == [do |-> "close", msg |-> Sample("5")]
Skip == [do |-> "skip", msg |-> Sample("0")]
Action == [do : {"send", "deliver", "close", "skip"}, msg : Message]

\* The engine.  read and write are the ticks since the last read and write;
\* the keys of MessageStore.data are the 34 of the messages themselves.
Engine ==
  [state : States, in : Int, out : Int, until : Int, hb : Nat \ {0},
   read : 0..IdleCap, write : 0..IdleCap, store : SUBSET Message, last : Int]

NewEngine ==
  [state |-> "New", in |-> 1, out |-> 1, until |-> 0, hb |-> HbInt,
   read |-> 0, write |-> 0, store |-> {}, last |-> 0]

\* What a handler returns: the engine, the actions, and whether the message
\* was accepted, that is, counted in inSeqNum.
Result(e, acts, accepted) == [eng |-> e, acts |-> acts, accepted |-> accepted]
To(e, s) == [e EXCEPT !.state = s]

-----------------------------------------------------------------------------
\* Mutations: what a slip in the code would turn a definition of this module
\* into.  No specification uses them; each breaks a property of FixSession.

\* A reset that forgets lastSeqNo.
StoreResetKeepsLast(e) == [e EXCEPT !.store = {}]

\* Append that wants a hole before the next number.
StoreAppendOffByOne(e, m) ==
  IF m.seq > e.last + 1 THEN [e EXCEPT !.store = @ \cup {m}, !.last = m.seq] ELSE e

\* A Logon whose heartbeat interval is compared but not required positive.
BadHeartBtIntUnchecked(e, m) ==
  m.fault = "number" \/ (e.state = "LoggingIn" /\ m.hb # e.hb)

\* A gap fill for one number, however long the run.
GapFillOne(n, next) == [Sample("4") EXCEPT !.gap = "Y", !.dups = 1, !.seq = n, !.new = n + 1]

\* A SequenceReset that may go back.
BadNewSeqNoUnchecked(e, m) == m.fault = "number"

\* A gap of one number that goes unnoticed.
GapSeenLate(e, m) == ~HardReset(m) /\ m.seq > e.in + 1

\* The comparison with outOfSyncUntil off by one.
GapResolvedLate(e) == e.in >= e.until

\* Silence noticed only in an Active session.
FallsSilentActive(e) == e.state = "Active" /\ e.read >= e.hb

-----------------------------------------------------------------------------
\* Outbound side: what handleSend does to a message and to the engine.

\* finalizeMessage renumbers everything but a gap fill, replays included.
Finalized(e, m) == IF GapFill(m) THEN m ELSE [m EXCEPT !.seq = e.out]

\* In strict mode a second 43 is an out-of-context tag.
Finalizes(m) == m.fault # "invalid" /\ ~(Strict /\ m.dups > 1)

\* MessageStore.Append refuses numbers that do not grow.
StoreAppend(e, m) ==
  IF m.seq > e.last THEN [e EXCEPT !.store = @ \cup {m}, !.last = m.seq] ELSE e

StoreReset(e) == [e EXCEPT !.store = {}, !.last = 0]

RecordWrite(e, m) ==
  LET written == [e EXCEPT !.write = 0] IN
  CASE m.type = "4" -> written
    [] m.type \in Admin \ {"4"} -> [written EXCEPT !.out = @ + 1]
    [] OTHER -> StoreAppend([written EXCEPT !.out = @ + 1], m)

-----------------------------------------------------------------------------
\* Engine.off: its callers may keep the engine and discard the actions.
Off(e) ==
  IF e.state = "Closed"
  THEN Result(e, <<>>, TRUE)
  ELSE Result(To(e, "Closed"), <<Send(Sample("5")), Close>>, TRUE)

OnStart(e, isClient) ==
  LET fresh == [e EXCEPT !.read = 0, !.write = 0] IN
  IF isClient
  THEN Result(To(fresh, "LoggingIn"), <<Send([Sample("A") EXCEPT !.reset = TRUE])>>, TRUE)
  ELSE Result(To(fresh, "Listening"), <<>>, TRUE)

BadHeartBtInt(e, m) ==
  m.fault = "number" \/ m.hb < 1 \/ (e.state = "LoggingIn" /\ m.hb # e.hb)

\* The acceptor starts numbering anew, the initiator already used number 1.
LogonNumbers(e, m) ==
  IF m.reset
  THEN [StoreReset(e) EXCEPT !.in = 1, !.out = IF e.state = "Listening" THEN 1 ELSE @]
  ELSE [e EXCEPT !.in = IF m.seq > @ THEN m.seq ELSE @]

HandleLogon(e, m) ==
  CASE BadHeartBtInt(e, m) -> Result(Off(e).eng, <<Send(Sample("5")), Close>>, FALSE)
    [] ~BadHeartBtInt(e, m) /\ e.state = "Listening" ->
         Result([LogonNumbers(e, m) EXCEPT !.state = "Active", !.hb = m.hb],
                <<Send([Sample("A") EXCEPT !.hb = m.hb])>>, TRUE)
    [] OTHER -> Result(To(LogonNumbers(e, m), "Active"), <<>>, TRUE)

(***************************************************************************)
(* handleResend walks the numbers from 7 up to 16 (0 or too large: the     *)
(* last one sent).  A stored message is replayed; the first of a run of    *)
(* numbers that are not stored is gap-filled up to the next stored one.    *)
(* Fetch takes an end of 0, the last number before anything was sent, for  *)
(* no bound at all.                                                        *)
(***************************************************************************)
ReplayEnd(e, m) == IF m.end = 0 \/ m.end > e.out - 1 THEN e.out - 1 ELSE m.end
Fetched(e, m) ==
  LET end == ReplayEnd(e, m)
      bound == IF end = 0 \/ end > e.last THEN e.last ELSE end
  IN {r \in e.store : m.beg <= r.seq /\ r.seq <= bound}

ReplayOf(r) == [r EXCEPT !.dups = IF @ = 2 THEN 2 ELSE @ + 1]
SeqResetTemplate == [Sample("4") EXCEPT !.gap = "Y", !.dups = 1]
GapFillFrom(n, next) == [SeqResetTemplate EXCEPT !.seq = n, !.new = next]

ReplayAt(e, m, n) ==
  LET stored == {r.seq : r \in Fetched(e, m)}
      later == {k \in stored : k > n}
      next == IF later = {} THEN ReplayEnd(e, m) + 1
              ELSE CHOOSE k \in later : \A l \in later : k <= l
  IN CASE n \in stored -> Send(ReplayOf(CHOOSE r \in Fetched(e, m) : r.seq = n))
       [] n \notin stored /\ (n = m.beg \/ n - 1 \in stored) -> Send(GapFillFrom(n, next))
       [] OTHER -> Skip

\* The last number the walk reaches: the end, or a stored message beyond it.
ReplayLast(e, m) ==
  LET stored == {r.seq : r \in Fetched(e, m)} IN
  IF \E k \in stored : k > ReplayEnd(e, m) THEN e.last ELSE ReplayEnd(e, m)

HandleResend(e, m) ==
  IF m.fault = "number" \/ m.beg <= 0
  THEN <<Send(Sample("3"))>>
  ELSE [i \in 1..(ReplayLast(e, m) - m.beg + 1) |-> ReplayAt(e, m, m.beg + i - 1)]

BadNewSeqNo(e, m) == m.fault = "number" \/ m.new < e.in
HandleSequenceReset(e, m) ==
  IF BadNewSeqNo(e, m)
  THEN Result(e, <<Send(Sample("3"))>>, FALSE)
  ELSE Result([e EXCEPT !.in = m.new], <<>>, FALSE)

GapSeen(e, m) == ~HardReset(m) /\ m.seq > e.in
HandleAppMessage(e, m) ==
  IF GapSeen(e, m)
  THEN Result([e EXCEPT !.state = "OutOfSync", !.until = m.seq],
              <<Send([Sample("2") EXCEPT !.beg = e.in])>>, FALSE)
  ELSE CASE m.type = "0" -> Result(e, <<>>, TRUE)
         [] m.type = "1" -> Result(e, <<Send(Sample("0"))>>, TRUE)
         [] m.type = "2" -> Result(e, HandleResend(e, m), TRUE)
         [] m.type = "4" -> HandleSequenceReset(e, m)
         [] m.type = "5" -> Off(e)
         [] OTHER -> Result(e, <<Deliver(m)>>, TRUE)

\* The comparison with outOfSyncUntil reads the inSeqNum the handler left.
GapResolved(e) == e.in + 1 >= e.until
HandleOutSyncMessage(e, m) ==
  LET r == HandleAppMessage(e, m)
      healed == [r EXCEPT !.eng.state = "Active"]
  IN CASE m.type = "2" -> Result(e, HandleResend(e, m), FALSE)
       [] HardReset(m) -> healed
       [] ~(m.type = "2" \/ HardReset(m)) /\ m.seq # e.in -> Result(e, <<>>, FALSE)
       [] OTHER -> IF GapResolved(r.eng) THEN healed ELSE r

-----------------------------------------------------------------------------
\* Engine.validate: the errors that log out, and the ones that only reject.
FatalError(e, m) ==
  \/ m.fault = "alien"
  \/ /\ ~(HardReset(m) \/ LogonReset(m) \/ PossDup(m))
     /\ m.seq < e.in
  \/ LogonReset(m) /\ m.seq # 1

RejectError(e, m) == ~FatalError(e, m) /\ m.fault = "invalid"

\* OnMessage past validation.
Dispatch(e, m) ==
  CASE e.state \in {"Listening", "LoggingIn"} ->
         IF m.type = "A" THEN HandleLogon(e, m)
         ELSE Result(e, <<Send(Sample("3"))>>, FALSE)
    [] e.state = "Active" -> HandleAppMessage(e, m)
    [] e.state = "Stale" ->
         LET r == HandleAppMessage(e, m) IN
         IF r.eng.state = "Stale" THEN [r EXCEPT !.eng.state = "Active"] ELSE r
    [] e.state = "OutOfSync" -> HandleOutSyncMessage(e, m)
    [] OTHER -> Result(e, <<>>, FALSE)

\* engine.inSeqNum++
Counted(e) == [e EXCEPT !.in = @ + 1]

\* Errors before the session is established end it, later ones may only reject.
Rejects(e, m) == RejectError(e, m) /\ e.state \in Established
LogsOut(e, m) == FatalError(e, m) \/ (RejectError(e, m) /\ e.state \notin Established)

Process(e, m) ==
  LET r == Dispatch(e, m)
  IN CASE Rejects(e, m) -> Result(Counted(e), <<Send(Sample("3"))>>, FALSE)
       [] LogsOut(e, m) -> Result(e, <<Send(Sample("5")), Close>>, FALSE)
       [] OTHER -> IF r.accepted THEN [r EXCEPT !.eng = Counted(@)] ELSE r

OnMessage(e, m) == Process([e EXCEPT !.read = 0], m)

LogonTimedOut(e) == e.state = "LoggingIn" /\ e.write > LogonTimeout
FallsSilent(e) == e.state # "Stale" /\ e.read >= e.hb
Dead(e) == e.state = "Stale" /\ e.read >= 3 * e.hb

\* Neither timeout sends a Logout.
OnTick(e) ==
  LET heartbeat == IF e.write >= e.hb THEN <<Send(Sample("0"))>> ELSE <<>>
  IN CASE LogonTimedOut(e) \/ Dead(e) -> Result(Off(e).eng, <<Close>>, TRUE)
       [] ~LogonTimedOut(e) /\ FallsSilent(e) ->
            Result(To(e, "Stale"), Append(heartbeat, Send(Sample("1"))), TRUE)
       [] OTHER -> Result(e, heartbeat, TRUE)

OnResetSequence(e, in, out) ==
  LET alive == e.state \notin {"New", "Closed"}
      moved == [e EXCEPT !.in = in, !.out = out]
      acts == IF alive /\ out > e.out
              THEN <<Send([Sample("4") EXCEPT !.new = out, !.gap = "N"])>> ELSE <<>>
  IN IF e.state = "OutOfSync"
     THEN Result([moved EXCEPT !.state = "Active", !.until = 0], acts, TRUE)
     ELSE Result(moved, acts, TRUE)

OnDisconnect(e) == To(e, "Closed")

=============================================================================
