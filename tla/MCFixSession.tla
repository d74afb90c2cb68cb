----------------------------- MODULE MCFixSession -----------------------------
(***************************************************************************)
(* Instances of FixSession for TLC: the messages, requests and bounds of   *)
(* its runs.                                                               *)
(***************************************************************************)
EXTENDS FixSession

Both == {TRUE, FALSE}
ClientOnly == {TRUE}
ServerOnly == {FALSE}
None == {}

Dup(m) == [m EXCEPT !.dups = 1]
Logon(hb) == [Sample("A") EXCEPT !.hb = hb]
LogonResetting == [Sample("A") EXCEPT !.reset = TRUE]
SequenceReset(flag, new) == [Sample("4") EXCEPT !.gap = flag, !.new = new]
Resend(beg, end) == [Sample("2") EXCEPT !.beg = beg, !.end = end]
Faulty(t, fault) == [Sample(t) EXCEPT !.fault = fault]

\* Every way a session starts, lives and ends; heartbeat intervals 0 (bad),
\* 1 (ours) and 2 (negotiated by an acceptor, refused by an initiator).
LifeKinds ==
  {Logon(0), Logon(1), Logon(2), LogonResetting, Sample("0"), Sample("5"), Faulty("D", "alien")}
LifeOffsets == {0, 1}

\* The sequence numbers: valid messages, new ones, replays and resetting Logons.
NumberKinds ==
  {Logon(1), LogonResetting, Sample("0"), Sample("D"), Dup(Sample("D")),
   Dup(SequenceReset("Y", 4)), Faulty("4", "number"), Resend(1, 0), Sample("5")}
  \cup {SequenceReset(g, n) : g \in {"Y", "N"}, n \in {1, 3, 4}}
NumberOffsets == {0, 1, 2}

\* What the store keeps: user messages between resends, test requests and
\* Logons that do or do not reset the numbers.
StoreKinds ==
  {Logon(1), LogonResetting, Sample("1"), Resend(1, 0), Resend(2, 3)}
Here == {0}
Order == {Sample("D")}
Orders == {Sample("D"), Faulty("D", "invalid")}
SomeResets == {<<1, 5>>, <<2, 2>>, <<4, 6>>}
\* Raw numbers the session has passed, uses next or is far from; outSeqNum is
\* moved below, onto and beyond numbers that are stored.
AnyRaw == {[Sample("D") EXCEPT !.seq = n] : n \in {2, 4, 9}}
OutResets == {<<2, 1>>, <<2, 4>>}
=============================================================================
