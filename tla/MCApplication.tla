----------------------------- MODULE MCApplication -----------------------------
(***************************************************************************)
(* What applications do around a session, for TLC: they replace it         *)
(* (AppReset), and expand the macros of the lines they run (Macros).  One  *)
(* part moves at a time, the other stays where it began; there, nothing is *)
(* enabled that is scheduled fairly.                                       *)
(***************************************************************************)
EXTENDS AppReset, Macros

CONSTANTS r1, r2, d1, w1, v1

\* AppReset: two resetters, one each of the others.
TwoResetters == {r1, r2}
OneDialer == {d1}
OneWaiter == {w1}
OneViewer == {v1}

\* Macros: two aliases and a variable.  A value is empty, a message, one that a
\* macro completes, a macro or two, or an alias with a parameter: one that sets
\* a field, two, the second of its tag, one field twice, one to the delimiter or
\* to an escaped comma, none that there is, or that is no parameter at all.

ThreeNames == {"A", "B", "v"}
TwoAliases == {"A", "B"}
Bare(n) == Refer(n, <<>>)
W == Char("w")
Bar == Char("|")
Order == <<Key(54), W, Bar>>
Legs == <<Key(54), W, Bar, Key(55), Bar, Key(54), W, Escape, Comma, Bar>>
Settings ==
  {<<Key(54)>>, <<KeyAt(54, 2), Escape, Comma, W>>, <<Key(54), W, W, Comma, Key(55), Key(54)>>,
   <<Key(54), W, Comma, Key(54), Bar>>, <<Key(54), Comma, KeyAt(54, 1), W>>,
   <<KeyAt(54, 0), W>>, <<Key(54), W, Comma, W>>}
SettingB ==
  {<<Plain(<<Key(54)>>), Bare("A")>>, <<Bare("v")>>, <<Plain(<<KeyAt(54, 1)>>), Computed>>}
SomeParams == {<<>>} \cup {<<Plain(setting)>> : setting \in Settings} \cup SettingB
SomeTexts ==
  {<<>>, <<Plain(Order)>>, <<Plain(Legs)>>, <<Plain(<<Key(54)>>), Bare("v"), Plain(<<Bar>>)>>,
   <<Bare("v"), Bare("v")>>, <<Bare("A"), Bare("v")>>, <<Computed>>, <<Faulty>>,
   <<Plain(<<Key(54), Escape, Comma>>)>>}
    \cup {<<Bare(n)>> : n \in ThreeNames}
    \cup {<<Refer("A", <<Plain(setting)>>)>> : setting \in Settings}
    \cup {<<Refer("B", param)>> : param \in SettingB}
    \cup {<<Refer("v", <<Plain(<<Key(54)>>)>>)>>}

-----------------------------------------------------------------------------
ApplicationInit == Init /\ MacrosInit

ApplicationNext ==
  \/ Next /\ MacrosInit /\ UNCHANGED macroVars
  \/ MacrosNext /\ Init /\ UNCHANGED vars

ApplicationSpec ==
  ApplicationInit /\ [][ApplicationNext]_<<vars, macroVars>> /\ AppFairness
=============================================================================
