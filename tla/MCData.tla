-------------------------------- MODULE MCData --------------------------------
(***************************************************************************)
(* What is kept and what is computed from it, for TLC: the configuration   *)
(* (ConfigStore), the data dictionary (Dictionary), the matchers (Matcher) *)
(* and the log history (RingBuffer).  One part moves at a time, the others *)
(* stay where they began.                                                  *)
(***************************************************************************)
EXTENDS ConfigStore, Dictionary, Matcher, RingBuffer

CONSTANTS h1, h2, x, y, a, b, c

-----------------------------------------------------------------------------
\* ConfigStore: two handlers, two fields of the form, one alias.

TwoHandlers == {h1, h2}
TwoFields == <<"IpAddr", "Port">>
OneAlias == {"Order"}
SomeValues == {x, y}
SomePaths == {"cwd", "home"}

Uniform(v, w) == [k \in Keys |-> IF k \in Aliases THEN w ELSE v]
DefaultConfig == Uniform(x, NoValue)

\* No file at all, one in each place, and one that cannot be read.
NoFiles == [p \in SomePaths |-> Missing]
SomeDisks ==
  {NoFiles,
   [p \in SomePaths |-> Uniform(x, IF p = "cwd" THEN x ELSE NoValue)],
   [p \in SomePaths |-> IF p = "cwd" THEN Garbage ELSE Uniform(y, y)]}

\* A form with the last field refused, too; an alias set, deleted, imported.
SomeRequests ==
  {SaveForm(<<y, y>>), SaveForm(<<y, Bad>>), SetAlias("Order", y), DeleteAlias("Order"),
   ImportAliases(<<<<NoKey, x>>, <<"Order", Bad>>>>), ConfigSet("Port", y),
   AliasAdd("Order", x), AliasDel(<<"Order", "Order">>),
   ConfigSave, ConfigSaveTo("home"), ExportConfig("home"),
   ConfigLoad("home"), ImportConfig("home"), ResetConfig}

-----------------------------------------------------------------------------
\* Dictionary: flat groups, nested ones, a group as the first member of one,
\* components in components and in themselves, optional fields and groups
\* between the mandatory ones; each required or not.

OneRouting == <<34>>
Raw(kind, tag, required, entries) ==
  [kind |-> kind, tag |-> tag, required |-> required, entries |-> entries]
Leaf(tag, required) == Raw("field", tag, required, <<>>)
Group70(required, entries) == Raw("group", 70, required, entries)
Group73(required, entries) == Raw("group", 73, required, entries)
Component(n, required) == Raw("component", n, required, <<>>)

XML(header, body, trailer, components) ==
  [header |-> <<Leaf(8, TRUE), Leaf(9, TRUE), Leaf(35, TRUE)>> \o header,
   heartbeat |-> <<Leaf(112, FALSE)>>, body |-> body,
   trailer |-> trailer \o <<Leaf(10, TRUE)>>, components |-> components,
   fields |-> {8, 9, 10, 11, 12, 34, 35, 50, 70, 71, 72, 73, 74, 75, 89, 112}, groups |-> {70, 73}]
Ordinary(body, components) == XML(<<Leaf(34, TRUE)>>, body, <<>>, components)

FlatBodies ==
  {<<Leaf(11, p), Group70(q, <<Leaf(71, r), Leaf(72, s)>>), Leaf(12, FALSE)>> : p, q, r, s \in BOOLEAN}
NestedBodies ==
  {<<Group70(q, <<Leaf(71, r), Group73(s, <<Leaf(74, t), Leaf(75, FALSE)>>), Leaf(72, ~r)>>),
     Leaf(11, FALSE)>> : q, r, s, t \in BOOLEAN}
AnchoredBodies ==
  {<<Group70(TRUE, <<Group73(q, <<Leaf(74, FALSE)>>), Leaf(72, r)>>)>> : q, r \in BOOLEAN}
WithComponents ==
  {Ordinary(<<Component(1, q), Leaf(11, TRUE)>>,
            <<<<Leaf(12, TRUE), Component(2, TRUE)>>, <<Group70(r, <<Leaf(71, FALSE)>>)>>>>) : q, r \in BOOLEAN}
Unusable ==
  {Ordinary(<<Component(1, TRUE)>>, <<<<Component(2, TRUE)>>, <<Group70(TRUE, <<Component(1, TRUE)>>)>>>>),
   Ordinary(<<Component(3, TRUE)>>, <<>>), Ordinary(<<Raw("other", 11, TRUE, <<>>)>>, <<>>),
   Ordinary(<<Leaf(99, TRUE)>>, <<>>),
   XML(<<Leaf(34, FALSE)>>, <<>>, <<>>, <<>>)}
WithOptions ==
  {XML(<<Leaf(50, q), Leaf(34, TRUE), Group70(r, <<Leaf(71, FALSE), Leaf(72, TRUE)>>)>>,
       <<Leaf(11, q)>>, <<Leaf(89, r)>>, <<>>) : q, r \in BOOLEAN}
SomeSpecs ==
  {Ordinary(body, <<>>) : body \in FlatBodies \cup NestedBodies \cup AnchoredBodies}
    \cup WithComponents \cup Unusable \cup WithOptions

Times(n) == [t \in {70, 73} |-> n]
SomeOptions ==
  {[pick |-> p, tags |-> {12, 50, 72, 74}, repeat |-> r] :
     p \in {"required", "all", "listed"}, r \in {<<>>, Times(0), Times(2)}}
SomeCounts == 0..3

-----------------------------------------------------------------------------
\* Matcher: two operands, and messages that have both, one or neither.
FourMessages == {"both", "left", "right", "neither"}
TwoOperands == {"35=D", "39=4"}
SomeHaving == [o \in TwoOperands |-> {"both", IF o = "35=D" THEN "left" ELSE "right"}]
OneMalformed == {"35"}

\* RingBuffer
SomeLines == {a, b, c}

-----------------------------------------------------------------------------
AtFirst == ConfigInit /\ files = NoFiles

Scanned == Len(tokens) = MaxTokens /\ UNCHANGED tokens
Checked == (phase \in {"failed", "finalized", "salvaged"}) /\ UNCHANGED dictVars

DataInit == ConfigInit /\ DictInit /\ MatcherInit /\ Init

DataNext ==
  \/ /\ DictInit /\ MatcherInit /\ Init
     /\ ConfigNext /\ UNCHANGED <<dictVars, tokens, vars>>
  \/ /\ MatcherInit /\ Init /\ AtFirst
     /\ DictNext \/ Checked
     /\ UNCHANGED <<configVars, tokens, vars>>
  \/ /\ DictInit /\ Init /\ AtFirst
     /\ MatcherNext \/ Scanned
     /\ UNCHANGED <<configVars, dictVars, vars>>
  \/ /\ DictInit /\ MatcherInit /\ AtFirst
     /\ Next /\ UNCHANGED <<configVars, dictVars, tokens>>

DataSpec == DataInit /\ [][DataNext]_<<configVars, dictVars, tokens, vars>>
=============================================================================
