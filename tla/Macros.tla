-------------------------------- MODULE Macros --------------------------------
(***************************************************************************)
(* The macros of a line: Substitute replaces every $ALIAS, $VARS, $CFG and *)
(* $ENV reference by its value, the references in the value and in the     *)
(* parameter of an alias included, sets the fields of the alias' message   *)
(* that its parameter names, and refuses what refers back to itself.       *)
(*                                                                         *)
(* A text as it is written is a sequence of pieces, each a macro or plain; *)
(* plain, and expanded, it is a sequence of tokens: what stands before the *)
(* value of a field, "54=" or "54.2=", with a tag of two digits or more,   *)
(* which is written as a whole, and single characters that are no part of  *)
(* one.                                                                    *)
(***************************************************************************)
EXTENDS Naturals, Sequences, FiniteSets, SequencesExt

CONSTANTS
  Names,      \* keys of the store
  AliasNames, \* the ones in the ALIAS namespace: only they take a parameter
  Texts,      \* what a line, and a value of the store, may be
  Params      \* what a parameter may be

Char(c) == [char |-> c]
Key(t) == [tag |-> t, instance |-> <<>>]
KeyAt(t, n) == [tag |-> t, instance |-> <<n>>]
Token == [char : STRING] \cup [tag : Nat, instance : Seq(Nat)]
IsKey(token) == "tag" \in DOMAIN token

\* Pieces.  A computed macro ($BUF, $LASTIN, $DATE) takes its value from the
\* session and the buffer; one that is malformed, and a bracket that does not
\* close, is like a reference to what no store has.
Plain(tokens) == [to |-> "plain", with |-> tokens]
Computed == [to |-> "computed", with |-> <<>>]
Faulty == [to |-> "faulty", with |-> <<>>]
Refer(n, param) == [to |-> n, with |-> param]
IsPlain(piece) == piece.to = "plain"

ASSUME StoreNamesAssumption ==
  AliasNames \subseteq Names /\ Names \cap {"plain", "computed", "faulty"} = {}
Written == Texts \cup Params
ASSUME TextsAssumption ==
  Written \subseteq Seq([to : {"plain"}, with : Seq(Token) \ {<<>>}] \cup {Computed, Faulty}
                          \cup [to : Names, with : Params])

VARIABLES
  stored, \* the store: name -> its text, for the names that have one
  computable    \* the session and the buffer have what a computed macro asks for

macroVars == <<stored, computable>>

MacrosInit == stored = <<>> /\ computable = FALSE

Define(n, text) ==
  /\ stored' = [m \in DOMAIN stored \cup {n} |-> IF m = n THEN text ELSE stored[m]]
  /\ UNCHANGED computable
Undefine(n) ==
  /\ n \in DOMAIN stored /\ stored' = [m \in DOMAIN stored \ {n} |-> stored[m]]
  /\ UNCHANGED computable

\* A message comes in, the buffer is set; a new session has no messages yet.
Turnover == computable' = ~computable /\ UNCHANGED stored

MacrosNext ==
  \/ \E n \in Names : Undefine(n) \/ \E text \in Texts : Define(n, text)
  \/ Turnover

MacrosSpec == MacrosInit /\ [][MacrosNext]_macroVars

References(text) == {piece \in {text[i] : i \in DOMAIN text} : ~IsPlain(piece)}
Refs == UNION {References(text) : text \in Written}

-----------------------------------------------------------------------------
\* Mutations: what a slip in the code would turn a definition below into.
\* No specification uses them; each breaks a property of this module.

\* The name stays in the map once it is expanded.
ForgetNever(visited, n) == visited

\* The instance is not looked at: every field of the tag is set.
SetFieldAnyInstance(fields, setting) ==
  [p \in DOMAIN fields |->
     IF fields[p][1].tag = setting[1].tag THEN <<fields[p][1]>> \o Tail(setting) ELSE fields[p]]

-----------------------------------------------------------------------------
\* substituteMessageWithParamString

Comma == Char(",")
Escape == Char("\\")

\* strings.Split at these positions.
Split(text, breaks) ==
  LET parts[i \in 0..Len(text)] ==
        IF i = 0 THEN <<<<>>>>
        ELSE LET before == parts[i - 1] IN
             IF i \in breaks THEN Append(before, <<>>)
             ELSE Append(Front(before), Append(Last(before), text[i]))
  IN parts[Len(text)]

StartsWithKey(part) == part # <<>> /\ IsKey(Head(part))

\* The last character of a message is its delimiter, and ends every field.
FieldsOf(raw) == Front(Split(raw, {i \in DOMAIN raw : raw[i] = Last(raw)}))
IsMessage(raw) ==
  /\ raw # <<>> /\ ~IsKey(Last(raw))
  /\ \A p \in DOMAIN FieldsOf(raw) :
       StartsWithKey(FieldsOf(raw)[p]) /\ FieldsOf(raw)[p][1].instance = <<>>

SettingsOf(param) ==
  Split(param, {i \in DOMAIN param : param[i] = Comma /\ ~(i > 1 /\ param[i - 1] = Escape)})
InstanceOf(key) == IF key.instance = <<>> THEN 1 ELSE key.instance[1]
SameField(key, other) == key.tag = other.tag /\ InstanceOf(key) = InstanceOf(other)

\* paramKeys is asked for a key as it is written and has the ones before it
\* with their instance.
DuplicateSeen(settings) ==
  \E i, j \in DOMAIN settings :
    i < j /\ settings[j][1].instance # <<>> /\ SameField(settings[i][1], settings[j][1])
IsParam(param) ==
  /\ \A i \in DOMAIN SettingsOf(param) :
       StartsWithKey(SettingsOf(param)[i]) /\ InstanceOf(SettingsOf(param)[i][1]) > 0
  /\ ~DuplicateSeen(SettingsOf(param))

\* The field that a key names, or none.
Named(fields, key) ==
  {p \in DOMAIN fields :
     /\ fields[p][1].tag = key.tag
     /\ Cardinality({q \in 1..p : fields[q][1].tag = key.tag}) = InstanceOf(key)}
SetField(fields, setting) ==
  [p \in DOMAIN fields |->
     IF p \in Named(fields, setting[1]) THEN <<fields[p][1]>> \o Tail(setting) ELSE fields[p]]

Joined(fields, delimiter) == FlattenSeq([p \in DOMAIN fields |-> Append(fields[p], delimiter)])
Unescape(text) ==
  FlattenSeq([i \in DOMAIN text |->
    IF text[i] = Escape /\ i < Len(text) /\ text[i + 1] = Comma THEN <<>> ELSE <<text[i]>>])

FitsMessage(raw, param) ==
  /\ IsMessage(raw) /\ IsParam(param)
  /\ \A i \in DOMAIN SettingsOf(param) : Named(FieldsOf(raw), SettingsOf(param)[i][1]) # {}

\* Escaped commas are kept for the expansions outside, if any.
FormOf(visited) == IF visited = {} THEN "shown" ELSE "text"

WithParam(raw, param, form) ==
  LET set == Joined(FoldLeft(SetField, FieldsOf(raw), SettingsOf(param)), Last(raw))
  IN IF form = "shown" THEN Unescape(set) ELSE set

-----------------------------------------------------------------------------
\* substituteAll and resolveMacro share the map of the names that are being
\* expanded, so each returns it with its result.  resolve is resolveMacro, as
\* a function of the macro and that map.

Lookups == Refs \X SUBSET Names

Expansion(text, visited) == [ok |-> TRUE, text |-> text, visited |-> visited]
Failure(visited) == [ok |-> FALSE, text |-> <<>>, visited |-> visited]

\* One turn of the loop of substituteAll.
Turn(resolve, piece, done) ==
  LET val == resolve[<<piece, done.visited>>]
  IN IF ~done.ok THEN done
     ELSE IF IsPlain(piece) THEN Expansion(done.text \o piece.with, done.visited)
     ELSE IF val.ok THEN Expansion(done.text \o val.text, val.visited)
     ELSE Failure(val.visited)

Turns(resolve, text, visited) ==
  LET done[i \in 0..Len(text)] ==
        IF i = 0 THEN Expansion(<<>>, visited) ELSE Turn(resolve, text[i], done[i - 1])
  IN done

SubstituteAll(resolve, text, visited) == Turns(resolve, text, visited)[Len(text)]

\* The value of a computed macro, when it has one.
ComputedValue == <<Char("w")>>

\* delete(visited, storeKey)
Forget(visited, n) == visited \ {n}

Refuses(ref, visited) ==
  \/ ref.with # <<>> /\ ref.to \notin AliasNames
  \/ ref.to \in visited
  \/ ref.to \notin DOMAIN stored

\* What is left once value and parameter are expanded.
SetParam(raw, param, visited) ==
  IF param = <<>> THEN Expansion(raw, visited)
  ELSE IF FitsMessage(raw, param) THEN Expansion(WithParam(raw, param, FormOf(visited)), visited)
  ELSE Failure(visited)

ResolveMacro(resolve, ref, visited) ==
  LET n == ref.to
      val == SubstituteAll(resolve, stored[n], visited \cup {n})
      param == SubstituteAll(resolve, ref.with, val.visited)
  IN IF ref = Computed THEN IF computable THEN Expansion(ComputedValue, visited) ELSE Failure(visited)
     ELSE IF Refuses(ref, visited) THEN Failure(visited)
     ELSE IF ~val.ok THEN Failure(Forget(val.visited, n))
     ELSE IF ~param.ok THEN Failure(Forget(param.visited, n))
     ELSE SetParam(val.text, param.text, Forget(param.visited, n))

Resolve[c \in Lookups] == ResolveMacro(Resolve, c[1], c[2])

Substitute(text) == SubstituteAll(Resolve, text, {})

-----------------------------------------------------------------------------
\* The reference works from below, in rounds, and follows no path: a round
\* knows what a reference expands to, and the names that takes, if the round
\* before knew all that the expansion refers to, its own name not among them,
\* and the parameter fits the message.  It knows two forms of an expansion: the
\* text within another one, and what is shown in the line, commas unescaped.
\* An expansion never visits a name twice, so there are as many rounds as names.

Rounds == Cardinality(DOMAIN stored)

Onward(ref) == References(stored[ref.to]) \cup References(ref.with)
NamesIn(known, refs) == UNION {known[r].names : r \in refs}

Known(known, piece, form) == IF IsPlain(piece) THEN piece.with ELSE known[piece][form]

Filling(known, text, form) ==
  LET filled[i \in 0..Len(text)] ==
        IF i = 0 THEN <<>> ELSE filled[i - 1] \o Known(known, text[i], form)
  IN filled
Filled(known, text, form) == Filling(known, text, form)[Len(text)]

Message(known, ref) == Filled(known, stored[ref.to], "text")
Param(known, ref) == Filled(known, ref.with, "text")

Ready(known, ref) ==
  \/ ref = Computed /\ computable
  \/ /\ ref.to \in DOMAIN stored
     /\ ref.with = <<>> \/ ref.to \in AliasNames
     /\ Onward(ref) \subseteq DOMAIN known
     /\ ref.to \notin NamesIn(known, Onward(ref))
     /\ Param(known, ref) = <<>> \/ FitsMessage(Message(known, ref), Param(known, ref))

Stands(known, ref, form) ==
  IF Param(known, ref) = <<>> THEN Message(known, ref)
  ELSE WithParam(Message(known, ref), Param(known, ref), form)

Learn(known, ref) ==
  IF ref = Computed THEN [text |-> ComputedValue, shown |-> ComputedValue, names |-> {}]
  ELSE [text |-> Stands(known, ref, "text"), shown |-> Stands(known, ref, "shown"),
        names |-> {ref.to} \cup NamesIn(known, Onward(ref))]

Round(known) == [r \in {ref \in Refs : Ready(known, ref)} |-> Learn(known, r)]

Learned[k \in 0..Rounds] == Round(IF k = 0 THEN [r \in {} |-> {}] ELSE Learned[k - 1])

\* Substitute fails exactly on what it cannot expand: a macro, however deep,
\* without a value, one that comes back to its own name, or one whose parameter
\* does not fit its message.  A name used twice side by side is no circle.
\* What it returns is what the rounds know, escaped commas kept but for the
\* parameter of an alias in the line itself, and the map is empty again.
ExpandsOrRefuses ==
  LET known == Learned[Rounds] IN
  \A text \in Texts :
    LET result == Substitute(text) IN
    /\ result.ok <=> References(text) \subseteq DOMAIN known
    /\ result.ok => result.text = Filled(known, text, "shown")
    /\ result.visited = {}

-----------------------------------------------------------------------------
\* The aliases in a line whose parameter has no macros.
HasPlainParam(ref) ==
  ref.to \in AliasNames /\ Len(ref.with) = 1 /\ IsPlain(ref.with[1]) /\ ref.with[1].with # <<>>

\* A parameter changes the fields it names and nothing else: the message it
\* leaves has the fields of the alias, each with its own value or, where it is
\* named, the last value set, as long as no value holds the delimiter.  Commas
\* are unescaped in all of it.
SetsOnlyWhatIsNamed ==
  \A ref \in Refs : HasPlainParam(ref) /\ Refer(ref.to, <<>>) \in Refs =>
    LET raw == Substitute(<<Refer(ref.to, <<>>)>>)
        result == Substitute(<<ref>>)
        settings == SettingsOf(ref.with[1].with)
        before == FieldsOf(raw.text)
        after == FieldsOf(result.text)
        Asked(p) == {i \in DOMAIN settings : p \in Named(before, settings[i][1])}
        Wanted(p) ==
          IF Asked(p) = {} THEN before[p]
          ELSE <<before[p][1]>>
                 \o Tail(settings[CHOOSE i \in Asked(p) : \A j \in Asked(p) : j <= i])
    IN result.ok /\ Last(raw.text) \notin {Comma, Escape} \cup ToSet(ref.with[1].with) =>
         /\ raw.ok /\ Last(result.text) = Last(raw.text)
         /\ DOMAIN after = DOMAIN before
         /\ \A p \in DOMAIN after : after[p] = Unescape(Wanted(p))
=============================================================================
