------------------------------ MODULE Dictionary ------------------------------
(***************************************************************************)
(* The data dictionary: what LoadSpec compiles from an XML specification,  *)
(* the templates Sample builds from it, what a user makes of one, Finalize *)
(* and Salvage, and what Validate says of the outcome.                     *)
(*                                                                         *)
(* A field is its tag, a number and whether its text is right: of the      *)
(* datatype, or for BeginString, BodyLength and CheckSum the one expected. *)
(* The number is the count of a group, or which MsgType.  Tags stand for   *)
(* names, texts and lengths are left out.                                  *)
(*                                                                         *)
(* What recurses is a function, that DictionaryProofs can reason about.    *)
(***************************************************************************)
EXTENDS Integers, Sequences

CONSTANTS
  RawSpecs,  \* what the XML file may hold
  MaxDepth,  \* bound on the nesting of groups
  Routing,   \* the tags 49, 56, 34 and 52, or some of them
  Options,   \* the SampleOptions that are asked for
  Counts,    \* what a count may be changed to
  MaxEdits   \* bound on the changes made to a template

BeginString == 8
BodyLength == 9
MsgType == 35
CheckSum == 10
HeaderTags == <<BeginString, BodyLength, MsgType>> \o Routing

Heartbeat == 0
Body == 1
Unknown == 2

VARIABLES
  raw,     \* the XML file, once it is read
  spec,    \* the Spec, or NoSpec when LoadSpec or CheckSessionCapabilities fails
  msg,     \* the template, and what became of it
  phase,   \* "new", "raw", "loaded", "failed", "sampled", "edited", "finalized" or "salvaged"
  edits    \* changes so far (bound)

dictVars == <<raw, spec, msg, phase, edits>>

NoFile == [fields |-> {}, groups |-> {}]
NoSpec == [header |-> <<>>, trailer |-> <<>>, messages |-> <<>>]

DictInit ==
  /\ raw = NoFile /\ spec = NoSpec
  /\ msg = <<>> /\ phase = "new" /\ edits = 0

Mandatory == {HeaderTags[i] : i \in DOMAIN HeaderTags} \cup {CheckSum}

Elements(s) == {s[i] : i \in DOMAIN s}
Tags(s) == {s[i].tag : i \in DOMAIN s}
TagsOf(S) == {e.tag : e \in S}

-----------------------------------------------------------------------------
\* LoadSpec.  Lookup, the position of a tag among the entries, is its last one.

Entry(r, entries) ==
  [tag |-> r.tag, required |-> r.required, isGroup |-> r.kind = "group", entries |-> entries]
Position(entries, tag) ==
  IF tag \notin Tags(entries) THEN 0
  ELSE CHOOSE i \in DOMAIN entries :
         entries[i].tag = tag /\ \A j \in i + 1..Len(entries) : entries[j].tag # tag
EntryFor(entries, tag) == entries[Position(entries, tag)]
Lookup(entries) == {EntryFor(entries, t) : t \in Tags(entries)}

\* What a list may hold, as read and as compiled, and how deep groups go.
RawsUpTo[depth \in 0..MaxDepth] ==
  IF depth = 0 THEN {}
  ELSE [kind : {"field", "group", "component", "other"}, tag : Nat, required : BOOLEAN, entries : Seq(RawsUpTo[depth - 1])]
EntriesUpTo[depth \in 0..MaxDepth] ==
  IF depth = 0 THEN {}
  ELSE [tag : Nat, required : BOOLEAN, isGroup : BOOLEAN, entries : Seq(EntriesUpTo[depth - 1])]
Entries == EntriesUpTo[MaxDepth]

Compiled(entries) == [ok |-> TRUE, entries |-> entries]
Broken == [ok |-> FALSE, entries |-> <<>>]

\* Mutations: what a slip in the code would turn a definition below into.
\* No specification uses them; each breaks a property of this module.

\* A group whose first member is optional, and left out.
ForcedNever(isGroup, i) == FALSE

\* A group that does not end where the group around it goes on.
GroupEndsAlone(anchor, ends, around) == {anchor} \cup ends

\* A field that is inserted behind the one at its place.
InsertBehind(m, idx, f) ==
  IF idx < 0 \/ idx >= Len(m) THEN Append(m, f)
  ELSE SubSeq(m, 1, idx + 1) \o <<f>> \o SubSeq(m, idx + 2, Len(m))

\* compileEntries: open holds the components that are being flattened.  What is
\* neither a field nor a group nor a component is an error.
Compile(file, list) ==
  LET compile[c \in Seq(RawsUpTo[MaxDepth]) \X SUBSET Nat] ==
        LET raws == c[1]
            open == c[2]
            r == Head(raws)
            flattens == r.kind = "component" /\ r.tag \in DOMAIN file.components \ open
            inner == IF r.kind = "group" THEN compile[<<r.entries, open>>]
                     ELSE IF flattens THEN compile[<<file.components[r.tag], open \cup {r.tag}>>]
                     ELSE IF r.kind = "field" THEN Compiled(<<>>) ELSE Broken
            known == r.kind = "component" \/ r.tag \in file.fields
            flat == [i \in DOMAIN inner.entries |->
                       [inner.entries[i] EXCEPT !.required = @ /\ r.required]]
            others == compile[<<Tail(raws), open>>]
        IN IF raws = <<>> THEN Compiled(<<>>)
           ELSE IF ~(known /\ inner.ok /\ others.ok) THEN Broken
           ELSE Compiled((IF r.kind = "component" THEN flat ELSE <<Entry(r, inner.entries)>>) \o others.entries)
  IN compile[<<list, {}>>]

Demands(entries, tag) == tag \in Tags(entries) /\ EntryFor(entries, tag).required

\* CheckSessionCapabilities
Capable(header, trailer) ==
  (\A i \in DOMAIN HeaderTags : Demands(header, HeaderTags[i])) /\ Demands(trailer, CheckSum)

\* The Spec that LoadSpec makes of a file.
SpecOf(file) ==
  LET header == Compile(file, file.header)
      trailer == Compile(file, file.trailer)
      heartbeat == Compile(file, file.heartbeat)
      body == Compile(file, file.body)
      loads == header.ok /\ trailer.ok /\ heartbeat.ok /\ body.ok /\ Capable(header.entries, trailer.entries)
  IN IF ~loads THEN NoSpec
     ELSE [header |-> header.entries, trailer |-> trailer.entries,
           messages |-> [t \in {Heartbeat, Body} |-> IF t = Body THEN body.entries ELSE heartbeat.entries]]

\* The dictionaries of the repository are so, and LoadSpec does not ask for
\* it: no tag occurs twice where one list of entries can be told from another,
\* a group has members, 8, 9 and 35 come first, the mandatory tags of the
\* header in order, and 10 comes last.  Separate looks at a list of entries
\* and at the tags that nothing around it has.
Separate[c \in Seq(Entries) \X SUBSET Nat] ==
  /\ Tags(c[1]) \subseteq c[2]
  /\ \A i, j \in DOMAIN c[1] : c[1][i].tag = c[1][j].tag => i = j
  /\ \A i \in DOMAIN c[1] : c[1][i].isGroup =>
       /\ c[1][i].tag \notin Mandatory /\ c[1][i].entries # <<>>
       /\ Separate[<<c[1][i].entries, c[2] \ Tags(c[1])>>]

WellFormed(s, known) ==
  /\ s.header \in Seq(Entries) /\ s.trailer \in Seq(Entries)
  /\ \A t \in DOMAIN s.messages :
       /\ s.messages[t] \in Seq(Entries)
       /\ Separate[<<s.header, known \ (Tags(s.messages[t]) \cup Tags(s.trailer))>>]
       /\ Separate[<<s.messages[t], known \ (Tags(s.header) \cup Tags(s.trailer))>>]
       /\ Separate[<<s.trailer, known \ Tags(s.header)>>]
  /\ \A i \in 1..3 : s.header[i].tag = HeaderTags[i]
  /\ \A i, j \in DOMAIN HeaderTags :
       i < j => Position(s.header, HeaderTags[i]) < Position(s.header, HeaderTags[j])
  /\ s.trailer[Len(s.trailer)].tag = CheckSum

ASSUME RoutingAssumption == Routing \in Seq(Nat) /\ CheckSum \notin Elements(Routing)
ASSUME BoundsAssumption == MaxDepth \in Nat /\ MaxEdits \in Nat /\ Counts \subseteq Nat
ASSUME OptionsAssumption == \A opts \in Options : \A t \in DOMAIN opts.repeat : opts.repeat[t] \in Nat
ASSUME SpecsAssumption ==
  \A file \in RawSpecs : file.fields \subseteq Nat /\ (SpecOf(file) # NoSpec => WellFormed(SpecOf(file), file.fields))

\* loadRawSpec, of a file that is XML
LoadRawSpec ==
  /\ phase = "new" /\ phase' = "raw" /\ raw' \in RawSpecs
  /\ UNCHANGED <<spec, msg, edits>>

LoadSpec ==
  /\ phase = "raw" /\ spec' = SpecOf(raw)
  /\ phase' = IF spec' = NoSpec THEN "failed" ELSE "loaded"
  /\ UNCHANGED <<raw, msg, edits>>

-----------------------------------------------------------------------------
\* Messages.  Positions count from 0, as in the code; -1 is no position.

Field(tag, n) == [tag |-> tag, n |-> n, ok |-> TRUE]
FindFrom(m, tag) ==
  IF tag \notin Tags(m) THEN -1
  ELSE (CHOOSE i \in DOMAIN m : m[i].tag = tag /\ \A j \in 1..i - 1 : m[j].tag # tag) - 1
Get(m, tag) == m[FindFrom(m, tag) + 1]

Insert(m, idx, f) ==
  IF idx < 0 \/ idx >= Len(m) THEN Append(m, f)
  ELSE SubSeq(m, 1, idx) \o <<f>> \o SubSeq(m, idx + 1, Len(m))

\* Message.Set, of a tag that the message has
SetIn(m, f) ==
  IF f.tag \in Tags(m) THEN [m EXCEPT ![FindFrom(m, f.tag) + 1] = f] ELSE m

SetOr(m, f, idx) ==
  IF f.tag \in Tags(m) THEN [m EXCEPT ![FindFrom(m, f.tag) + 1] = f] ELSE Insert(m, idx, f)

Finalize(m) ==
  LET sized == SetOr(m, Field(BodyLength, 0), 1) IN SetOr(sized, Field(CheckSum, 0), Len(sized))

\* Salvage: the mandatory tags in order, where the last one was seen or put.
NextPlace(pos, idx) == (IF pos < idx THEN idx ELSE pos) + 1

SalvageTag(tag, done) ==
  LET idx == FindFrom(done.m, tag)
  IN IF idx = -1 THEN [m |-> Insert(done.m, done.pos, Field(tag, 0)), pos |-> done.pos + 1]
     ELSE [m |-> IF tag \in {BeginString, 52} THEN [done.m EXCEPT ![idx + 1] = Field(tag, 0)] ELSE done.m,
           pos |-> NextPlace(done.pos, idx)]

SalvageTags(m) ==
  LET done[i \in 0..Len(HeaderTags)] ==
        IF i = 0 THEN [m |-> m, pos |-> 0] ELSE SalvageTag(HeaderTags[i], done[i - 1])
  IN done

Salvage(m) == Finalize(SalvageTags(m)[Len(HeaderTags)].m)

-----------------------------------------------------------------------------
\* Sample.

\* hasWhitelistedDescendant
Listed(tags) ==
  LET listed[e \in Entries] == e.tag \in tags \/ \E i \in DOMAIN e.entries : listed[e.entries[i]]
  IN listed

Wanted(e, opts) ==
  \/ e.required
  \/ opts.pick = "all"
  \/ opts.pick = "listed" /\ Listed(opts.tags)[e]

\* The first member of a group is there in each of its instances.
Forced(isGroup, i) == isGroup /\ i = 1

\* What a list of entries adds to the message; add is addEntry.
AddTurns(add, entries, isGroup) ==
  LET done[i \in 0..Len(entries)] ==
        IF i = 0 THEN <<>> ELSE done[i - 1] \o add[<<entries[i], Forced(isGroup, i)>>]
  IN done
AddAll(add, entries, isGroup) == AddTurns(add, entries, isGroup)[Len(entries)]

Repeated(instance, n) ==
  LET copies[k \in 0..n] == IF k = 0 THEN <<>> ELSE copies[k - 1] \o instance
  IN copies

AddEntry(add, opts, e, forced) ==
  LET times == IF e.tag \in DOMAIN opts.repeat THEN opts.repeat[e.tag] ELSE 1
      members == Repeated(AddAll(add, e.entries, TRUE), times)[times]
  IN IF ~forced /\ ~Wanted(e, opts) THEN <<>>
     ELSE IF ~e.isGroup THEN <<Field(e.tag, 0)>>
     ELSE <<Field(e.tag, IF members = <<>> THEN 0 ELSE times)>> \o members

Adding(opts) ==
  LET add[c \in Entries \X BOOLEAN] == AddEntry(add, opts, c[1], c[2])
  IN add

\* buildFromEntries
Build(opts, entries) == AddAll(Adding(opts), entries, FALSE)

Sampled(opts) ==
  LET result == Build(opts, spec.header) \o Build(opts, spec.messages[Body]) \o Build(opts, spec.trailer)
  IN Finalize(SetIn(SetIn(result, Field(BeginString, 0)), Field(MsgType, Body)))

Sample(opts) ==
  /\ phase = "loaded" /\ phase' = "sampled"
  /\ msg' = Sampled(opts)
  /\ UNCHANGED <<raw, spec, edits>>

-----------------------------------------------------------------------------
\* What a user, or a counterparty, makes of a message.

Without(m, i) == SubSeq(m, 1, i - 1) \o SubSeq(m, i + 1, Len(m))
Twice(m, i) == SubSeq(m, 1, i) \o SubSeq(m, i, Len(m))
Swapped(m, i) == [m EXCEPT ![i] = m[i + 1], ![i + 1] = m[i]]
Changed(m, i) ==
  CASE m[i].tag = MsgType -> {[m EXCEPT ![i].n = n] : n \in {Heartbeat, Body, Unknown}}
    [] m[i].tag \in raw.groups -> {[m EXCEPT ![i].ok = FALSE]} \cup {[m EXCEPT ![i].n = n] : n \in Counts}
    [] OTHER -> {[m EXCEPT ![i].ok = FALSE]}

Edited(m, i) ==
  {Without(m, i), Twice(m, i)} \cup Changed(m, i) \cup (IF i < Len(m) THEN {Swapped(m, i)} ELSE {})

Edit ==
  /\ phase \in {"sampled", "edited"} /\ edits < MaxEdits /\ edits' = edits + 1
  /\ phase' = "edited"
  /\ \E i \in DOMAIN msg : msg' \in Edited(msg, i) \ {msg}
  /\ UNCHANGED <<raw, spec>>

\* A message is finalized when it is sent, or salvaged by hand.
Finish ==
  /\ phase = "edited"
  /\ \/ phase' = "finalized" /\ msg' = Finalize(msg)
     \/ phase' = "salvaged" /\ msg' = Salvage(msg)
  /\ UNCHANGED <<raw, spec, edits>>

DictNext == LoadRawSpec \/ LoadSpec \/ Edit \/ Finish \/ \E opts \in Options : Sample(opts)
DictSpec == DictInit /\ [][DictNext]_dictVars

-----------------------------------------------------------------------------
\* Validate.

\* What Strict says, and Basic does not.
InStrict(mode, what) == IF mode = "strict" THEN what ELSE {}

\* A context: its entries, the tags that end it, what is left of its lookup,
\* and the field it is at.
Spots(m) == 1..Len(m) + 1
Contexts(m) ==
  [entries : Seq(Entries), isGroup : BOOLEAN, ends : SUBSET Nat, left : SUBSET Entries, at : Spots(m)]
Context(entries, isGroup, ends, at) ==
  [entries |-> entries, isGroup |-> isGroup, ends |-> ends, left |-> Lookup(entries), at |-> at]

Walked(at, obs, failed) == [at |-> at, obs |-> obs, failed |-> failed]
Noted(obs, r) == [r EXCEPT !.obs = obs \cup @]

\* A group ends at its anchor, where an outer context does, and where the one
\* around it goes on.
GroupEnds(anchor, ends, around) == {anchor} \cup ends \cup around

MissingTags(c) == {<<"missing", e.tag>> : e \in {x \in c.left : x.required}}

\* An instance of a group, after the ones that are done; size is that of the
\* first, -1 before it.  An empty one breaks the loop.
Instance(walk, m, mode, c, done) ==
  LET r == walk[[c EXCEPT !.at = done.at]]
      got == r.at - done.at
      first == done.size = -1
      anchored == Position(c.entries, m[c.at].tag) = 1
      other == {k \in 0..got - 1 : m[c.at + k].tag # m[done.at + k].tag}
      said == IF first /\ got = 0 THEN {<<"empty", c.at>>}
              ELSE IF first THEN (IF anchored THEN {} ELSE {<<"delimiter", c.at>>})
              ELSE InStrict(mode, IF got # done.size THEN {<<"size", done.at>>}
                                  ELSE IF other # {} THEN {<<"order", done.at>>} ELSE {})
  IN IF done.failed \/ done.size = 0 THEN done
     ELSE IF r.failed THEN [done EXCEPT !.at = r.at, !.obs = @ \cup r.obs, !.failed = TRUE]
     ELSE [done EXCEPT !.at = r.at, !.obs = @ \cup r.obs \cup said, !.size = IF first THEN got ELSE @]

Instances(walk, m, mode, c, n) ==
  LET done[k \in 0..n] ==
        IF k = 0 THEN [at |-> c.at, obs |-> {}, failed |-> FALSE, size |-> -1]
        ELSE Instance(walk, m, mode, c, done[k - 1])
  IN done

\* The entry of a group, whose count is at the field of c, and what follows.
WalkGroup(walk, m, mode, c, entry, typed) ==
  LET f == m[c.at]
      ends == GroupEnds(m[c.at + 1].tag, c.ends, TagsOf(c.left \ {entry}))
      group == Instances(walk, m, mode, Context(entry.entries, TRUE, ends, c.at + 1), f.n)[f.n]
  IN IF ~f.ok THEN Walked(c.at, typed \cup {<<"count", f.tag>>}, TRUE)
     ELSE IF c.at = Len(m) THEN Walked(c.at + 1, typed \cup {<<"truncated", f.tag>>}, FALSE)
     ELSE IF group.failed THEN Walked(group.at, typed \cup group.obs, TRUE)
     ELSE Noted(typed \cup group.obs, walk[[c EXCEPT !.left = @ \ {entry}, !.at = group.at]])

\* walkSpec; walk is its recursive calls, and the rest of its loop.
WalkSpec(walk, m, mode, c) ==
  LET f == m[c.at]
      entry == CHOOSE e \in c.left : e.tag = f.tag
      expected == f.tag \in TagsOf(c.left)
      known == f.tag \in raw.fields
      stops == (c.isGroup /\ mode = "strict") \/ f.tag \in c.ends
      typed == InStrict(mode, IF f.ok THEN {} ELSE {<<"datatype", f.tag>>})
      stray == InStrict(mode, {<<IF known THEN "unexpected" ELSE "unknown", f.tag>>})
  IN IF c.at > Len(m) \/ (~expected /\ known /\ stops) THEN Walked(c.at, MissingTags(c), FALSE)
     ELSE IF ~expected THEN Noted(stray, walk[[c EXCEPT !.at = @ + 1]])
     ELSE IF entry.isGroup THEN WalkGroup(walk, m, mode, c, entry, typed)
     ELSE Noted(typed, walk[[c EXCEPT !.left = @ \ {entry}, !.at = @ + 1]])

Walk(m, mode) ==
  LET walk[c \in Contexts(m)] == WalkSpec(walk, m, mode, c)
  IN walk

Misplaced(m) ==
  \/ \E i \in DOMAIN HeaderTags :
       LET at == FindFrom(m, HeaderTags[i]) IN at = -1 \/ (i <= 3 /\ at # i - 1)
  \/ FindFrom(m, CheckSum) \in {-1} \cup 0..Len(m) - 2

Validate(m, mode) ==
  IF Misplaced(m) THEN {<<"mandatory", 0>>}
  ELSE IF ~Get(m, BeginString).ok THEN {<<"begin", 0>>}
  ELSE
    LET sums == {<<"sum", t>> : t \in {u \in {BodyLength, CheckSum} : ~Get(m, u).ok}}
        type == Get(m, MsgType).n
        body == spec.messages[type]
        walk == Walk(m, mode)
        header == walk[Context(spec.header, FALSE, Tags(body) \cup Tags(spec.trailer), 1)]
        middle == walk[Context(body, FALSE, Tags(spec.trailer), header.at)]
        trailer == walk[Context(spec.trailer, FALSE, {}, middle.at)]
        over == IF trailer.at # Len(m) + 1 THEN {<<"left over", trailer.at>>} ELSE {}
    IN IF type \notin DOMAIN spec.messages THEN sums \cup {<<"type", 0>>}
       ELSE IF header.failed THEN sums \cup header.obs
       ELSE IF middle.failed THEN sums \cup header.obs \cup middle.obs
       ELSE IF trailer.failed THEN sums \cup header.obs \cup middle.obs \cup trailer.obs
       ELSE sums \cup header.obs \cup middle.obs \cup trailer.obs \cup over

-----------------------------------------------------------------------------
\* The reference: the language of a specification, read off its entries.  A
\* block is a run of fields and groups in any order, each entry at most once
\* and the required ones there; the instances of a group all have the tags of
\* the first, and begin with its first member.  From and to are the places
\* between which a block stands in the message.

\* An instance of a group, size long, whose first one is given.
Alike(block, m, e, first, at, size) ==
  /\ m[at].tag = e.entries[1].tag
  /\ block[<<Elements(e.entries), at, at + size>>]
  /\ \A j \in 0..size - 1 : m[at + j].tag = m[first + j].tag

Group(block, m, e, from, to) ==
  LET n == m[from].n
  IN IF n = 0 THEN to = from + 1
     ELSE \E size \in 1..to - from - 1 :
            /\ to = from + 1 + n * size
            /\ \A k \in 0..n - 1 : Alike(block, m, e, from + 1, from + 1 + k * size, size)

Block(block, m, entries, from, to) ==
  IF from = to THEN \A e \in entries : ~e.required
  ELSE \E e \in entries :
         /\ e.tag = m[from].tag
         /\ \E next \in from + 1..to :
              /\ IF e.isGroup THEN Group(block, m, e, from, next) ELSE next = from + 1
              /\ block[<<entries \ {e}, next, to>>]

Blocks(m) ==
  LET block[s \in (SUBSET Entries) \X Spots(m) \X Spots(m)] == Block(block, m, s[1], s[2], s[3])
  IN block

Conforms(m) ==
  LET type == Get(m, MsgType).n
      block(list, from, to) == Blocks(m)[<<Elements(list), from, to>>]
  IN /\ ~Misplaced(m) /\ \A i \in DOMAIN m : m[i].ok
     /\ type \in DOMAIN spec.messages
     /\ \E p \in Spots(m) : \E q \in p..Len(m) + 1 :
          block(spec.header, 1, p) /\ block(spec.messages[type], p, q) /\ block(spec.trailer, q, Len(m) + 1)

HasMessage == phase \notin {"new", "raw", "loaded", "failed"}

\* Every template Sample can build, whatever is optional, listed or repeated,
\* passes strict validation.
SamplesAreValid == phase = "sampled" => Validate(msg, "strict") = {}

\* Strict validation accepts exactly the language of the specification, at
\* whatever place a message was changed; and Basic accepts all of it.
StrictIsTheLanguage ==
  HasMessage =>
    /\ Validate(msg, "strict") = {} <=> Conforms(msg)
    /\ Conforms(msg) => Validate(msg, "basic") = {}

\* What is left of a message that loses the fields with some tags.
Kept(f, lost) == IF f.tag \in lost THEN <<>> ELSE <<f>>
Losing(m, lost) ==
  LET kept[i \in 0..Len(m)] == IF i = 0 THEN <<>> ELSE kept[i - 1] \o Kept(m[i], lost)
  IN kept[Len(m)]

\* Salvage makes up for any mandatory tags but MsgType that got lost.
SalvageRepairs ==
  phase = "sampled" =>
    \A lost \in SUBSET (({BeginString, BodyLength, CheckSum} \cup Elements(Routing)) \cap Tags(msg)) :
      Validate(Salvage(Losing(msg, lost)), "strict") = {}
=============================================================================
