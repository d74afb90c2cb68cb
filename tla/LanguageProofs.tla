---------------------------- MODULE LanguageProofs ----------------------------
(***************************************************************************)
(* Proofs about the languages of a script line.  Matcher, for expressions  *)
(* of any length, any operands and any messages: the recursive-descent     *)
(* parser accepts the language of the grammar and builds the matcher an    *)
(* expression means.  Macros, for any store and any texts: substitution    *)
(* ends, and refuses what refers back to itself and nothing else.          *)
(***************************************************************************)
EXTENDS Macros, Matcher, FiniteSetTheorems, WellFoundedInduction, TLAPS

\* A non-empty set of naturals has a least element.
LEMMA LeastElement ==
  ASSUME NEW S \in SUBSET Nat, S # {}
  PROVE  \E x \in S : \A y \in S : x <= y
<1> DEFINE R == OpToRel(<, Nat)
<1>1. IsWellFoundedOn(R, Nat)
  BY NatLessThanWellFounded
<1>2. \A x, y \in Nat : y < x => <<y, x>> \in R
  BY DEF OpToRel
<1> HIDE DEF R
<1>3. PICK x \in S : \A y \in S : ~(<<y, x>> \in R)
  BY <1>1, WFMin
<1>4. \A y \in S : ~(y < x)
  BY <1>2, <1>3
<1> QED BY <1>4

\* What holds of 0, and of each number after one it holds of, holds of all.
LEMMA Induction ==
  ASSUME NEW S, 0 \in S, \A n \in Nat : n \in S => n + 1 \in S
  PROVE  \A n \in Nat : n \in S
<1> DEFINE T == {n \in Nat : n \notin S}
<1> SUFFICES ASSUME T # {} PROVE FALSE
  OBVIOUS
<1>1. PICK t \in T : \A n \in T : t <= n
  <2>1. T \in SUBSET Nat
    OBVIOUS
  <2> HIDE DEF T
  <2> QED BY <2>1, LeastElement
<1>2. t # 0 /\ t - 1 \in Nat /\ t - 1 \notin T
  BY <1>1
<1>3. t - 1 \in S /\ (t - 1) + 1 = t
  BY <1>2
<1> QED BY <1>1, <1>2, <1>3

-----------------------------------------------------------------------------
(* Matcher. *)

Tokens == Operators \cup Operands \cup Malformed
TokensOK == tokens \in Seq(Tokens)

-----------------------------------------------------------------------------
(* The parser is what its rules say: the recursion is well-founded, since a *)
(* rule calls others only further on.                                       *)

Outcomes == [ok : BOOLEAN, node : SUBSET Messages, pos : Positions]

\* A rule reads something; a loop may have nothing more to read.
Reads(r, pos) == r \in Outcomes /\ (r.ok => r.pos > pos)
Goes(r, pos) == r \in Outcomes /\ (r.ok => r.pos >= pos)

Typed(f, c) == IF c[1] = "factor" THEN Reads(f[c], c[3]) ELSE Goes(f[c], c[3])
TypedBeyond(f, n) == \A c \in Calls : c[3] > n => Typed(f, c)
AgreeBeyond(f, g, n) == \A c \in Calls : c[3] > n => f[c] = g[c]

LEMMA Places == ASSUME TokensOK PROVE Len(tokens) \in Nat /\ Positions \subseteq Nat
BY DEF TokensOK, Positions

LEMMA OutcomeTypes ==
  ASSUME TokensOK
  PROVE  /\ Error \in Outcomes /\ ~Error.ok
         /\ \A x \in SUBSET Messages, p \in Positions :
              /\ Read(x, p) \in Outcomes /\ Read(x, p).ok
              /\ Read(x, p).node = x /\ Read(x, p).pos = p
BY Places DEF Error, Read, Outcomes, Positions

LEMMA Further ==
  ASSUME TokensOK, NEW from \in Nat, NEW r, Reads(r, from), r.ok
  PROVE  /\ r.node \in SUBSET Messages /\ r.pos \in Positions /\ r.pos \in Nat /\ r.pos > from
         /\ \A to \in Nat : from > to => r.pos > to
<1>1. r.node \in SUBSET Messages /\ r.pos \in Positions /\ r.pos > from
  BY DEF Reads, Outcomes
<1>2. r.pos \in Nat
  BY <1>1, Places
<1> QED BY <1>1, <1>2

LEMMA GoesBack ==
  ASSUME TokensOK, NEW from \in Nat, NEW to \in Nat, from > to, NEW r, Goes(r, from)
  PROVE  Reads(r, to) /\ Goes(r, to)
<1>1. r \in Outcomes /\ (r.ok => r.pos >= from /\ r.pos \in Nat)
  BY Places DEF Goes, Outcomes
<1>2. r.ok => r.pos > to
  BY <1>1
<1> QED BY <1>1, <1>2 DEF Reads, Goes

LEMMA FactorAgrees ==
  ASSUME TokensOK, NEW f, NEW g, NEW n \in Nat, TypedBeyond(f, n), AgreeBeyond(f, g, n),
         NEW pos \in Positions, pos > n
  PROVE  Factor(f, pos) = Factor(g, pos) /\ Reads(Factor(f, pos), pos)
<1>1. <<"factor", {}, pos>> \in Calls
  BY DEF Calls
<1> QED BY <1>1 DEF TypedBeyond, AgreeBeyond, Typed, Factor

LEMMA TermAgrees ==
  ASSUME TokensOK, NEW f, NEW g, NEW n \in Nat, TypedBeyond(f, n), AgreeBeyond(f, g, n),
         NEW pos \in Positions, pos > n
  PROVE  Term(f, pos) = Term(g, pos) /\ Reads(Term(f, pos), pos)
<1> DEFINE left == Factor(f, pos)
           c == <<"term", left.node, left.pos>>
<1>1. left = Factor(g, pos) /\ Reads(left, pos)
  BY FactorAgrees
<1>2. CASE left.ok
  <2>1. left.node \in SUBSET Messages /\ left.pos \in Positions /\ left.pos > pos
    BY <1>1, <1>2 DEF Reads, Outcomes
  <2>2. c \in Calls /\ c[1] = "term" /\ c[3] = left.pos
    BY <2>1 DEF Calls
  <2>3. c[3] > n
    BY <2>1, <2>2, Places
  <2>4. f[c] = g[c] /\ Goes(f[c], left.pos)
    BY <2>2, <2>3 DEF TypedBeyond, AgreeBeyond, Typed
  <2>5. Reads(f[c], pos)
    BY <2>1, <2>4, Places DEF Reads, Goes, Outcomes
  <2> QED BY <1>1, <1>2, <2>4, <2>5 DEF Term
<1>3. CASE ~left.ok
  BY <1>1, <1>3, OutcomeTypes DEF Term, Reads
<1> QED BY <1>2, <1>3

LEMMA ExpressionAgrees ==
  ASSUME TokensOK, NEW f, NEW g, NEW n \in Nat, TypedBeyond(f, n), AgreeBeyond(f, g, n),
         NEW pos \in Positions, pos > n
  PROVE  Expression(f, pos) = Expression(g, pos) /\ Reads(Expression(f, pos), pos)
<1> DEFINE left == Term(f, pos)
           c == <<"expression", left.node, left.pos>>
<1>1. left = Term(g, pos) /\ Reads(left, pos)
  BY TermAgrees
<1>2. CASE left.ok
  <2>1. left.node \in SUBSET Messages /\ left.pos \in Positions /\ left.pos > pos
    BY <1>1, <1>2 DEF Reads, Outcomes
  <2>2. c \in Calls /\ c[1] = "expression" /\ c[3] = left.pos
    BY <2>1 DEF Calls
  <2>3. c[3] > n
    BY <2>1, <2>2, Places
  <2>4. f[c] = g[c] /\ Goes(f[c], left.pos)
    BY <2>2, <2>3 DEF TypedBeyond, AgreeBeyond, Typed
  <2>5. Reads(f[c], pos)
    BY <2>1, <2>4, Places DEF Reads, Goes, Outcomes
  <2> QED BY <1>1, <1>2, <2>4, <2>5 DEF Expression
<1>3. CASE ~left.ok
  BY <1>1, <1>3, OutcomeTypes DEF Expression, Reads
<1> QED BY <1>2, <1>3

LEMMA PeekPlace ==
  ASSUME TokensOK, NEW pos \in Positions, NEW t, Peek(pos, t)
  PROVE  pos + 1 \in Positions /\ pos + 1 > pos /\ pos \in 1..Len(tokens)
BY Places DEF Peek, Positions

LEMMA FactorRuleAgrees ==
  ASSUME TokensOK, NEW pos \in Positions, NEW f, NEW g, TypedBeyond(f, pos), AgreeBeyond(f, g, pos)
  PROVE  ParseFactor(f, pos) = ParseFactor(g, pos) /\ Reads(ParseFactor(f, pos), pos)
<1> DEFINE operand == Factor(f, pos + 1)
           expr == Expression(f, pos + 1)
<1>1. pos \in Nat
  BY Places
<1>2. ASSUME pos + 1 \in Positions
      PROVE  /\ operand = Factor(g, pos + 1) /\ Reads(operand, pos + 1)
             /\ expr = Expression(g, pos + 1) /\ Reads(expr, pos + 1)
  BY <1>1, <1>2, FactorAgrees, ExpressionAgrees
<1>3. CASE Peek(pos, "!")
  <2>1. pos + 1 \in Positions
    BY <1>3, PeekPlace
  <2>2. operand = Factor(g, pos + 1) /\ Reads(operand, pos + 1)
    BY <1>2, <2>1
  <2>3. CASE operand.ok
    <3>1. operand.pos \in Positions /\ operand.pos > pos /\ Messages \ operand.node \in SUBSET Messages
      BY <1>1, <2>1, <2>2, <2>3, Further
    <3>2. Reads(Read(Messages \ operand.node, operand.pos), pos)
      BY <3>1, OutcomeTypes DEF Reads
    <3> QED BY <1>3, <2>2, <2>3, <3>2 DEF ParseFactor
  <2>4. CASE ~operand.ok
    BY <1>3, <2>2, <2>4, OutcomeTypes DEF ParseFactor, Reads
  <2> QED BY <2>3, <2>4
<1>4. CASE ~Peek(pos, "!") /\ Peek(pos, "(")
  <2>1. pos + 1 \in Positions
    BY <1>4, PeekPlace
  <2>2. expr = Expression(g, pos + 1) /\ Reads(expr, pos + 1)
    BY <1>2, <2>1
  <2>3. CASE expr.ok /\ Peek(expr.pos, ")")
    <3>1. expr.pos \in Positions /\ expr.pos > pos + 1 /\ expr.node \in SUBSET Messages
      BY <2>2, <2>3 DEF Reads, Outcomes
    <3>2. expr.pos + 1 \in Positions /\ expr.pos + 1 > pos
      BY <1>1, <2>3, <3>1, PeekPlace, Places
    <3>3. Reads(Read(expr.node, expr.pos + 1), pos)
      BY <3>1, <3>2, OutcomeTypes DEF Reads
    <3> QED BY <1>4, <2>2, <2>3, <3>3 DEF ParseFactor
  <2>4. CASE ~(expr.ok /\ Peek(expr.pos, ")"))
    BY <1>4, <2>2, <2>4, OutcomeTypes DEF ParseFactor, Reads
  <2> QED BY <2>3, <2>4
<1>5. CASE ~Peek(pos, "!") /\ ~Peek(pos, "(")
  <2>1. CASE pos \in 1..Len(tokens) /\ tokens[pos] \in Operands
    <3>1. pos + 1 \in Positions /\ pos + 1 > pos /\ Having[tokens[pos]] \in SUBSET Messages
      BY <2>1, Places, HavingAssumption DEF Positions
    <3> QED BY <1>5, <2>1, <3>1, OutcomeTypes DEF ParseFactor, Reads
  <2>2. CASE ~(pos \in 1..Len(tokens) /\ tokens[pos] \in Operands)
    BY <1>5, <2>2, OutcomeTypes DEF ParseFactor, Reads
  <2> QED BY <2>1, <2>2
<1> QED BY <1>3, <1>4, <1>5

LEMMA TermLoopAgrees ==
  ASSUME TokensOK, NEW pos \in Positions, NEW left \in SUBSET Messages,
         NEW f, NEW g, TypedBeyond(f, pos), AgreeBeyond(f, g, pos)
  PROVE  TermLoop(f, left, pos) = TermLoop(g, left, pos) /\ Goes(TermLoop(f, left, pos), pos)
<1> DEFINE right == Factor(f, pos + 1)
           c == <<"term", left \cap right.node, right.pos>>
<1>1. pos \in Nat
  BY Places
<1>2. CASE Peek(pos, "&")
  <2>1. pos + 1 \in Positions /\ pos + 1 > pos
    BY <1>2, PeekPlace
  <2>2. right = Factor(g, pos + 1) /\ Reads(right, pos + 1)
    BY <1>1, <2>1, FactorAgrees
  <2>3. CASE right.ok
    <3>1. /\ right.node \in SUBSET Messages
          /\ right.pos \in Positions /\ right.pos \in Nat /\ right.pos > pos
      <4> HIDE DEF right
      <4>1. pos + 1 \in Nat
        BY <1>1
      <4> QED BY <1>1, <2>1, <2>2, <2>3, <4>1, Further
    <3>2. c \in Calls /\ c[1] = "term" /\ c[3] = right.pos
      BY <3>1 DEF Calls
    <3>3. f[c] = g[c] /\ Goes(f[c], right.pos)
      BY <3>1, <3>2 DEF TypedBeyond, AgreeBeyond, Typed
    <3>4. Goes(f[c], pos)
      BY <1>1, <3>1, <3>3, GoesBack
    <3> QED BY <1>2, <2>2, <2>3, <3>3, <3>4 DEF TermLoop
  <2>4. CASE ~right.ok
    BY <1>2, <2>2, <2>4, OutcomeTypes DEF TermLoop, Goes
  <2> QED BY <2>3, <2>4
<1>3. CASE ~Peek(pos, "&")
  BY <1>1, <1>3, OutcomeTypes DEF TermLoop, Goes
<1> QED BY <1>2, <1>3

LEMMA ExpressionLoopAgrees ==
  ASSUME TokensOK, NEW pos \in Positions, NEW left \in SUBSET Messages,
         NEW f, NEW g, TypedBeyond(f, pos), AgreeBeyond(f, g, pos)
  PROVE  /\ ExpressionLoop(f, left, pos) = ExpressionLoop(g, left, pos)
         /\ Goes(ExpressionLoop(f, left, pos), pos)
<1> DEFINE right == Term(f, pos + 1)
           c == <<"expression", left \cup right.node, right.pos>>
<1>1. pos \in Nat
  BY Places
<1>2. CASE Peek(pos, "|")
  <2>1. pos + 1 \in Positions /\ pos + 1 > pos
    BY <1>2, PeekPlace
  <2>2. right = Term(g, pos + 1) /\ Reads(right, pos + 1)
    BY <1>1, <2>1, TermAgrees
  <2>3. CASE right.ok
    <3>1. /\ right.node \in SUBSET Messages
          /\ right.pos \in Positions /\ right.pos \in Nat /\ right.pos > pos
      <4> HIDE DEF right
      <4>1. pos + 1 \in Nat
        BY <1>1
      <4> QED BY <1>1, <2>1, <2>2, <2>3, <4>1, Further
    <3>2. c \in Calls /\ c[1] = "expression" /\ c[3] = right.pos
      BY <3>1 DEF Calls
    <3>3. f[c] = g[c] /\ Goes(f[c], right.pos)
      BY <3>1, <3>2 DEF TypedBeyond, AgreeBeyond, Typed
    <3>4. Goes(f[c], pos)
      BY <1>1, <3>1, <3>3, GoesBack
    <3> QED BY <1>2, <2>2, <2>3, <3>3, <3>4 DEF ExpressionLoop
  <2>4. CASE ~right.ok
    BY <1>2, <2>2, <2>4, OutcomeTypes DEF ExpressionLoop, Goes
  <2> QED BY <2>3, <2>4
<1>3. CASE ~Peek(pos, "|")
  BY <1>1, <1>3, OutcomeTypes DEF ExpressionLoop, Goes
<1> QED BY <1>2, <1>3

\* What a rule returns for a call depends on the calls further on alone.
RuleKept(f, g, c) ==
  Rule(f, c) = Rule(g, c) /\ IF c[1] = "factor" THEN Reads(Rule(f, c), c[3]) ELSE Goes(Rule(f, c), c[3])

LEMMA RuleAgrees ==
  ASSUME TokensOK, NEW c \in Calls, NEW f, NEW g, TypedBeyond(f, c[3]), AgreeBeyond(f, g, c[3])
  PROVE  RuleKept(f, g, c)
<1>1. c[1] \in {"factor", "term", "expression"} /\ c[2] \in SUBSET Messages /\ c[3] \in Positions
  BY DEF Calls
<1>2. CASE c[1] = "factor"
  BY <1>1, <1>2, FactorRuleAgrees DEF Rule, RuleKept
<1>3. CASE c[1] = "term"
  BY <1>1, <1>3, TermLoopAgrees DEF Rule, RuleKept
<1>4. CASE c[1] = "expression"
  BY <1>1, <1>4, ExpressionLoopAgrees DEF Rule, RuleKept
<1> QED BY <1>1, <1>2, <1>3, <1>4

\* What the rules say of the calls beyond a position.
ParsesBeyond(f, n) == f = [c \in Calls |-> IF c[3] > n THEN Rule(f, c) ELSE Error]

LEMMA ParsesFurther ==
  ASSUME TokensOK, NEW t \in Positions, NEW f, ParsesBeyond(f, t), TypedBeyond(f, t)
  PROVE  \E g : ParsesBeyond(g, t - 1) /\ TypedBeyond(g, t - 1)
<1> DEFINE g == [c \in Calls |-> IF c[3] = t THEN Rule(f, c) ELSE f[c]]
<1>1. t \in Nat /\ t - 1 \in Nat /\ \A c \in Calls : c[3] \in Nat
  BY Places DEF Positions, Calls
<1>2. \A c \in Calls : c[3] > t - 1 <=> c[3] = t \/ c[3] > t
  BY <1>1
<1>3. AgreeBeyond(f, g, t)
  <2>1. \A c \in Calls : c[3] > t => c[3] # t
    BY <1>1
  <2> QED BY <2>1 DEF AgreeBeyond
<1>4. ASSUME NEW c \in Calls, c[3] > t - 1
      PROVE  RuleKept(f, g, c)
  <2>1. \A n \in Nat : n > c[3] => n > t
    BY <1>1, <1>2, <1>4
  <2>2. TypedBeyond(f, c[3]) /\ AgreeBeyond(f, g, c[3])
    BY <1>1, <1>3, <2>1 DEF TypedBeyond, AgreeBeyond
  <2> HIDE DEF g
  <2> QED BY <2>2, RuleAgrees
<1>5. ASSUME NEW c \in Calls
      PROVE  g[c] = IF c[3] > t - 1 THEN Rule(g, c) ELSE Error
  <2>1. c[3] > t - 1 => g[c] = Rule(f, c)
    BY <1>1, <1>2 DEF ParsesBeyond
  <2>2. ~(c[3] > t - 1) => g[c] = Error
    BY <1>1, <1>2 DEF ParsesBeyond
  <2> HIDE DEF g
  <2> QED BY <1>4, <2>1, <2>2 DEF RuleKept
<1>6. ASSUME NEW c \in Calls, c[3] > t - 1
      PROVE  Typed(g, c)
  <2>1. g[c] = Rule(g, c) /\ Rule(f, c) = Rule(g, c)
    BY <1>4, <1>5, <1>6 DEF RuleKept
  <2> HIDE DEF g
  <2> QED BY <1>4, <1>6, <2>1 DEF RuleKept, Typed
<1>7. g = [c \in Calls |-> g[c]]
  OBVIOUS
<1> HIDE DEF g
<1>8. ParsesBeyond(g, t - 1)
  BY <1>5, <1>7 DEF ParsesBeyond
<1> QED BY <1>6, <1>8 DEF TypedBeyond

\* Parse satisfies its equation, and a rule that succeeds has read on.
LEMMA ParseIs ==
  ASSUME TokensOK
  PROVE  Parse = [c \in Calls |-> Rule(Parse, c)] /\ TypedBeyond(Parse, 0)
<1> DEFINE T == {n \in 0..(Len(tokens) + 1) : \E f : ParsesBeyond(f, n) /\ TypedBeyond(f, n)}
<1>1. Len(tokens) + 1 \in T
  <2>1. \A c \in Calls : ~(c[3] > Len(tokens) + 1)
    BY Places DEF Calls, Positions
  <2>2. PICK f : f = [c \in Calls |-> Error]
    OBVIOUS
  <2>3. ParsesBeyond(f, Len(tokens) + 1) /\ TypedBeyond(f, Len(tokens) + 1)
    BY <2>1, <2>2 DEF ParsesBeyond, TypedBeyond
  <2> QED BY <2>3, Places
<1>2. PICK t \in T : \A n \in T : t <= n
  <2>1. T \in SUBSET Nat /\ T # {}
    BY <1>1
  <2> HIDE DEF T
  <2> QED BY <2>1, LeastElement
<1>3. PICK f : ParsesBeyond(f, t) /\ TypedBeyond(f, t)
  BY <1>2
<1>4. ASSUME t # 0 PROVE FALSE
  <2>1. t \in Positions /\ t - 1 \in 0..(Len(tokens) + 1) /\ ~(t <= t - 1)
    BY <1>2, <1>4, Places DEF Positions
  <2>2. t - 1 \in T
    BY <1>3, <2>1, ParsesFurther
  <2> QED BY <1>2, <2>1, <2>2
<1>5. f = [c \in Calls |-> Rule(f, c)] /\ TypedBeyond(f, 0)
  <2>1. \A c \in Calls : c[3] > 0
    BY Places DEF Calls, Positions
  <2> QED BY <1>3, <1>4, <2>1 DEF ParsesBeyond
<1>6. Parse = [c \in Calls |-> Rule(Parse, c)]
  BY <1>5 DEF Parse
<1>7. TypedBeyond(Parse, Len(tokens) + 1)
  <2>1. \A c \in Calls : ~(c[3] > Len(tokens) + 1)
    BY Places DEF Calls, Positions
  <2> QED BY <2>1 DEF TypedBeyond
<1> DEFINE U == {n \in 0..(Len(tokens) + 1) : TypedBeyond(Parse, n)}
<1>8. PICK u \in U : \A n \in U : u <= n
  <2>1. U \in SUBSET Nat /\ U # {}
    BY <1>7, Places
  <2> HIDE DEF U
  <2> QED BY <2>1, LeastElement
<1>9. ASSUME u # 0 PROVE FALSE
  <2>1. u \in Nat /\ u - 1 \in 0..(Len(tokens) + 1) /\ ~(u <= u - 1)
    BY <1>8, <1>9, Places
  <2>2. ASSUME NEW c \in Calls, c[3] > u - 1 PROVE Typed(Parse, c)
    <3>1. c[3] \in Nat /\ c[3] >= u
      BY <2>1, <2>2, Places DEF Calls
    <3>2. \A d \in Calls : d[3] > c[3] => d[3] > u
      BY <2>1, <3>1, Places DEF Calls
    <3>3. TypedBeyond(Parse, c[3]) /\ AgreeBeyond(Parse, Parse, c[3])
      BY <1>8, <3>2 DEF TypedBeyond, AgreeBeyond
    <3>4. RuleKept(Parse, Parse, c)
      BY <3>3, RuleAgrees
    <3> HIDE DEF U
    <3> QED BY <1>6, <3>4 DEF RuleKept, Typed
  <2>3. u - 1 \in U
    BY <2>1, <2>2 DEF TypedBeyond
  <2> QED BY <1>8, <2>1, <2>3
<1> QED BY <1>6, <1>8, <1>9

-----------------------------------------------------------------------------
(* The grammar means what its rules say: what a span of tokens means by a   *)
(* rule depends on shorter spans, and on the rule below for the same span.  *)

Rank(kind) == IF kind = "Not" THEN 0 ELSE IF kind = "And" THEN 1 ELSE 2
Weight(s) == 3 * ((Len(tokens) + 1 + s[3]) - s[2]) + Rank(s[1])
AgreeBelow(f, g, n) == \A s \in Spans : Weight(s) < n => f[s] = g[s]

LEMMA SpanWeight ==
  ASSUME TokensOK, NEW kind \in {"Not", "And", "Or"}, NEW i \in Positions, NEW j \in Positions
  PROVE  /\ <<kind, i, j>> \in Spans
         /\ Weight(<<kind, i, j>>) = 3 * ((Len(tokens) + 1 + j) - i) + Rank(kind)
         /\ Weight(<<kind, i, j>>) \in Nat /\ Rank(kind) \in 0..2
         /\ i \in Nat /\ j \in Nat /\ i <= Len(tokens) + 1 /\ Len(tokens) \in Nat
<1>1. /\ i \in Nat /\ j \in Nat /\ i <= Len(tokens) + 1 /\ Len(tokens) \in Nat
  BY Places DEF Positions
<1>2. <<kind, i, j>> \in Spans
  BY DEF Spans
<1>3. Rank(kind) \in 0..2
  BY DEF Rank
<1>4. Weight(<<kind, i, j>>) = 3 * ((Len(tokens) + 1 + j) - i) + Rank(kind)
  BY DEF Weight
<1>5. 3 * ((Len(tokens) + 1 + j) - i) + Rank(kind) \in Nat
  BY <1>1, <1>3
<1> QED BY <1>1, <1>2, <1>3, <1>4, <1>5

\* A span inside another weighs less, whatever the rules; the same span does
\* by the rule below.
LEMMA WeighsLess ==
  ASSUME TokensOK, NEW a \in {"Not", "And", "Or"}, NEW b \in {"Not", "And", "Or"},
         NEW i \in Positions, NEW j \in Positions, NEW k \in Positions, NEW l \in Positions
  PROVE  /\ l - k < j - i => Weight(<<b, k, l>>) < Weight(<<a, i, j>>)
         /\ Rank(b) < Rank(a) => Weight(<<b, i, j>>) < Weight(<<a, i, j>>)
<1>1. /\ i \in Nat /\ j \in Nat /\ k \in Nat /\ l \in Nat /\ Len(tokens) \in Nat
      /\ Rank(a) \in 0..2 /\ Rank(b) \in 0..2
  BY SpanWeight
<1>2. /\ Weight(<<a, i, j>>) = 3 * ((Len(tokens) + 1 + j) - i) + Rank(a)
      /\ Weight(<<b, k, l>>) = 3 * ((Len(tokens) + 1 + l) - k) + Rank(b)
      /\ Weight(<<b, i, j>>) = 3 * ((Len(tokens) + 1 + j) - i) + Rank(b)
  BY SpanWeight
<1> QED BY <1>1, <1>2

LEMMA AtPlace ==
  ASSUME TokensOK, NEW t, NEW i \in Positions, NEW j \in Positions, NEW k \in At(t, i, j)
  PROVE  /\ k \in Positions /\ k + 1 \in Positions /\ k \in Nat
         /\ i <= k /\ k < j /\ k \in 1..Len(tokens) /\ tokens[k] = t /\ k - i < j - i /\ j - (k + 1) < j - i
BY Places DEF At, Positions

\* The means of the spans that a rule looks at.
LEMMA MeaningAgrees ==
  ASSUME TokensOK, NEW s \in Spans, NEW f, NEW g, AgreeBelow(f, g, Weight(s))
  PROVE  Meaning(f, s) = Meaning(g, s)
<1> DEFINE i == s[2]
           j == s[3]
<1>1. /\ s[1] \in {"Not", "And", "Or"} /\ i \in Positions /\ j \in Positions
      /\ s = <<s[1], i, j>>
  BY DEF Spans
<1>2. ASSUME NEW b \in {"Not", "And", "Or"}, NEW k \in Positions, NEW l \in Positions, l - k < j - i
      PROVE  f[<<b, k, l>>] = g[<<b, k, l>>]
  <2>1. Weight(<<b, k, l>>) < Weight(<<s[1], i, j>>)
    BY <1>1, <1>2, WeighsLess
  <2>2. Weight(<<b, k, l>>) < Weight(s) /\ <<b, k, l>> \in Spans
    BY <1>1, <2>1, SpanWeight
  <2> QED BY <2>2 DEF AgreeBelow
<1>3. ASSUME NEW b \in {"Not", "And", "Or"}, Rank(b) < Rank(s[1])
      PROVE  f[<<b, i, j>>] = g[<<b, i, j>>]
  <2>1. Weight(<<b, i, j>>) < Weight(s) /\ <<b, i, j>> \in Spans
    BY <1>1, <1>3, WeighsLess, SpanWeight
  <2> QED BY <2>1 DEF AgreeBelow
<1>4. i \in Nat /\ j \in Nat
  BY <1>1, Places
<1>5. CASE s[1] = "Not"
  <2>1. CASE j > i + 1
    <3>1. i + 1 \in Positions /\ j - 1 \in Positions /\ j - (i + 1) < j - i /\ (j - 1) - (i + 1) < j - i
      BY <1>1, <1>4, <2>1, Places DEF Positions
    <3>2. f[<<"Not", i + 1, j>>] = g[<<"Not", i + 1, j>>] /\ f[<<"Or", i + 1, j - 1>>] = g[<<"Or", i + 1, j - 1>>]
      BY <1>1, <1>2, <3>1
    <3> QED BY <1>5, <3>2 DEF Meaning, NotMeans
  <2>2. CASE ~(j > i + 1)
    BY <1>5, <2>2 DEF Meaning, NotMeans
  <2> QED BY <2>1, <2>2
<1>6. CASE s[1] = "And"
  <2>1. f[<<"Not", i, j>>] = g[<<"Not", i, j>>]
    BY <1>3, <1>6 DEF Rank
  <2>2. ASSUME NEW k \in At("&", i, j)
        PROVE  /\ f[<<"And", i, k>>] = g[<<"And", i, k>>]
               /\ f[<<"Not", k + 1, j>>] = g[<<"Not", k + 1, j>>]
    BY <1>1, <1>2, AtPlace
  <2> DEFINE F(k) == {x \cap y : x \in f[<<"And", i, k>>], y \in f[<<"Not", k + 1, j>>]}
             G(k) == {x \cap y : x \in g[<<"And", i, k>>], y \in g[<<"Not", k + 1, j>>]}
  <2>3. \A k \in At("&", i, j) : F(k) = G(k)
    BY <2>2
  <2>4. /\ AndMeans(f, i, j) = f[<<"Not", i, j>>] \cup UNION {F(k) : k \in At("&", i, j)}
        /\ AndMeans(g, i, j) = g[<<"Not", i, j>>] \cup UNION {G(k) : k \in At("&", i, j)}
    BY DEF AndMeans
  <2> HIDE DEF F, G
  <2>5. AndMeans(f, i, j) = AndMeans(g, i, j)
    BY <2>1, <2>3, <2>4
  <2> QED BY <1>6, <2>5 DEF Meaning
<1>7. CASE s[1] = "Or"
  <2>1. f[<<"And", i, j>>] = g[<<"And", i, j>>]
    BY <1>3, <1>7 DEF Rank
  <2>2. ASSUME NEW k \in At("|", i, j)
        PROVE  /\ f[<<"Or", i, k>>] = g[<<"Or", i, k>>]
               /\ f[<<"And", k + 1, j>>] = g[<<"And", k + 1, j>>]
    BY <1>1, <1>2, AtPlace
  <2> DEFINE F(k) == {x \cup y : x \in f[<<"Or", i, k>>], y \in f[<<"And", k + 1, j>>]}
             G(k) == {x \cup y : x \in g[<<"Or", i, k>>], y \in g[<<"And", k + 1, j>>]}
  <2>3. \A k \in At("|", i, j) : F(k) = G(k)
    BY <2>2
  <2>4. /\ OrMeans(f, i, j) = f[<<"And", i, j>>] \cup UNION {F(k) : k \in At("|", i, j)}
        /\ OrMeans(g, i, j) = g[<<"And", i, j>>] \cup UNION {G(k) : k \in At("|", i, j)}
    BY DEF OrMeans
  <2> HIDE DEF F, G
  <2>5. OrMeans(f, i, j) = OrMeans(g, i, j)
    BY <2>1, <2>3, <2>4
  <2> QED BY <1>7, <2>5 DEF Meaning
<1> QED BY <1>1, <1>5, <1>6, <1>7

\* What the rules say of the spans that weigh less.
MeansBelow(f, n) == f = [s \in Spans |-> IF Weight(s) < n THEN Meaning(f, s) ELSE {}]

LEMMA Weighs ==
  ASSUME TokensOK, NEW s \in Spans
  PROVE  Weight(s) \in Nat /\ Weight(s) < 6 * (Len(tokens) + 1) + 3
<1>1. s[1] \in {"Not", "And", "Or"} /\ s[2] \in Positions /\ s[3] \in Positions /\ s = <<s[1], s[2], s[3]>>
  BY DEF Spans
<1>2. /\ Weight(s) = 3 * ((Len(tokens) + 1 + s[3]) - s[2]) + Rank(s[1])
      /\ Weight(s) \in Nat /\ Rank(s[1]) \in 0..2 /\ Len(tokens) \in Nat
      /\ s[2] \in Nat /\ s[3] \in Nat
  BY <1>1, SpanWeight
<1>3. s[2] >= 1 /\ s[3] <= Len(tokens) + 1
  BY <1>1, Places DEF Positions
<1> QED BY <1>2, <1>3

LEMMA MeansMore ==
  ASSUME TokensOK, NEW n \in Nat, NEW f, MeansBelow(f, n)
  PROVE  \E g : MeansBelow(g, n + 1)
<1> DEFINE g == [s \in Spans |-> IF Weight(s) = n THEN Meaning(f, s) ELSE f[s]]
<1>1. \A s \in Spans : Weight(s) \in Nat
  BY Weighs
<1>2. \A s \in Spans : Weight(s) < n + 1 <=> Weight(s) = n \/ Weight(s) < n
  BY <1>1
<1>3. \A s \in Spans : Weight(s) < n => f[s] = g[s]
  BY <1>1
<1>4. ASSUME NEW s \in Spans, Weight(s) < n + 1
      PROVE  Meaning(f, s) = Meaning(g, s)
  <2>1. \A m \in Nat : m < Weight(s) => m < n
    BY <1>1, <1>4
  <2>2. AgreeBelow(f, g, Weight(s))
    BY <1>1, <1>3, <2>1 DEF AgreeBelow
  <2> HIDE DEF g
  <2> QED BY <2>2, MeaningAgrees
<1>5. ASSUME NEW s \in Spans
      PROVE  g[s] = IF Weight(s) < n + 1 THEN Meaning(g, s) ELSE {}
  <2>1. Weight(s) < n + 1 => g[s] = Meaning(f, s)
    BY <1>1, <1>2 DEF MeansBelow
  <2>2. ~(Weight(s) < n + 1) => g[s] = {}
    BY <1>1, <1>2 DEF MeansBelow
  <2> HIDE DEF g
  <2> QED BY <1>4, <2>1, <2>2
<1>6. g = [s \in Spans |-> g[s]]
  OBVIOUS
<1> HIDE DEF g
<1> QED BY <1>5, <1>6 DEF MeansBelow

\* Means satisfies its equation.
LEMMA MeansIs ==
  ASSUME TokensOK
  PROVE  Means = [s \in Spans |-> Meaning(Means, s)]
<1> DEFINE B == 6 * (Len(tokens) + 1) + 3
           T == {n \in 0..B : \E f : MeansBelow(f, B - n)}
<1>0. B \in Nat
  BY Places
<1> HIDE DEF B
<1>1. B \in T
  <2>1. \A s \in Spans : ~(Weight(s) < 0)
    BY Weighs
  <2>2. PICK f : f = [s \in Spans |-> {}]
    OBVIOUS
  <2>3. MeansBelow(f, 0) /\ B - B = 0 /\ B \in 0..B
    BY <1>0, <2>1, <2>2 DEF MeansBelow
  <2> QED BY <2>3
<1>2. PICK t \in T : \A n \in T : t <= n
  <2>1. T \in SUBSET Nat /\ T # {}
    BY <1>1
  <2> HIDE DEF T
  <2> QED BY <2>1, LeastElement
<1>3. PICK f : MeansBelow(f, B - t)
  BY <1>2
<1>4. ASSUME t # 0 PROVE FALSE
  <2>1. /\ t \in Nat /\ t - 1 \in 0..B /\ ~(t <= t - 1) /\ B - t \in Nat
        /\ (B - t) + 1 = B - (t - 1)
    BY <1>0, <1>2, <1>4
  <2>2. \E g : MeansBelow(g, (B - t) + 1)
    BY <1>3, <2>1, MeansMore
  <2>3. t - 1 \in T
    BY <2>1, <2>2
  <2> QED BY <1>2, <2>1, <2>3
<1>5. MeansBelow(f, B)
  BY <1>0, <1>3, <1>4
<1>6. f = [s \in Spans |-> Meaning(f, s)]
  BY <1>5, Weighs DEF MeansBelow, B
<1> QED BY <1>6 DEF Means

-----------------------------------------------------------------------------
(* The two levels that are lists, of factors and of terms, are alike.  kind  *)
(* tells them apart: "And" stands for parseTerm, "Or" for parseExpression.   *)

Lists == {"And", "Or"}
Below(kind) == IF kind = "And" THEN "Not" ELSE "And"
Separator(kind) == IF kind = "And" THEN "&" ELSE "|"
Glue(kind, x, y) == IF kind = "And" THEN x \cap y ELSE x \cup y
Operand(kind, pos) == IF kind = "And" THEN Factor(Parse, pos) ELSE Term(Parse, pos)
Whole(kind, pos) == IF kind = "And" THEN Term(Parse, pos) ELSE Expression(Parse, pos)
Loop(kind, left, pos) == Parse[<<IF kind = "And" THEN "term" ELSE "expression", left, pos>>]

\* Where an operand may end, and where the list does.
Stops(kind) == IF kind = "And" THEN Positions ELSE {j \in Positions : ~Peek(j, "&")}
Finals(kind) == {j \in Stops(kind) : ~Peek(j, Separator(kind))}

\* r is the only reading of the tokens from one position on: the grammar
\* derives them up to where r ends and to no other of the places, as r's node.
OnlyReading(r, kind, from, places) ==
  /\ r.ok => r.pos \in places
  /\ \A j \in places : Means[<<kind, from, j>>] = IF r.ok /\ r.pos = j THEN {r.node} ELSE {}

OperandRead(kind, pos) == OnlyReading(Operand(kind, pos), Below(kind), pos, Stops(kind))
WholeRead(kind, pos) == OnlyReading(Whole(kind, pos), kind, pos, Finals(kind))

LEMMA OperandReads ==
  ASSUME TokensOK, NEW kind \in Lists, NEW pos \in Positions
  PROVE  /\ Reads(Operand(kind, pos), pos)
         /\ Whole(kind, pos) = IF Operand(kind, pos).ok
                               THEN Loop(kind, Operand(kind, pos).node, Operand(kind, pos).pos) ELSE Error
<1>1. TypedBeyond(Parse, 0) /\ AgreeBeyond(Parse, Parse, 0) /\ pos > 0
  BY ParseIs, Places DEF AgreeBeyond, Positions
<1>2. Reads(Factor(Parse, pos), pos) /\ Reads(Term(Parse, pos), pos)
  BY <1>1, FactorAgrees, TermAgrees
<1> QED BY <1>2 DEF Operand, Whole, Loop, Term, Expression, Lists

LEMMA LoopIs ==
  ASSUME TokensOK, NEW kind \in Lists, NEW left \in SUBSET Messages, NEW pos \in Positions
  PROVE  Loop(kind, left, pos) =
           IF ~Peek(pos, Separator(kind)) THEN Read(left, pos)
           ELSE IF Operand(kind, pos + 1).ok
           THEN Loop(kind, Glue(kind, left, Operand(kind, pos + 1).node), Operand(kind, pos + 1).pos)
           ELSE Error
<1> DEFINE c == <<IF kind = "And" THEN "term" ELSE "expression", left, pos>>
<1>1. c \in Calls /\ c[1] = (IF kind = "And" THEN "term" ELSE "expression") /\ c[2] = left /\ c[3] = pos
  BY DEF Calls
<1>2. Parse[c] = Rule(Parse, c)
  BY <1>1, ParseIs
<1>3. CASE kind = "And"
  <2>1. Loop(kind, left, pos) = TermLoop(Parse, left, pos)
    BY <1>1, <1>2, <1>3 DEF Loop, Rule
  <2> QED BY <1>3, <2>1 DEF TermLoop, Loop, Operand, Glue, Separator
<1>4. CASE kind = "Or"
  <2>1. Loop(kind, left, pos) = ExpressionLoop(Parse, left, pos)
    BY <1>1, <1>2, <1>4 DEF Loop, Rule
  <2> QED BY <1>4, <2>1 DEF ExpressionLoop, Loop, Operand, Glue, Separator
<1> QED BY <1>3, <1>4 DEF Lists

LEMMA MeansList ==
  ASSUME TokensOK, NEW kind \in Lists, NEW i \in Positions, NEW j \in Positions, NEW z
  PROVE  z \in Means[<<kind, i, j>>] <=>
           \/ z \in Means[<<Below(kind), i, j>>]
           \/ \E k \in At(Separator(kind), i, j) :
                \E x \in Means[<<kind, i, k>>], y \in Means[<<Below(kind), k + 1, j>>] : z = Glue(kind, x, y)
<1>1. <<kind, i, j>> \in Spans
  BY DEF Spans, Lists
<1>2. Means[<<kind, i, j>>] = Meaning(Means, <<kind, i, j>>)
  BY <1>1, MeansIs
<1>3. CASE kind = "And"
  <2>1. Means[<<kind, i, j>>] = AndMeans(Means, i, j)
    BY <1>2, <1>3 DEF Meaning
  <2> DEFINE S == At("&", i, j)
             F(k) == {x \cap y : x \in Means[<<"And", i, k>>], y \in Means[<<"Not", k + 1, j>>]}
  <2>2. \A k : z \in F(k) <=>
          \E x \in Means[<<"And", i, k>>], y \in Means[<<"Not", k + 1, j>>] : z = x \cap y
    OBVIOUS
  <2>3. AndMeans(Means, i, j) = Means[<<"Not", i, j>>] \cup UNION {F(k) : k \in S}
    BY DEF AndMeans
  <2> HIDE DEF S, F
  <2>4. z \in Means[<<kind, i, j>>] <=> z \in Means[<<"Not", i, j>>] \/ \E k \in S : z \in F(k)
    BY <2>1, <2>3
  <2> QED BY <1>3, <2>2, <2>4 DEF S, Below, Separator, Glue
<1>4. CASE kind = "Or"
  <2>1. Means[<<kind, i, j>>] = OrMeans(Means, i, j)
    BY <1>2, <1>4 DEF Meaning
  <2> DEFINE S == At("|", i, j)
             F(k) == {x \cup y : x \in Means[<<"Or", i, k>>], y \in Means[<<"And", k + 1, j>>]}
  <2>2. \A k : z \in F(k) <=>
          \E x \in Means[<<"Or", i, k>>], y \in Means[<<"And", k + 1, j>>] : z = x \cup y
    OBVIOUS
  <2>3. OrMeans(Means, i, j) = Means[<<"And", i, j>>] \cup UNION {F(k) : k \in S}
    BY DEF OrMeans
  <2> HIDE DEF S, F
  <2>4. z \in Means[<<kind, i, j>>] <=> z \in Means[<<"And", i, j>>] \/ \E k \in S : z \in F(k)
    BY <2>1, <2>3
  <2> QED BY <1>4, <2>2, <2>4 DEF S, Below, Separator, Glue
<1> QED BY <1>3, <1>4 DEF Lists

\* A separator of the list is a place where an operand may end.
LEMMA SeparatorStops ==
  ASSUME TokensOK, NEW kind \in Lists, NEW i \in Positions, NEW j \in Positions,
         NEW k \in At(Separator(kind), i, j)
  PROVE  /\ k \in Stops(kind) /\ Peek(k, Separator(kind))
         /\ k \in Nat /\ k + 1 \in Positions /\ i <= k /\ k < j
<1>1. /\ k \in Positions /\ k + 1 \in Positions /\ k \in Nat /\ i <= k /\ k < j
      /\ k \in 1..Len(tokens) /\ tokens[k] = Separator(kind)
  BY AtPlace
<1> QED BY <1>1 DEF Stops, Peek, Separator, Lists

-----------------------------------------------------------------------------
(* A list is read: the loop passes exactly the places where it may end. *)

\* The loop is at a place where the list may end, with what it says up to
\* there; at every earlier one a separator follows, and an operand no further.
Stage(kind, p, left, k) ==
  /\ left \in SUBSET Messages /\ k \in Stops(kind) /\ k > p
  /\ Means[<<kind, p, k>>] = {left}
  /\ Operand(kind, p).ok => Operand(kind, p).pos <= k
  /\ \A i \in Stops(kind) : i < k /\ Means[<<kind, p, i>>] # {} =>
       /\ Peek(i, Separator(kind))
       /\ Operand(kind, i + 1).ok => Operand(kind, i + 1).pos <= k

\* The operands from p on are read.
OperandsRead(kind, p) == \A i \in Positions : i >= p => OperandRead(kind, i)

\* The next place where the list may end is one operand further on.
LEMMA NextStop ==
  ASSUME TokensOK, NEW kind \in Lists, NEW p \in Positions, OperandsRead(kind, p),
         NEW left, NEW k, Stage(kind, p, left, k),
         NEW j \in Stops(kind), j > k, NEW z \in Means[<<kind, p, j>>],
         \A i \in Stops(kind) : i > k /\ i < j => Means[<<kind, p, i>>] = {}
  PROVE  /\ Peek(k, Separator(kind)) /\ k + 1 \in Positions
         /\ Operand(kind, k + 1).ok /\ Operand(kind, k + 1).pos = j
         /\ z = Glue(kind, left, Operand(kind, k + 1).node)
<1>1. p \in Nat /\ k \in Nat /\ j \in Nat /\ k \in Positions /\ j \in Positions /\ Stops(kind) \subseteq Nat
  BY Places DEF Stage, Stops
<1>2. z \notin Means[<<Below(kind), p, j>>]
  <2>1. OperandRead(kind, p)
    BY <1>1 DEF OperandsRead
  <2>2. ~(Operand(kind, p).ok /\ Operand(kind, p).pos = j)
    BY <1>1 DEF Stage
  <2> QED BY <2>1, <2>2 DEF OperandRead, OnlyReading
<1>3. PICK i \in At(Separator(kind), p, j) :
        \E x \in Means[<<kind, p, i>>], y \in Means[<<Below(kind), i + 1, j>>] : z = Glue(kind, x, y)
  BY <1>1, <1>2, MeansList
<1>4. PICK x \in Means[<<kind, p, i>>], y \in Means[<<Below(kind), i + 1, j>>] : z = Glue(kind, x, y)
  BY <1>3
<1>5. /\ i \in Stops(kind) /\ Peek(i, Separator(kind))
      /\ i \in Nat /\ i + 1 \in Positions /\ p <= i /\ i < j /\ i + 1 >= p
  BY <1>1, SeparatorStops
<1>6. OperandRead(kind, i + 1)
  BY <1>5 DEF OperandsRead
<1>7. Operand(kind, i + 1).ok /\ Operand(kind, i + 1).pos = j /\ y = Operand(kind, i + 1).node
  BY <1>4, <1>6 DEF OperandRead, OnlyReading
<1>8. ~(i < k)
  <2>1. SUFFICES ASSUME i < k PROVE FALSE
    OBVIOUS
  <2>2. Operand(kind, i + 1).pos <= k
    BY <1>4, <1>5, <1>7, <2>1 DEF Stage
  <2> QED BY <1>1, <1>7, <2>2
<1>9. ~(i > k)
  BY <1>4, <1>5
<1>10. i = k
  BY <1>1, <1>5, <1>8, <1>9
<1>11. x = left
  BY <1>4, <1>10 DEF Stage
<1> QED BY <1>4, <1>5, <1>7, <1>10, <1>11

\* Beyond a stage, the list ends nowhere before the next operand does.
LEMMA NoneBetween ==
  ASSUME TokensOK, NEW kind \in Lists, NEW p \in Positions, OperandsRead(kind, p),
         NEW left, NEW k, Stage(kind, p, left, k),
         NEW j \in Stops(kind), j > k, Means[<<kind, p, j>>] # {}
  PROVE  Peek(k, Separator(kind)) /\ Operand(kind, k + 1).ok /\ Operand(kind, k + 1).pos <= j
<1> DEFINE T == {n \in Stops(kind) : n > k /\ Means[<<kind, p, n>>] # {}}
<1>1. k \in Nat /\ Stops(kind) \subseteq Nat
  BY Places DEF Stage, Stops
<1>2. PICK t \in T : \A n \in T : t <= n
  <2>1. T \in SUBSET Nat /\ T # {}
    BY <1>1
  <2> HIDE DEF T
  <2> QED BY <2>1, LeastElement
<1>3. \A i \in Stops(kind) : i > k /\ i < t => Means[<<kind, p, i>>] = {}
  <2>1. SUFFICES ASSUME NEW i \in Stops(kind), i > k, i < t, Means[<<kind, p, i>>] # {} PROVE FALSE
    OBVIOUS
  <2>2. t <= i /\ i \in Nat /\ t \in Nat
    BY <1>1, <1>2, <2>1
  <2> QED BY <2>1, <2>2
<1>4. PICK z : z \in Means[<<kind, p, t>>]
  BY <1>2
<1>5. t \in Stops(kind) /\ t > k
  BY <1>2
<1>6. Peek(k, Separator(kind)) /\ Operand(kind, k + 1).ok /\ Operand(kind, k + 1).pos = t
  BY <1>3, <1>4, <1>5, NextStop
<1>7. t <= j
  BY <1>2
<1> QED BY <1>6, <1>7

LEMMA NextStage ==
  ASSUME TokensOK, NEW kind \in Lists, NEW p \in Positions, OperandsRead(kind, p),
         NEW left, NEW k, Stage(kind, p, left, k),
         Peek(k, Separator(kind)), Operand(kind, k + 1).ok
  PROVE  /\ Operand(kind, k + 1).pos \in Positions /\ Operand(kind, k + 1).pos > k
         /\ Stage(kind, p, Glue(kind, left, Operand(kind, k + 1).node), Operand(kind, k + 1).pos)
<1> DEFINE r == Operand(kind, k + 1)
<1>1. p \in Nat /\ k \in Nat /\ k \in Positions /\ Stops(kind) \subseteq Nat /\ Stops(kind) \subseteq Positions
      /\ k > p /\ left \in SUBSET Messages
  BY Places DEF Stage, Stops
<1>2. k + 1 \in Positions /\ k \in 1..Len(tokens) /\ tokens[k] = Separator(kind)
  BY <1>1, PeekPlace DEF Peek
<1>3. OperandRead(kind, k + 1)
  BY <1>1, <1>2 DEF OperandsRead
<1>4. r.node \in SUBSET Messages /\ r.pos \in Positions /\ r.pos \in Nat /\ r.pos > k
  BY <1>1, <1>2, OperandReads, Further
<1>5. r.pos \in Stops(kind) /\ Means[<<Below(kind), k + 1, r.pos>>] = {r.node}
  BY <1>3 DEF OperandRead, OnlyReading
<1>6. r.pos > p /\ Glue(kind, left, r.node) \in SUBSET Messages
  BY <1>1, <1>4 DEF Glue
<1>7. \A i \in Stops(kind) : i > k /\ i < r.pos => Means[<<kind, p, i>>] = {}
  <2>1. SUFFICES ASSUME NEW i \in Stops(kind), i > k, i < r.pos, Means[<<kind, p, i>>] # {} PROVE FALSE
    OBVIOUS
  <2>2. r.pos <= i /\ i \in Nat
    BY <1>1, <2>1, NoneBetween
  <2> QED BY <1>4, <2>1, <2>2
<1>8. Means[<<kind, p, r.pos>>] = {Glue(kind, left, r.node)}
  <2>1. ASSUME NEW z \in Means[<<kind, p, r.pos>>] PROVE z = Glue(kind, left, r.node)
    BY <1>4, <1>5, <1>7, NextStop
  <2>2. k \in At(Separator(kind), p, r.pos)
    BY <1>1, <1>2, <1>4 DEF At
  <2>3. left \in Means[<<kind, p, k>>] /\ r.node \in Means[<<Below(kind), k + 1, r.pos>>]
    BY <1>5 DEF Stage
  <2>4. Glue(kind, left, r.node) \in Means[<<kind, p, r.pos>>]
    BY <1>4, <2>2, <2>3, MeansList
  <2> QED BY <2>1, <2>4
<1>9. Operand(kind, p).ok => Operand(kind, p).pos <= r.pos
  <2>1. Operand(kind, p).ok => Operand(kind, p).pos \in Nat /\ Operand(kind, p).pos <= k
    BY <1>1, OperandReads, Further DEF Stage
  <2> QED BY <1>1, <1>4, <2>1
<1>10. ASSUME NEW i \in Stops(kind), i < r.pos, Means[<<kind, p, i>>] # {}
       PROVE  Peek(i, Separator(kind)) /\ (Operand(kind, i + 1).ok => Operand(kind, i + 1).pos <= r.pos)
  <2>1. i \in Nat /\ i \in Positions
    BY <1>1
  <2>2. CASE i < k
    <3>1. Peek(i, Separator(kind)) /\ (Operand(kind, i + 1).ok => Operand(kind, i + 1).pos <= k)
      BY <1>10, <2>2 DEF Stage
    <3>2. Operand(kind, i + 1).ok => Operand(kind, i + 1).pos \in Nat
      BY <2>1, <3>1, PeekPlace, OperandReads, Further, Places
    <3> QED BY <1>1, <1>4, <3>1, <3>2
  <2>3. CASE i = k
    BY <1>4, <2>3
  <2>4. CASE i > k
    BY <1>7, <1>10, <2>4
  <2> QED BY <1>1, <2>1, <2>2, <2>3, <2>4
<1>11. Stage(kind, p, Glue(kind, left, r.node), r.pos)
  <2> HIDE DEF r
  <2> QED BY <1>5, <1>6, <1>8, <1>9, <1>10 DEF Stage
<1> QED BY <1>4, <1>11

LoopRead(kind, p, k) ==
  \A left : Stage(kind, p, left, k) => OnlyReading(Loop(kind, left, k), kind, p, Finals(kind))
LoopsRead(kind, p, n) == \A k \in Positions : k > n => LoopRead(kind, p, k)

LEMMA LoopReadsOn ==
  ASSUME TokensOK, NEW kind \in Lists, NEW p \in Positions, OperandsRead(kind, p),
         NEW k \in Positions, LoopsRead(kind, p, k)
  PROVE  LoopRead(kind, p, k)
<1> SUFFICES ASSUME NEW left, Stage(kind, p, left, k)
             PROVE  OnlyReading(Loop(kind, left, k), kind, p, Finals(kind))
  BY DEF LoopRead
<1> DEFINE r == Loop(kind, left, k)
           next == Operand(kind, k + 1)
<1>1. /\ k \in Nat /\ k \in Stops(kind) /\ left \in SUBSET Messages
      /\ Means[<<kind, p, k>>] = {left} /\ Stops(kind) \subseteq Nat /\ Finals(kind) \subseteq Stops(kind)
  BY Places DEF Stage, Stops, Finals
<1>2. r = IF ~Peek(k, Separator(kind)) THEN Read(left, k)
          ELSE IF next.ok THEN Loop(kind, Glue(kind, left, next.node), next.pos) ELSE Error
  BY <1>1, LoopIs
<1>3. ASSUME NEW j \in Finals(kind), j < k PROVE Means[<<kind, p, j>>] = {}
  <2>1. ~Peek(j, Separator(kind)) /\ j \in Stops(kind)
    BY DEF Finals
  <2> QED BY <1>3, <2>1 DEF Stage
<1>4. CASE Peek(k, Separator(kind)) /\ next.ok
  <2>1. /\ next.pos \in Positions /\ next.pos > k
        /\ Stage(kind, p, Glue(kind, left, next.node), next.pos)
    BY <1>4, NextStage
  <2>2. r = Loop(kind, Glue(kind, left, next.node), next.pos)
    BY <1>2, <1>4
  <2> HIDE DEF r, next
  <2> QED BY <2>1, <2>2 DEF LoopsRead, LoopRead, r
<1>5. CASE ~(Peek(k, Separator(kind)) /\ next.ok)
  <2>1. ASSUME NEW j \in Finals(kind), j > k PROVE Means[<<kind, p, j>>] = {}
    BY <1>1, <1>5, <2>1, NoneBetween
  <2>2. CASE ~Peek(k, Separator(kind))
    <3>1. r = Read(left, k) /\ k \in Finals(kind)
      BY <1>1, <1>2, <2>2 DEF Finals
    <3>2. r.ok /\ r.pos = k /\ r.node = left
      BY <3>1 DEF Read
    <3>3. ASSUME NEW j \in Finals(kind)
          PROVE  Means[<<kind, p, j>>] = IF r.ok /\ r.pos = j THEN {r.node} ELSE {}
      <4>1. j = k \/ j < k \/ j > k
        BY <1>1
      <4> QED BY <1>1, <1>3, <2>1, <3>2, <4>1
    <3> HIDE DEF r
    <3> QED BY <3>1, <3>2, <3>3 DEF OnlyReading, r
  <2>3. CASE Peek(k, Separator(kind))
    <3>1. r = Error /\ k \notin Finals(kind)
      BY <1>2, <1>5, <2>3 DEF Finals
    <3>2. ~r.ok
      BY <3>1, OutcomeTypes
    <3>3. ASSUME NEW j \in Finals(kind)
          PROVE  Means[<<kind, p, j>>] = {}
      <4>1. j < k \/ j > k
        BY <1>1, <3>1
      <4> QED BY <1>3, <2>1, <4>1
    <3> HIDE DEF r
    <3> QED BY <3>2, <3>3 DEF OnlyReading, r
  <2> QED BY <2>2, <2>3
<1> QED BY <1>4, <1>5

LEMMA LoopReads ==
  ASSUME TokensOK, NEW kind \in Lists, NEW p \in Positions, OperandsRead(kind, p), NEW k \in Positions
  PROVE  LoopRead(kind, p, k)
<1> DEFINE T == {n \in 0..(Len(tokens) + 1) : LoopsRead(kind, p, n)}
<1>1. Len(tokens) \in Nat /\ \A m \in Positions : m \in Nat /\ m > 0 /\ m <= Len(tokens) + 1
  BY Places DEF Positions
<1>2. Len(tokens) + 1 \in T
  <2>1. \A m \in Positions : ~(m > Len(tokens) + 1)
    BY <1>1
  <2> QED BY <1>1, <2>1 DEF LoopsRead
<1>3. PICK t \in T : \A n \in T : t <= n
  <2>1. T \in SUBSET Nat /\ T # {}
    BY <1>2
  <2> HIDE DEF T
  <2> QED BY <2>1, LeastElement
<1>4. ASSUME t # 0 PROVE FALSE
  <2>1. t \in Positions /\ t - 1 \in 0..(Len(tokens) + 1) /\ ~(t <= t - 1)
    BY <1>1, <1>3, <1>4 DEF Positions
  <2>2. LoopRead(kind, p, t)
    BY <1>3, <2>1, LoopReadsOn
  <2>3. \A m \in Positions : m > t - 1 => m = t \/ m > t
    BY <1>1, <2>1
  <2>4. LoopsRead(kind, p, t - 1)
    BY <1>3, <2>2, <2>3 DEF LoopsRead
  <2> QED BY <1>3, <2>1, <2>4
<1> QED BY <1>1, <1>3, <1>4 DEF LoopsRead

\* The first stage is where the first operand ends.
LEMMA FirstStage ==
  ASSUME TokensOK, NEW kind \in Lists, NEW p \in Positions, OperandsRead(kind, p)
  PROVE  /\ Operand(kind, p).ok => Stage(kind, p, Operand(kind, p).node, Operand(kind, p).pos)
         /\ ~Operand(kind, p).ok => \A j \in Stops(kind) : Means[<<kind, p, j>>] = {}
<1> DEFINE r == Operand(kind, p)
           Before(j) == r.ok => j < r.pos
           T == {j \in Stops(kind) : Before(j) /\ Means[<<kind, p, j>>] # {}}
<1>1. p \in Nat /\ Stops(kind) \subseteq Nat /\ Stops(kind) \subseteq Positions
  BY Places DEF Stops
<1>2. OperandRead(kind, p)
  BY <1>1 DEF OperandsRead
<1>3. r.ok => r.node \in SUBSET Messages /\ r.pos \in Positions /\ r.pos \in Nat /\ r.pos > p
  BY <1>1, OperandReads, Further
<1>4. \A j \in Stops(kind) : Before(j) => Means[<<kind, p, j>>] = {}
  <2>1. SUFFICES ASSUME T # {} PROVE FALSE
    OBVIOUS
  <2>2. PICK t \in T : \A j \in T : t <= j
    <3>1. T \in SUBSET Nat
      BY <1>1
    <3> HIDE DEF T
    <3> QED BY <2>1, <3>1, LeastElement
  <2>3. t \in Stops(kind) /\ t \in Nat /\ t \in Positions /\ Before(t)
    BY <1>1, <2>2
  <2>4. PICK z : z \in Means[<<kind, p, t>>]
    BY <2>2
  <2>5. z \notin Means[<<Below(kind), p, t>>]
    <3>1. ~(r.ok /\ r.pos = t)
      BY <1>3, <2>3
    <3> HIDE DEF T, Before
    <3> QED BY <1>2, <2>3, <3>1 DEF OperandRead, OnlyReading
  <2>6. PICK i \in At(Separator(kind), p, t) : Means[<<kind, p, i>>] # {}
    <3> HIDE DEF T, Before
    <3> QED BY <2>3, <2>4, <2>5, MeansList
  <2>7. i \in Stops(kind) /\ i \in Nat /\ i < t
    BY <2>3, SeparatorStops
  <2>8. Before(i)
    BY <1>3, <2>3, <2>7
  <2>9. t <= i
    BY <2>2, <2>6, <2>7, <2>8
  <2> QED BY <2>3, <2>7, <2>9
<1>5. CASE r.ok
  <2>1. r.pos \in Stops(kind) /\ Means[<<Below(kind), p, r.pos>>] = {r.node}
    BY <1>2, <1>5 DEF OperandRead, OnlyReading
  <2>2. Means[<<kind, p, r.pos>>] = {r.node}
    <3>1. ASSUME NEW z PROVE z \in Means[<<kind, p, r.pos>>] <=> z \in Means[<<Below(kind), p, r.pos>>]
      <4>1. ASSUME NEW i \in At(Separator(kind), p, r.pos) PROVE Means[<<kind, p, i>>] = {}
        <5>1. i \in Stops(kind) /\ i < r.pos
          BY <1>3, <1>5, SeparatorStops
        <5> QED BY <1>4, <5>1
      <4> HIDE DEF T, Before, r
      <4>2. r.pos \in Positions
        BY <1>3, <1>5
      <4>3. /\ z \in Means[<<kind, p, r.pos>>] <=>
                 \/ z \in Means[<<Below(kind), p, r.pos>>]
                 \/ \E k \in At(Separator(kind), p, r.pos) :
                      \E x \in Means[<<kind, p, k>>], y \in Means[<<Below(kind), k + 1, r.pos>>] :
                        z = Glue(kind, x, y)
        BY <4>2, MeansList
      <4> QED BY <4>1, <4>3
    <3> QED BY <2>1, <3>1
  <2>3. \A i \in Stops(kind) : i < r.pos => Means[<<kind, p, i>>] = {}
    BY <1>4, <1>5
  <2>4. r.pos <= r.pos
    BY <1>3, <1>5
  <2>5. Stage(kind, p, r.node, r.pos)
    BY <1>3, <1>5, <2>1, <2>2, <2>3, <2>4 DEF Stage
  <2> QED BY <1>5, <2>5
<1>6. CASE ~r.ok
  BY <1>4, <1>6
<1> QED BY <1>5, <1>6

\* If every operand from p on is read, so is the list at p.
LEMMA ListReads ==
  ASSUME TokensOK, NEW kind \in Lists, NEW p \in Positions, OperandsRead(kind, p)
  PROVE  WholeRead(kind, p)
<1> DEFINE r == Operand(kind, p)
<1>1. Finals(kind) \subseteq Stops(kind)
  BY DEF Finals
<1>2. Whole(kind, p) = IF r.ok THEN Loop(kind, r.node, r.pos) ELSE Error
  BY OperandReads
<1>3. CASE r.ok
  <2>1. Stage(kind, p, r.node, r.pos)
    BY <1>3, FirstStage
  <2>2. r.pos \in Positions
    BY <2>1 DEF Stage, Stops
  <2>3. OnlyReading(Loop(kind, r.node, r.pos), kind, p, Finals(kind))
    BY <2>1, <2>2, LoopReads DEF LoopRead
  <2> QED BY <1>2, <1>3, <2>3 DEF WholeRead
<1>4. CASE ~r.ok
  <2>1. \A j \in Stops(kind) : Means[<<kind, p, j>>] = {}
    BY <1>4, FirstStage
  <2>2. ~Whole(kind, p).ok
    BY <1>2, <1>4, OutcomeTypes
  <2> QED BY <1>1, <2>1, <2>2 DEF WholeRead, OnlyReading
<1> QED BY <1>3, <1>4

-----------------------------------------------------------------------------
(* Factors, and with them everything. *)

LEMMA FactorReads ==
  ASSUME TokensOK, NEW p \in Positions,
         \A i \in Positions : i > p => OperandRead("And", i) /\ WholeRead("Or", i)
  PROVE  OperandRead("And", p)
<1> DEFINE r == Factor(Parse, p)
           operand == Factor(Parse, p + 1)
           expr == Expression(Parse, p + 1)
           N == Len(tokens)
<1>1. p \in Nat /\ N \in Nat /\ p <= N + 1 /\ Positions = 1..(N + 1)
  BY Places DEF Positions
<1>2. r = ParseFactor(Parse, p)
  <2>1. <<"factor", {}, p>> \in Calls
    BY DEF Calls
  <2>2. Parse[<<"factor", {}, p>>] = Rule(Parse, <<"factor", {}, p>>)
    BY <2>1, ParseIs
  <2> QED BY <2>2 DEF Factor, Rule
<1>3. ASSUME NEW j \in Positions
      PROVE  Means[<<"Not", p, j>>] = NotMeans(Means, p, j)
  <2>1. <<"Not", p, j>> \in Spans
    BY DEF Spans
  <2>2. Means[<<"Not", p, j>>] = Meaning(Means, <<"Not", p, j>>)
    BY <2>1, MeansIs
  <2> QED BY <2>2 DEF Meaning
<1>4. SUFFICES /\ r.ok => r.pos \in Positions
               /\ \A j \in Positions : NotMeans(Means, p, j) = IF r.ok /\ r.pos = j THEN {r.node} ELSE {}
  BY <1>3 DEF OperandRead, OnlyReading, Operand, Below, Stops
<1>5. \A j \in Positions : j \in Nat /\ (j = p + 1 => p \in 1..N)
  BY <1>1
<1>6. \A t \in Operators : t \notin Operands
  BY TokensAssumption
<1>7. CASE p \in 1..N /\ tokens[p] = "!"
  <2>1. p + 1 \in Positions /\ p + 1 > p /\ p + 1 \in Nat
    BY <1>1, <1>7
  <2>2. OnlyReading(operand, "Not", p + 1, Positions)
    BY <2>1 DEF OperandRead, Operand, Below, Stops
  <2>3. operand.ok => operand.pos \in Positions /\ operand.pos > p + 1
    <3>1. Reads(operand, p + 1)
      BY <2>1, OperandReads DEF Operand, Lists
    <3> QED BY <2>1, <3>1, Further
  <2>4. r = IF operand.ok THEN Read(Messages \ operand.node, operand.pos) ELSE Error
    BY <1>2, <1>7 DEF ParseFactor, Peek
  <2>5. ASSUME NEW j \in Positions
        PROVE  NotMeans(Means, p, j) =
                 IF operand.ok /\ operand.pos = j THEN {Messages \ operand.node} ELSE {}
    <3>1. Means[<<"Not", p + 1, j>>] = IF operand.ok /\ operand.pos = j THEN {operand.node} ELSE {}
      BY <2>2 DEF OnlyReading
    <3>2. tokens[p] \notin Operands
      BY <1>6, <1>7 DEF Operators
    <3>3. CASE j > p + 1
      <4>1. NotMeans(Means, p, j) = {Messages \ x : x \in Means[<<"Not", p + 1, j>>]}
        BY <1>5, <1>7, <2>1, <3>3 DEF NotMeans
      <4> QED BY <3>1, <4>1
    <3>4. CASE ~(j > p + 1)
      <4>1. NotMeans(Means, p, j) = {}
        BY <3>2, <3>4 DEF NotMeans
      <4>2. ~(operand.ok /\ operand.pos = j)
        BY <2>3, <3>4
      <4> QED BY <4>1, <4>2
    <3> QED BY <3>3, <3>4
  <2>6. CASE operand.ok
    <3>1. r.ok /\ r.pos = operand.pos /\ r.node = Messages \ operand.node
      BY <2>4, <2>6 DEF Read
    <3> QED BY <2>3, <2>5, <2>6, <3>1
  <2>7. CASE ~operand.ok
    <3>1. ~r.ok
      BY <2>4, <2>7, OutcomeTypes
    <3> QED BY <2>5, <2>7, <3>1
  <2> QED BY <2>6, <2>7
<1>8. CASE p \in 1..N /\ tokens[p] = "("
  <2>1. p + 1 \in Positions /\ p + 1 > p /\ p + 1 \in Nat
    BY <1>1, <1>8
  <2>2. OnlyReading(expr, "Or", p + 1, Finals("Or"))
    BY <2>1 DEF WholeRead, Whole
  <2>3. expr.ok => expr.pos \in Positions /\ expr.pos > p + 1 /\ expr.pos \in Nat
    <3>1. Reads(expr, p + 1)
      <4>1. TypedBeyond(Parse, 0) /\ AgreeBeyond(Parse, Parse, 0) /\ p + 1 > 0
        BY <1>1, ParseIs DEF AgreeBeyond
      <4> QED BY <2>1, <4>1, ExpressionAgrees
    <3> QED BY <2>1, <3>1, Further
  <2>4. r = IF expr.ok /\ Peek(expr.pos, ")") THEN Read(expr.node, expr.pos + 1) ELSE Error
    BY <1>2, <1>8 DEF ParseFactor, Peek
  <2>5. ASSUME NEW j \in Positions
        PROVE  NotMeans(Means, p, j) =
                 IF expr.ok /\ Peek(expr.pos, ")") /\ expr.pos + 1 = j THEN {expr.node} ELSE {}
    <3>1. tokens[p] \notin Operands
      BY <1>6, <1>8 DEF Operators
    <3>2. CASE j > p + 1 /\ tokens[j - 1] = ")"
      <4>1. NotMeans(Means, p, j) = Means[<<"Or", p + 1, j - 1>>]
        BY <1>5, <1>8, <2>1, <3>2 DEF NotMeans
      <4>2. j - 1 \in Positions /\ j - 1 \in 1..N /\ j \in Nat /\ (j - 1) + 1 = j
        BY <1>1, <1>5, <3>2
      <4>3. Peek(j - 1, ")") /\ ~Peek(j - 1, "&") /\ ~Peek(j - 1, "|")
        BY <3>2, <4>2 DEF Peek
      <4>4. j - 1 \in Finals("Or")
        BY <4>2, <4>3 DEF Finals, Stops, Separator
      <4>5. Means[<<"Or", p + 1, j - 1>>] = IF expr.ok /\ expr.pos = j - 1 THEN {expr.node} ELSE {}
        BY <2>2, <4>4 DEF OnlyReading
      <4>6. expr.ok => (expr.pos = j - 1 <=> expr.pos + 1 = j)
        BY <2>3, <4>2
      <4> QED BY <4>1, <4>3, <4>5, <4>6
    <3>3. CASE ~(j > p + 1 /\ tokens[j - 1] = ")")
      <4>1. NotMeans(Means, p, j) = {}
        BY <1>8, <3>1, <3>3 DEF NotMeans
      <4>2. ~(expr.ok /\ Peek(expr.pos, ")") /\ expr.pos + 1 = j)
        <5>1. SUFFICES ASSUME expr.ok, Peek(expr.pos, ")"), expr.pos + 1 = j PROVE FALSE
          OBVIOUS
        <5>2. j > p + 1 /\ j - 1 = expr.pos
          BY <2>1, <2>3, <5>1
        <5> QED BY <3>3, <5>1, <5>2 DEF Peek
      <4> QED BY <4>1, <4>2
    <3> QED BY <3>2, <3>3
  <2>6. CASE expr.ok /\ Peek(expr.pos, ")")
    <3>1. r.ok /\ r.pos = expr.pos + 1 /\ r.node = expr.node
      BY <2>4, <2>6 DEF Read
    <3>2. expr.pos + 1 \in Positions
      BY <2>3, <2>6, PeekPlace
    <3> QED BY <2>5, <2>6, <3>1, <3>2
  <2>7. CASE ~(expr.ok /\ Peek(expr.pos, ")"))
    <3>1. ~r.ok
      BY <2>4, <2>7, OutcomeTypes
    <3> QED BY <2>5, <2>7, <3>1
  <2> QED BY <2>6, <2>7
<1>9. CASE p \in 1..N /\ tokens[p] \in Operands
  <2>1. tokens[p] # "!" /\ tokens[p] # "("
    BY <1>6, <1>9 DEF Operators
  <2>2. r = Read(Having[tokens[p]], p + 1)
    BY <1>2, <1>9, <2>1 DEF ParseFactor, Peek
  <2>3. r.ok /\ r.pos = p + 1 /\ r.node = Having[tokens[p]]
    BY <2>2 DEF Read
  <2>4. p + 1 \in Positions
    BY <1>1, <1>9
  <2>5. \A j \in Positions : NotMeans(Means, p, j) = IF j = p + 1 THEN {Having[tokens[p]]} ELSE {}
    BY <1>9, <2>1 DEF NotMeans
  <2> QED BY <2>3, <2>4, <2>5
<1>10. CASE ~(p \in 1..N /\ (tokens[p] \in {"!", "("} \/ tokens[p] \in Operands))
  <2>1. r = Error
    BY <1>2, <1>10 DEF ParseFactor, Peek
  <2>2. ~r.ok
    BY <2>1, OutcomeTypes
  <2>3. ASSUME NEW j \in Positions PROVE NotMeans(Means, p, j) = {}
    <3>1. j = p + 1 \/ j > p + 1 => p \in 1..N
      BY <1>1, <1>5
    <3> QED BY <1>10, <3>1 DEF NotMeans
  <2> QED BY <2>2, <2>3
<1> QED BY <1>7, <1>8, <1>9, <1>10

\* A list of lists: the operands of an expression are its terms.
LEMMA TermsAreOperands ==
  ASSUME NEW p
  PROVE  WholeRead("And", p) <=> OperandRead("Or", p)
<1>1. Finals("And") = Stops("Or")
  BY DEF Finals, Stops, Separator
<1> QED BY <1>1 DEF WholeRead, OperandRead, Whole, Operand, Below

LEMMA ListsRead ==
  ASSUME TokensOK, NEW p \in Positions, OperandsRead("And", p)
  PROVE  WholeRead("Or", p)
<1>1. ASSUME NEW i \in Positions, i >= p PROVE OperandRead("Or", i)
  <2>1. \A n \in Positions : n >= i => n >= p
    BY <1>1, Places
  <2>2. OperandsRead("And", i)
    BY <2>1 DEF OperandsRead
  <2>3. WholeRead("And", i)
    BY <2>2, ListReads DEF Lists
  <2> QED BY <2>3, TermsAreOperands
<1>2. OperandsRead("Or", p)
  BY <1>1 DEF OperandsRead
<1> QED BY <1>2, ListReads DEF Lists

\* Every factor is read, wherever it begins.
LEMMA FactorsRead ==
  ASSUME TokensOK
  PROVE  OperandsRead("And", 1)
<1> DEFINE T == {n \in 1..(Len(tokens) + 2) : OperandsRead("And", n)}
<1>1. Len(tokens) \in Nat /\ \A m \in Positions : m \in Nat /\ m <= Len(tokens) + 1
  BY Places DEF Positions
<1>2. Len(tokens) + 2 \in T
  <2>1. \A m \in Positions : ~(m >= Len(tokens) + 2)
    BY <1>1
  <2> QED BY <1>1, <2>1 DEF OperandsRead
<1>3. PICK t \in T : \A n \in T : t <= n
  <2>1. T \in SUBSET Nat /\ T # {}
    BY <1>2
  <2> HIDE DEF T
  <2> QED BY <2>1, LeastElement
<1>4. ASSUME t # 1 PROVE FALSE
  <2>1. /\ t - 1 \in Positions /\ t - 1 \in 1..(Len(tokens) + 2) /\ ~(t <= t - 1) /\ t \in Nat
    BY <1>1, <1>3, <1>4 DEF Positions
  <2>2. ASSUME NEW i \in Positions, i > t - 1 PROVE OperandRead("And", i) /\ WholeRead("Or", i)
    <3>1. i >= t
      BY <1>1, <2>1, <2>2
    <3>2. \A n \in Positions : n >= i => n >= t
      BY <1>1, <2>1, <3>1
    <3>3. OperandsRead("And", i) /\ OperandRead("And", i)
      BY <1>3, <3>1, <3>2 DEF OperandsRead
    <3> QED BY <3>3, ListsRead
  <2>3. OperandRead("And", t - 1)
    BY <2>1, <2>2, FactorReads
  <2>4. \A n \in Positions : n >= t - 1 => n = t - 1 \/ n > t - 1
    BY <1>1, <2>1
  <2>5. OperandsRead("And", t - 1)
    BY <2>2, <2>3, <2>4 DEF OperandsRead
  <2> QED BY <1>3, <2>1, <2>5
<1> QED BY <1>3, <1>4

\* Whatever the tokens, the parser is right about them.
LEMMA ParserIsRight == ASSUME TokensOK PROVE MatchesGrammar
<1> DEFINE ast == Expression(Parse, 1)
           N == Len(tokens)
<1>1. N \in Nat /\ 1 \in Positions /\ N + 1 \in Positions
  BY Places DEF Positions
<1>2. OnlyReading(ast, "Or", 1, Finals("Or"))
  <2>1. WholeRead("Or", 1)
    BY <1>1, FactorsRead, ListsRead
  <2> QED BY <2>1 DEF WholeRead, Whole
<1>3. N + 1 \in Finals("Or")
  <2>1. \A t : ~Peek(N + 1, t)
    BY <1>1 DEF Peek
  <2> QED BY <1>1, <2>1 DEF Finals, Stops
<1>4. Means[<<"Or", 1, N + 1>>] = IF ast.ok /\ ast.pos = N + 1 THEN {ast.node} ELSE {}
  BY <1>2, <1>3 DEF OnlyReading
<1>5. ast.ok => ast.pos > 1
  <2>1. TypedBeyond(Parse, 0) /\ AgreeBeyond(Parse, Parse, 0)
    BY ParseIs DEF AgreeBeyond
  <2> QED BY <1>1, <2>1, ExpressionAgrees DEF Reads
<1>6. ast.ok /\ ast.pos = N + 1 => tokens # <<>>
  <2>1. N = 0 => ~(ast.ok /\ ast.pos = N + 1)
    BY <1>5
  <2> QED BY <1>1, <2>1
<1>7. CASE ast.ok /\ ast.pos = N + 1
  <2>1. NewMatcher = ast
    BY <1>6, <1>7 DEF NewMatcher
  <2> QED BY <1>4, <1>7, <2>1 DEF MatchesGrammar
<1>8. CASE ~(ast.ok /\ ast.pos = N + 1)
  <2>1. NewMatcher = Error
    BY <1>8 DEF NewMatcher
  <2> QED BY <1>4, <1>8, <2>1, OutcomeTypes DEF MatchesGrammar
<1> QED BY <1>7, <1>8

\* NewMatcher (ast.go:194) builds a matcher exactly for the expressions of the
\* grammar, and it is true of the messages they mean, however long they are.
THEOREM ParserMatchesGrammar == MatcherSpec => []MatchesGrammar
<1>1. MatcherInit => TokensOK
  BY DEF MatcherInit, TokensOK
<1>2. TokensOK /\ [MatcherNext]_tokens => TokensOK'
  BY DEF TokensOK, MatcherNext, Scan, Tokens
<1> QED BY <1>1, <1>2, ParserIsRight, PTL DEF MatcherSpec

-----------------------------------------------------------------------------
(* Macros. *)

(* The loops over the pieces of a text. *)

TurnsOf(f, resolve, text, visited) ==
  f = [i \in 0..Len(text) |->
         IF i = 0 THEN Expansion(<<>>, visited) ELSE Turn(resolve, text[i], f[i - 1])]

LEMMA TurnsAre ==
  ASSUME NEW resolve, NEW text \in Written, NEW visited
  PROVE  TurnsOf(Turns(resolve, text, visited), resolve, text, visited)
<1> DEFINE Upto(n, f) ==
      f = [i \in 0..n |->
             IF i = 0 THEN Expansion(<<>>, visited) ELSE Turn(resolve, text[i], f[i - 1])]
           P(n) == \E f : Upto(n, f)
<1>0. Len(text) \in Nat
  BY TextsAssumption
<1>1. P(0)
  <2>1. PICK f : f = [i \in 0..0 |-> Expansion(<<>>, visited)]
    OBVIOUS
  <2>2. Upto(0, f)
    BY <2>1
  <2> QED BY <2>2
<1>2. ASSUME NEW n \in Nat, P(n) PROVE P(n + 1)
  <2>1. PICK f : Upto(n, f)
    BY <1>2
  <2>2. PICK g : g = [i \in 0..(n + 1) |-> IF i = n + 1 THEN Turn(resolve, text[n + 1], f[n]) ELSE f[i]]
    OBVIOUS
  <2>3. \A i \in 0..n : g[i] = f[i]
    BY <2>2
  <2>4. ASSUME NEW i \in 0..(n + 1)
        PROVE  g[i] = IF i = 0 THEN Expansion(<<>>, visited) ELSE Turn(resolve, text[i], g[i - 1])
    <3>1. CASE i = n + 1
      <4>1. g[i] = Turn(resolve, text[i], f[n]) /\ i - 1 = n /\ i # 0
        BY <2>2, <3>1
      <4>2. g[n] = f[n]
        BY <2>3
      <4> QED BY <4>1, <4>2
    <3>2. CASE i # n + 1
      <4>1. i \in 0..n /\ (i # 0 => i - 1 \in 0..n)
        BY <3>2
      <4>2. f[i] = IF i = 0 THEN Expansion(<<>>, visited) ELSE Turn(resolve, text[i], f[i - 1])
        BY <2>1, <4>1
      <4>3. g[i] = f[i] /\ (i # 0 => g[i - 1] = f[i - 1])
        BY <2>3, <4>1
      <4> QED BY <4>2, <4>3
    <3> QED BY <3>1, <3>2
  <2>5. g = [i \in 0..(n + 1) |-> g[i]]
    BY <2>2
  <2>6. Upto(n + 1, g)
    BY <2>4, <2>5
  <2> HIDE DEF Upto
  <2> QED BY <2>6
<1>3. \A n \in Nat : P(n)
  <2> DEFINE S == {n \in Nat : P(n)}
  <2> HIDE DEF P
  <2>1. 0 \in S /\ \A n \in Nat : n \in S => n + 1 \in S
    BY <1>1, <1>2
  <2>2. \A n \in Nat : n \in S
    <3> HIDE DEF S
    <3> QED BY <2>1, Induction
  <2> QED BY <2>2
<1>4. \E f : Upto(Len(text), f)
  BY <1>0, <1>3
<1> QED BY <1>4 DEF TurnsOf, Turns

FillingOf(f, known, text, form) ==
  f = [i \in 0..Len(text) |->
         IF i = 0 THEN <<>> ELSE f[i - 1] \o Known(known, text[i], form)]

LEMMA FillingIs ==
  ASSUME NEW known, NEW text \in Written, NEW form
  PROVE  FillingOf(Filling(known, text, form), known, text, form)
<1> DEFINE Upto(n, f) ==
      f = [i \in 0..n |->
             IF i = 0 THEN <<>> ELSE f[i - 1] \o Known(known, text[i], form)]
           P(n) == \E f : Upto(n, f)
<1>0. Len(text) \in Nat
  BY TextsAssumption
<1>1. P(0)
  <2>1. PICK f : f = [i \in 0..0 |-> <<>>]
    OBVIOUS
  <2>2. Upto(0, f)
    BY <2>1
  <2> QED BY <2>2
<1>2. ASSUME NEW n \in Nat, P(n) PROVE P(n + 1)
  <2>1. PICK f : Upto(n, f)
    BY <1>2
  <2>2. PICK g : g = [i \in 0..(n + 1) |-> IF i = n + 1 THEN f[n] \o Known(known, text[n + 1], form) ELSE f[i]]
    OBVIOUS
  <2>3. \A i \in 0..n : g[i] = f[i]
    BY <2>2
  <2>4. ASSUME NEW i \in 0..(n + 1)
        PROVE  g[i] = IF i = 0 THEN <<>> ELSE g[i - 1] \o Known(known, text[i], form)
    <3>1. CASE i = n + 1
      <4>1. g[i] = f[n] \o Known(known, text[i], form) /\ i - 1 = n /\ i # 0
        BY <2>2, <3>1
      <4>2. g[n] = f[n]
        BY <2>3
      <4> QED BY <4>1, <4>2
    <3>2. CASE i # n + 1
      <4>1. i \in 0..n /\ (i # 0 => i - 1 \in 0..n)
        BY <3>2
      <4>2. f[i] = IF i = 0 THEN <<>> ELSE f[i - 1] \o Known(known, text[i], form)
        BY <2>1, <4>1
      <4>3. g[i] = f[i] /\ (i # 0 => g[i - 1] = f[i - 1])
        BY <2>3, <4>1
      <4> QED BY <4>2, <4>3
    <3> QED BY <3>1, <3>2
  <2>5. g = [i \in 0..(n + 1) |-> g[i]]
    BY <2>2
  <2>6. Upto(n + 1, g)
    BY <2>4, <2>5
  <2> HIDE DEF Upto
  <2> QED BY <2>6
<1>3. \A n \in Nat : P(n)
  <2> DEFINE S == {n \in Nat : P(n)}
  <2> HIDE DEF P
  <2>1. 0 \in S /\ \A n \in Nat : n \in S => n + 1 \in S
    BY <1>1, <1>2
  <2>2. \A n \in Nat : n \in S
    <3> HIDE DEF S
    <3> QED BY <2>1, Induction
  <2> QED BY <2>2
<1>4. \E f : Upto(Len(text), f)
  BY <1>0, <1>3
<1>5. \E f : FillingOf(f, known, text, form)
  BY <1>4 DEF FillingOf
<1> HIDE DEF Upto, P
<1> QED BY <1>5 DEF FillingOf, Filling

LearnedOf(f) ==
  f = [i \in 0..Rounds |-> Round(IF i = 0 THEN [r \in {} |-> {}] ELSE f[i - 1])]

LEMMA LearnedIs ==
  ASSUME Rounds \in Nat
  PROVE  LearnedOf(Learned)
<1> DEFINE Upto(n, f) ==
      f = [i \in 0..n |-> Round(IF i = 0 THEN [r \in {} |-> {}] ELSE f[i - 1])]
           P(n) == \E f : Upto(n, f)
<1>0. Rounds \in Nat
  OBVIOUS
<1>1. P(0)
  <2>1. PICK f : f = [i \in 0..0 |-> Round([r \in {} |-> {}])]
    OBVIOUS
  <2>2. Upto(0, f)
    BY <2>1
  <2> QED BY <2>2
<1>2. ASSUME NEW n \in Nat, P(n) PROVE P(n + 1)
  <2>1. PICK f : Upto(n, f)
    BY <1>2
  <2>2. PICK g : g = [i \in 0..(n + 1) |-> IF i = n + 1 THEN Round(f[n]) ELSE f[i]]
    OBVIOUS
  <2>3. \A i \in 0..n : g[i] = f[i]
    BY <2>2
  <2>4. ASSUME NEW i \in 0..(n + 1)
        PROVE  g[i] = Round(IF i = 0 THEN [r \in {} |-> {}] ELSE g[i - 1])
    <3>1. CASE i = n + 1
      <4>1. g[i] = Round(f[n]) /\ i - 1 = n /\ i # 0
        BY <2>2, <3>1
      <4>2. g[n] = f[n]
        BY <2>3
      <4> QED BY <4>1, <4>2
    <3>2. CASE i # n + 1
      <4>1. i \in 0..n /\ (i # 0 => i - 1 \in 0..n)
        BY <3>2
      <4>2. f[i] = Round(IF i = 0 THEN [r \in {} |-> {}] ELSE f[i - 1])
        BY <2>1, <4>1
      <4>3. g[i] = f[i] /\ (i # 0 => g[i - 1] = f[i - 1])
        BY <2>3, <4>1
      <4> QED BY <4>2, <4>3
    <3> QED BY <3>1, <3>2
  <2>5. g = [i \in 0..(n + 1) |-> g[i]]
    BY <2>2
  <2>6. Upto(n + 1, g)
    BY <2>4, <2>5
  <2> HIDE DEF Upto
  <2> QED BY <2>6
<1>3. \A n \in Nat : P(n)
  <2> DEFINE S == {n \in Nat : P(n)}
  <2> HIDE DEF P
  <2>1. 0 \in S /\ \A n \in Nat : n \in S => n + 1 \in S
    BY <1>1, <1>2
  <2>2. \A n \in Nat : n \in S
    <3> HIDE DEF S
    <3> QED BY <2>1, Induction
  <2> QED BY <2>2
<1>4. \E f : Upto(Rounds, f)
  BY <1>0, <1>3
<1> QED BY <1>4 DEF LearnedOf, Learned

-----------------------------------------------------------------------------
(* The recursion of resolveMacro ends: each lookup marks a name, and there  *)
(* are as many left to mark as the store has that are not marked.           *)

StoredOK ==
  /\ DOMAIN stored \subseteq Names /\ IsFiniteSet(DOMAIN stored)
  /\ \A n \in DOMAIN stored : stored[n] \in Texts

LEMMA PieceKinds ==
  ASSUME NEW text \in Written, NEW i \in 1..Len(text), ~IsPlain(text[i])
  PROVE  text[i] \in References(text) /\ text[i] \in Refs
<1>1. i \in DOMAIN text
  BY TextsAssumption
<1> QED BY <1>1 DEF References, Refs

LEMMA RefKinds ==
  ASSUME NEW r \in Refs
  PROVE  /\ ~IsPlain(r)
         /\ r.to \in Names => r.with \in Written /\ r # Computed
<1>1. PICK text \in Written : r \in References(text)
  BY DEF Refs
<1>2. PICK i \in DOMAIN text : r = text[i] /\ ~IsPlain(r)
  BY <1>1 DEF References
<1>3. text[i] \in [to : {"plain"}, with : Seq(Token) \ {<<>>}] \cup {Computed, Faulty} \cup [to : Names, with : Params]
  BY TextsAssumption
<1>4. Computed.to \notin Names /\ Faulty.to \notin Names
  BY StoreNamesAssumption DEF Computed, Faulty
<1>5. r \in [to : {"plain"}, with : Seq(Token) \ {<<>>}] => IsPlain(r)
  BY DEF IsPlain
<1>6. r.to \in Names => r \in [to : Names, with : Params]
  BY <1>2, <1>3, <1>4, <1>5
<1> QED BY <1>2, <1>4, <1>6 DEF Written

\* A lookup gives the map of names back as it was.
Restores(f) == \A r \in Refs : \A v \in SUBSET Names : f[<<r, v>>].visited = v
AgreeAt(f, g, v) == \A r \in Refs : f[<<r, v>>] = g[<<r, v>>]

LEMMA TextAgrees ==
  ASSUME NEW f, NEW g, Restores(f), NEW text \in Written, NEW v \in SUBSET Names, AgreeAt(f, g, v)
  PROVE  /\ SubstituteAll(f, text, v) = SubstituteAll(g, text, v)
         /\ SubstituteAll(f, text, v).visited = v
<1> DEFINE F == Turns(f, text, v)
           G == Turns(g, text, v)
           S == {i \in Nat : i <= Len(text) => F[i] = G[i] /\ F[i].visited = v}
<1>0. Len(text) \in Nat
  BY TextsAssumption
<1>1. /\ F = [i \in 0..Len(text) |-> IF i = 0 THEN Expansion(<<>>, v) ELSE Turn(f, text[i], F[i - 1])]
      /\ G = [i \in 0..Len(text) |-> IF i = 0 THEN Expansion(<<>>, v) ELSE Turn(g, text[i], G[i - 1])]
  BY TurnsAre DEF TurnsOf
<1> HIDE DEF F, G
<1>2. 0 \in S
  <2>1. 0 \in 0..Len(text)
    BY <1>0
  <2>2. F[0] = Expansion(<<>>, v) /\ G[0] = Expansion(<<>>, v)
    BY <1>1, <2>1
  <2> QED BY <2>2 DEF Expansion
<1>3. ASSUME NEW n \in Nat, n \in S PROVE n + 1 \in S
  <2> SUFFICES ASSUME n + 1 <= Len(text) PROVE F[n + 1] = G[n + 1] /\ F[n + 1].visited = v
    OBVIOUS
  <2>1. n + 1 \in 0..Len(text) /\ n + 1 \in 1..Len(text) /\ n <= Len(text) /\ n + 1 # 0 /\ (n + 1) - 1 = n
    BY <1>0
  <2>2. F[n + 1] = Turn(f, text[n + 1], F[n]) /\ G[n + 1] = Turn(g, text[n + 1], G[n])
    BY <1>1, <2>1
  <2>3. F[n] = G[n] /\ F[n].visited = v
    BY <1>3, <2>1
  <2> DEFINE x == text[n + 1]
  <2>4. ~IsPlain(x) => x \in Refs
    BY <2>1, PieceKinds
  <2> HIDE DEF x
  <2>5. ~IsPlain(x) => f[<<x, v>>] = g[<<x, v>>] /\ f[<<x, v>>].visited = v
    BY <2>4 DEF AgreeAt, Restores
  <2>6. Turn(f, x, F[n]) = Turn(g, x, F[n]) /\ Turn(f, x, F[n]).visited = v
    BY <2>3, <2>5 DEF Turn, Expansion, Failure
  <2> QED BY <2>2, <2>3, <2>6 DEF x
<1>4. \A n \in Nat : n \in S
  <2> HIDE DEF S
  <2> QED BY <1>2, <1>3, Induction
<1> QED BY <1>0, <1>4 DEF F, G, SubstituteAll

LEMMA ExpansionParts ==
  ASSUME NEW text, NEW v
  PROVE  Expansion(text, v).ok /\ Expansion(text, v).text = text /\ Expansion(text, v).visited = v
BY DEF Expansion

\* What is left once the value and the parameter are known.
LEMMA ParamIsSet ==
  ASSUME NEW raw, NEW param, NEW v
  PROVE  LET val == SetParam(raw, param, v)
         IN /\ val.visited = v
            /\ val.ok <=> param = <<>> \/ FitsMessage(raw, param)
            /\ val.ok => val.text = IF param = <<>> THEN raw ELSE WithParam(raw, param, FormOf(v))
<1> DEFINE val == SetParam(raw, param, v)
           whole == WithParam(raw, param, FormOf(v))
<1>1. CASE param = <<>>
  BY <1>1, ExpansionParts DEF SetParam
<1>2. ASSUME param # <<>>, FitsMessage(raw, param)
      PROVE  val.ok /\ val.visited = v /\ val.text = whole
  <2>1. val = Expansion(whole, v)
    BY <1>2 DEF SetParam
  <2> HIDE DEF val, whole
  <2> QED BY <2>1, ExpansionParts
<1>3. ASSUME param # <<>>, ~FitsMessage(raw, param)
      PROVE  ~val.ok /\ val.visited = v
  BY <1>3 DEF SetParam, Failure
<1> QED BY <1>1, <1>2, <1>3

LEMMA MacroAgrees ==
  ASSUME StoredOK, NEW f, NEW g, Restores(f), NEW r \in Refs, NEW v \in SUBSET Names,
         Refuses(r, v) \/ AgreeAt(f, g, v \cup {r.to})
  PROVE  /\ ResolveMacro(f, r, v) = ResolveMacro(g, r, v)
         /\ ResolveMacro(f, r, v).visited = v
<1>1. CASE r = Computed
  BY <1>1 DEF ResolveMacro, Failure, Expansion
<1>2. CASE r # Computed /\ Refuses(r, v)
  BY <1>2 DEF ResolveMacro, Failure
<1>3. CASE r # Computed /\ ~Refuses(r, v)
  <2> DEFINE w == v \cup {r.to}
             val == SubstituteAll(f, stored[r.to], w)
             param == SubstituteAll(f, r.with, w)
  <2>1. /\ r.to \in DOMAIN stored /\ r.to \notin v
        /\ stored[r.to] \in Written /\ r.with \in Written /\ w \in SUBSET Names
    BY <1>3, RefKinds DEF Refuses, StoredOK, Written
  <2>2. AgreeAt(f, g, w)
    BY <1>3
  <2> HIDE DEF w
  <2>3. val = SubstituteAll(g, stored[r.to], w) /\ val.visited = w
    BY <2>1, <2>2, TextAgrees
  <2>4. param = SubstituteAll(g, r.with, w) /\ param.visited = w
    BY <2>1, <2>2, TextAgrees
  <2> HIDE DEF val, param
  <2>5. Forget(w, r.to) = v
    BY <2>1 DEF w, Forget
  <2>6. ResolveMacro(f, r, v) = IF ~val.ok THEN Failure(v)
                                ELSE IF ~param.ok THEN Failure(v)
                                ELSE SetParam(val.text, param.text, v)
    BY <1>3, <2>3, <2>4, <2>5 DEF ResolveMacro, w, val, param
  <2>7. ResolveMacro(g, r, v) = IF ~val.ok THEN Failure(v)
                                ELSE IF ~param.ok THEN Failure(v)
                                ELSE SetParam(val.text, param.text, v)
    BY <1>3, <2>3, <2>4, <2>5 DEF ResolveMacro, w
  <2>8. SetParam(val.text, param.text, v).visited = v
    BY ParamIsSet
  <2> QED BY <2>6, <2>7, <2>8 DEF Failure
<1> QED BY <1>1, <1>2, <1>3

Level(v) == Cardinality(DOMAIN stored \ v)

LEMMA Levels ==
  ASSUME StoredOK, NEW v
  PROVE  /\ Level(v) \in Nat /\ Rounds \in Nat /\ Level(v) <= Rounds /\ Level({}) = Rounds
         /\ \A n \in DOMAIN stored \ v : Level(v \cup {n}) \in Nat /\ Level(v) = Level(v \cup {n}) + 1
<1> DEFINE D == DOMAIN stored
<1>1. IsFiniteSet(D) /\ IsFiniteSet(D \ v) /\ (D \ v) \subseteq D /\ D \ {} = D
  BY FS_Subset DEF StoredOK
<1>2. Level(v) \in Nat /\ Rounds \in Nat /\ Level(v) <= Rounds /\ Level({}) = Rounds
  BY <1>1, FS_CardinalityType, FS_Subset DEF Level, Rounds
<1>3. ASSUME NEW n \in D \ v
      PROVE  Level(v \cup {n}) \in Nat /\ Level(v) = Level(v \cup {n}) + 1
  <2>1. D \ (v \cup {n}) = (D \ v) \ {n}
    OBVIOUS
  <2>2. Cardinality((D \ v) \ {n}) = Cardinality(D \ v) - 1
    BY <1>1, <1>3, FS_RemoveElement
  <2>3. IsFiniteSet((D \ v) \ {n})
    BY <1>1, <1>3, FS_RemoveElement
  <2>4. Cardinality((D \ v) \ {n}) \in Nat
    BY <2>3, FS_CardinalityType
  <2> QED BY <1>2, <2>1, <2>2, <2>4 DEF Level
<1> QED BY <1>2, <1>3

\* What resolveMacro says of the lookups with fewer than m names left.
Resolves(f, m) ==
  f = [c \in Lookups |-> IF Level(c[2]) < m THEN ResolveMacro(f, c[1], c[2]) ELSE Failure(c[2])]

LEMMA LookupsAre ==
  ASSUME NEW c \in Lookups
  PROVE  c[1] \in Refs /\ c[2] \in SUBSET Names /\ c = <<c[1], c[2]>>
BY DEF Lookups

LEMMA ResolvesMore ==
  ASSUME StoredOK, NEW m \in Nat, NEW f, Resolves(f, m), Restores(f)
  PROVE  \E g : Resolves(g, m + 1) /\ Restores(g)
<1> DEFINE g == [c \in Lookups |->
                   IF Level(c[2]) < m + 1 THEN ResolveMacro(f, c[1], c[2]) ELSE Failure(c[2])]
<1>1. \A v \in SUBSET Names : Level(v) \in Nat
  BY Levels
<1>2. \A c \in Lookups : Level(c[2]) < m => g[c] = f[c]
  <2>1. \A c \in Lookups : Level(c[2]) < m => Level(c[2]) < m + 1
    BY <1>1, LookupsAre
  <2> QED BY <2>1 DEF Resolves
<1>3. ASSUME NEW c \in Lookups, Level(c[2]) < m + 1
      PROVE  /\ ResolveMacro(f, c[1], c[2]) = ResolveMacro(g, c[1], c[2])
             /\ ResolveMacro(f, c[1], c[2]).visited = c[2]
  <2> DEFINE r == c[1]
             v == c[2]
  <2>1. r \in Refs /\ v \in SUBSET Names /\ Level(v) < m + 1
    BY <1>3, LookupsAre
  <2>2. ASSUME ~Refuses(r, v) PROVE AgreeAt(f, g, v \cup {r.to})
    <3>1. r.to \in DOMAIN stored \ v /\ v \cup {r.to} \in SUBSET Names
      BY <2>1, <2>2 DEF Refuses, StoredOK
    <3>2. Level(v \cup {r.to}) < m
      BY <1>1, <2>1, <3>1, Levels
    <3>3. \A q \in Refs : <<q, v \cup {r.to}>> \in Lookups
      BY <3>1 DEF Lookups
    <3> HIDE DEF g, r, v
    <3> QED BY <1>2, <3>2, <3>3 DEF AgreeAt
  <2> HIDE DEF g, r, v
  <2>3. /\ ResolveMacro(f, r, v) = ResolveMacro(g, r, v)
        /\ ResolveMacro(f, r, v).visited = v
    BY <2>1, <2>2, MacroAgrees
  <2> QED BY <2>3 DEF r, v
<1>4. ASSUME NEW c \in Lookups
      PROVE  /\ g[c] = IF Level(c[2]) < m + 1 THEN ResolveMacro(g, c[1], c[2]) ELSE Failure(c[2])
             /\ g[c].visited = c[2]
  <2>1. g[c] = IF Level(c[2]) < m + 1 THEN ResolveMacro(f, c[1], c[2]) ELSE Failure(c[2])
    OBVIOUS
  <2> HIDE DEF g
  <2> QED BY <1>3, <2>1 DEF Failure
<1>5. g = [c \in Lookups |-> g[c]]
  OBVIOUS
<1> HIDE DEF g
<1>6. Resolves(g, m + 1)
  BY <1>4, <1>5 DEF Resolves
<1>7. Restores(g)
  <2> SUFFICES ASSUME NEW r \in Refs, NEW v \in SUBSET Names PROVE g[<<r, v>>].visited = v
    BY DEF Restores
  <2>1. <<r, v>> \in Lookups /\ <<r, v>>[2] = v
    BY DEF Lookups
  <2> QED BY <1>4, <2>1
<1> QED BY <1>6, <1>7

LEMMA ResolveIs ==
  ASSUME StoredOK
  PROVE  Resolve = [c \in Lookups |-> ResolveMacro(Resolve, c[1], c[2])]
<1> DEFINE P(m) == \E f : Resolves(f, m) /\ Restores(f)
           S == {m \in Nat : P(m)}
<1>1. 0 \in S
  <2>1. PICK f : f = [c \in Lookups |-> Failure(c[2])]
    OBVIOUS
  <2>2. \A c \in Lookups : Level(c[2]) \in Nat /\ ~(Level(c[2]) < 0)
    BY LookupsAre, Levels
  <2>3. Resolves(f, 0)
    BY <2>1, <2>2 DEF Resolves
  <2>4. ASSUME NEW r \in Refs, NEW v \in SUBSET Names PROVE f[<<r, v>>].visited = v
    <3>1. <<r, v>> \in Lookups /\ <<r, v>>[2] = v
      BY DEF Lookups
    <3>2. f[<<r, v>>] = Failure(v)
      BY <2>1, <3>1
    <3> QED BY <3>2 DEF Failure
  <2>5. Restores(f)
    BY <2>4 DEF Restores
  <2> QED BY <2>3, <2>5
<1>2. ASSUME NEW m \in Nat, m \in S PROVE m + 1 \in S
  BY <1>2, ResolvesMore
<1>3. \A m \in Nat : m \in S
  <2> HIDE DEF S
  <2> QED BY <1>1, <1>2, Induction
<1>4. Rounds + 1 \in Nat /\ \A v \in SUBSET Names : Level(v) < Rounds + 1
  BY Levels
<1>5. PICK f : Resolves(f, Rounds + 1)
  BY <1>3, <1>4
<1>6. \A c \in Lookups : Level(c[2]) < Rounds + 1
  BY <1>4, LookupsAre
<1>7. f = [c \in Lookups |-> ResolveMacro(f, c[1], c[2])]
  BY <1>5, <1>6 DEF Resolves
<1> QED BY <1>7 DEF Resolve

-----------------------------------------------------------------------------
(* A lookup with m names left to mark agrees with the rounds from the mth   *)
(* on, except that it refuses what takes a marked name.                     *)

Fine(known, r, v) == r \in DOMAIN known /\ known[r].names \cap v = {}
Matches(known, r, v) ==
  LET val == Resolve[<<r, v>>]
  IN /\ val.visited = v
     /\ val.ok <=> Fine(known, r, v)
     /\ val.ok => val.text = Known(known, r, FormOf(v))
MatchesAt(known, v) == \A r \in Refs : Matches(known, r, v)

LEMMA TextMatches ==
  ASSUME NEW known, NEW v \in SUBSET Names, NEW text \in Written, MatchesAt(known, v)
  PROVE  /\ SubstituteAll(Resolve, text, v).visited = v
         /\ SubstituteAll(Resolve, text, v).ok <=> \A r \in References(text) : Fine(known, r, v)
         /\ SubstituteAll(Resolve, text, v).ok =>
              SubstituteAll(Resolve, text, v).text = Filled(known, text, FormOf(v))
<1> DEFINE F == Turns(Resolve, text, v)
           G == Filling(known, text, FormOf(v))
           Upto(n) == \A i \in 1..n : ~IsPlain(text[i]) => Fine(known, text[i], v)
           Good(n) == /\ F[n].visited = v
                      /\ F[n].ok <=> Upto(n)
                      /\ F[n].ok => F[n].text = G[n]
           S == {n \in Nat : n <= Len(text) => Good(n)}
<1>0. Len(text) \in Nat
  BY TextsAssumption
<1>1. /\ F = [i \in 0..Len(text) |-> IF i = 0 THEN Expansion(<<>>, v) ELSE Turn(Resolve, text[i], F[i - 1])]
      /\ G = [i \in 0..Len(text) |-> IF i = 0 THEN <<>> ELSE G[i - 1] \o Known(known, text[i], FormOf(v))]
  <2>1. TurnsOf(F, Resolve, text, v)
    BY TurnsAre
  <2>2. FillingOf(G, known, text, FormOf(v))
    BY FillingIs
  <2> HIDE DEF F, G
  <2>3. F = [i \in 0..Len(text) |-> IF i = 0 THEN Expansion(<<>>, v) ELSE Turn(Resolve, text[i], F[i - 1])]
    BY <2>1 DEF TurnsOf
  <2>4. G = [i \in 0..Len(text) |-> IF i = 0 THEN <<>> ELSE G[i - 1] \o Known(known, text[i], FormOf(v))]
    BY <2>2 DEF FillingOf
  <2> QED BY <2>3, <2>4
<1> HIDE DEF F, G
<1>2. 0 \in S
  <2>1. 0 \in 0..Len(text)
    BY <1>0
  <2>2. F[0] = Expansion(<<>>, v) /\ G[0] = <<>>
    BY <1>1, <2>1
  <2> QED BY <2>2 DEF Expansion
<1>3. ASSUME NEW n \in Nat, n \in S PROVE n + 1 \in S
  <2> SUFFICES ASSUME n + 1 <= Len(text) PROVE Good(n + 1)
    OBVIOUS
  <2>1. n + 1 \in 0..Len(text) /\ n + 1 \in 1..Len(text) /\ n <= Len(text) /\ n + 1 # 0 /\ (n + 1) - 1 = n
    BY <1>0
  <2>2. F[n + 1] = Turn(Resolve, text[n + 1], F[n]) /\ G[n + 1] = G[n] \o Known(known, text[n + 1], FormOf(v))
    BY <1>1, <2>1
  <2>3. Good(n)
    BY <1>3, <2>1
  <2> DEFINE x == text[n + 1]
  <2>4. ~IsPlain(x) => Matches(known, x, v)
    BY <2>1, PieceKinds DEF MatchesAt
  <2>5. 1..(n + 1) = 1..n \cup {n + 1}
    OBVIOUS
  <2>6. Upto(n + 1) <=> Upto(n) /\ (~IsPlain(x) => Fine(known, x, v))
    BY <2>5
  <2> HIDE DEF x, Upto
  <2>7. CASE ~F[n].ok
    <3>1. F[n + 1] = F[n]
      BY <2>2, <2>7 DEF Turn, x
    <3> QED BY <2>3, <2>6, <2>7, <3>1
  <2>8. CASE F[n].ok /\ IsPlain(x)
    <3> DEFINE whole == F[n].text \o x.with
    <3>1. F[n + 1] = Expansion(whole, v)
      BY <2>2, <2>3, <2>8 DEF Turn, x
    <3>2. G[n + 1] = G[n] \o x.with
      BY <2>2, <2>8 DEF Known, x
    <3>3. F[n].text = G[n]
      BY <2>3, <2>8
    <3>4. whole = G[n + 1]
      BY <3>2, <3>3
    <3> HIDE DEF whole
    <3>5. F[n + 1].ok /\ F[n + 1].visited = v /\ F[n + 1].text = whole
      BY <3>1, ExpansionParts
    <3> QED BY <2>3, <2>6, <2>8, <3>4, <3>5
  <2>9. CASE F[n].ok /\ ~IsPlain(x)
    <3> DEFINE val == Resolve[<<x, v>>]
               more == Known(known, x, FormOf(v))
    <3>1. val.visited = v /\ (val.ok <=> Fine(known, x, v)) /\ (val.ok => val.text = more)
      BY <2>4, <2>9 DEF Matches
    <3>2. F[n + 1] = IF val.ok THEN Expansion(F[n].text \o val.text, v) ELSE Failure(v)
      BY <2>2, <2>3, <2>9, <3>1 DEF Turn, x
    <3>3. G[n + 1] = G[n] \o more
      BY <2>2 DEF x
    <3> HIDE DEF val, more
    <3>4. CASE val.ok
      <4> DEFINE whole == F[n].text \o more
      <4>1. F[n + 1] = Expansion(whole, v)
        BY <3>1, <3>2, <3>4
      <4>2. F[n].text = G[n]
        BY <2>3, <2>9
      <4>3. whole = G[n + 1]
        BY <3>3, <4>2
      <4> HIDE DEF whole
      <4>4. F[n + 1].ok /\ F[n + 1].visited = v /\ F[n + 1].text = whole
        BY <4>1, ExpansionParts
      <4> QED BY <2>3, <2>6, <2>9, <3>1, <3>4, <4>3, <4>4
    <3>5. CASE ~val.ok
      BY <2>3, <2>6, <2>9, <3>1, <3>2, <3>5 DEF Failure
    <3> QED BY <3>4, <3>5
  <2> QED BY <2>7, <2>8, <2>9
<1>4. \A n \in Nat : n \in S
  <2> HIDE DEF S
  <2> QED BY <1>2, <1>3, Induction
<1>5. Good(Len(text))
  BY <1>0, <1>4
<1>6. Upto(Len(text)) <=> \A r \in References(text) : Fine(known, r, v)
  <2>1. DOMAIN text = 1..Len(text)
    BY TextsAssumption
  <2> QED BY <2>1 DEF References
<1> HIDE DEF Upto
<1> QED BY <1>5, <1>6 DEF F, G, SubstituteAll, Filled

\* One more name to mark, one more round.
LEMMA RoundMatches ==
  ASSUME StoredOK, NEW known, NEW r \in Refs, NEW v \in SUBSET Names,
         Refuses(r, v) \/ MatchesAt(known, v \cup {r.to})
  PROVE  Matches(Round(known), r, v)
<1> DEFINE val == Resolve[<<r, v>>]
           there == Round(known)
           w == v \cup {r.to}
<1>0. <<r, v>> \in Lookups /\ ~IsPlain(r)
  BY RefKinds DEF Lookups
<1>1. val = ResolveMacro(Resolve, r, v)
  BY <1>0, ResolveIs
<1>2. /\ DOMAIN there = {ref \in Refs : Ready(known, ref)}
      /\ r \in DOMAIN there => there[r] = Learn(known, r)
      /\ Known(there, r, FormOf(v)) = there[r][FormOf(v)]
  BY <1>0 DEF Round, Known
<1>3. FormOf(v) \in {"text", "shown"}
  BY DEF FormOf
<1> HIDE DEF val, there
<1>4. CASE r = Computed
  <2>1. val = IF computable THEN Expansion(ComputedValue, v) ELSE Failure(v)
    BY <1>1, <1>4 DEF ResolveMacro
  <2>2. Learn(known, r) = [text |-> ComputedValue, shown |-> ComputedValue, names |-> {}]
    BY <1>4 DEF Learn
  <2>3. r.to \notin DOMAIN stored
    BY <1>4, StoreNamesAssumption DEF Computed, StoredOK
  <2>4. Ready(known, r) <=> computable
    BY <1>4, <2>3 DEF Ready
  <2>5. CASE computable
    <3>1. val.ok /\ val.text = ComputedValue /\ val.visited = v
      BY <2>1, <2>5, ExpansionParts
    <3>2. r \in DOMAIN there /\ there[r].names = {} /\ there[r][FormOf(v)] = ComputedValue
      BY <1>2, <1>3, <2>2, <2>4, <2>5
    <3> QED BY <1>2, <3>1, <3>2 DEF Fine, Matches, val, there
  <2>6. CASE ~computable
    <3>1. val = Failure(v)
      BY <2>1, <2>6
    <3>2. ~Fine(there, r, v)
      BY <1>2, <2>4, <2>6 DEF Fine
    <3> QED BY <3>1, <3>2 DEF Failure, Matches, val, there
  <2> QED BY <2>5, <2>6
<1>5. ASSUME r # Computed
      PROVE  Learn(known, r) = [text |-> Stands(known, r, "text"), shown |-> Stands(known, r, "shown"),
                                names |-> {r.to} \cup NamesIn(known, Onward(r))]
  BY <1>5 DEF Learn
<1>6. CASE r # Computed /\ Refuses(r, v)
  <2>1. val = Failure(v)
    BY <1>1, <1>6 DEF ResolveMacro
  <2>2. ~Fine(there, r, v)
    <3>1. Ready(known, r) => r.to \in v
      BY <1>6 DEF Refuses, Ready
    <3>2. r \in DOMAIN there => r.to \in there[r].names
      BY <1>2, <1>5, <1>6
    <3> QED BY <1>2, <3>1, <3>2 DEF Fine
  <2> QED BY <2>1, <2>2 DEF Failure, Matches, val, there
<1>7. CASE r # Computed /\ ~Refuses(r, v)
  <2> DEFINE body == SubstituteAll(Resolve, stored[r.to], w)
             param == SubstituteAll(Resolve, r.with, w)
             fits == Param(known, r) = <<>> \/ FitsMessage(Message(known, r), Param(known, r))
  <2>1. /\ r.to \in DOMAIN stored /\ r.to \notin v /\ (r.with = <<>> \/ r.to \in AliasNames)
        /\ stored[r.to] \in Written /\ r.with \in Written /\ w \in SUBSET Names
    BY <1>7, RefKinds DEF Refuses, StoredOK, Written
  <2>2. MatchesAt(known, w) /\ FormOf(w) = "text"
    BY <1>7 DEF FormOf
  <2> HIDE DEF w
  <2>3. /\ body.visited = w
        /\ body.ok <=> \A q \in References(stored[r.to]) : Fine(known, q, w)
        /\ body.ok => body.text = Message(known, r)
    BY <2>1, <2>2, TextMatches DEF Message
  <2>4. /\ param.visited = w
        /\ param.ok <=> \A q \in References(r.with) : Fine(known, q, w)
        /\ param.ok => param.text = Param(known, r)
    BY <2>1, <2>2, TextMatches DEF Param
  <2>5. Forget(w, r.to) = v
    BY <2>1 DEF w, Forget
  <2>6. val = IF ~body.ok THEN Failure(v)
              ELSE IF ~param.ok THEN Failure(v)
              ELSE SetParam(body.text, param.text, v)
    <3> HIDE DEF body, param
    <3> QED BY <1>1, <1>7, <2>3, <2>4, <2>5 DEF ResolveMacro, w, body, param
  <2> HIDE DEF body, param
  <2>7. body.ok /\ param.ok <=> \A q \in Onward(r) : Fine(known, q, w)
    BY <2>3, <2>4 DEF Onward
  <2>8. (\A q \in Onward(r) : Fine(known, q, w)) /\ fits <=> Fine(there, r, v)
    <3>1. (\A q \in Onward(r) : Fine(known, q, w)) <=>
            Onward(r) \subseteq DOMAIN known /\ NamesIn(known, Onward(r)) \cap w = {}
      BY DEF Fine, NamesIn
    <3>2. NamesIn(known, Onward(r)) \cap w = {} <=>
            r.to \notin NamesIn(known, Onward(r)) /\ NamesIn(known, Onward(r)) \cap v = {}
      BY DEF w
    <3>3. Ready(known, r) <=>
            Onward(r) \subseteq DOMAIN known /\ r.to \notin NamesIn(known, Onward(r)) /\ fits
      BY <1>7, <2>1 DEF Ready
    <3>4. r \in DOMAIN there => there[r].names \cap v = NamesIn(known, Onward(r)) \cap v
      BY <1>2, <1>5, <1>7, <2>1
    <3> HIDE DEF fits
    <3> QED BY <1>2, <3>1, <3>2, <3>3, <3>4 DEF Fine
  <2>9. CASE body.ok /\ param.ok
    <3>1. val = SetParam(Message(known, r), Param(known, r), v)
      BY <2>3, <2>4, <2>6, <2>9
    <3>2. /\ val.visited = v
          /\ val.ok <=> fits
          /\ val.ok => val.text = Stands(known, r, FormOf(v))
      BY <3>1, ParamIsSet DEF Stands
    <3>3. val.ok <=> Fine(there, r, v)
      <4> HIDE DEF fits
      <4> QED BY <2>7, <2>8, <2>9, <3>2
    <3>4. r \in DOMAIN there => there[r][FormOf(v)] = Stands(known, r, FormOf(v))
      BY <1>2, <1>3, <1>5, <1>7
    <3>5. val.ok => val.text = there[r][FormOf(v)]
      BY <3>2, <3>3, <3>4 DEF Fine
    <3> QED BY <1>2, <3>2, <3>3, <3>5 DEF Matches, val, there
  <2>10. CASE ~(body.ok /\ param.ok)
    <3>1. val = Failure(v)
      BY <2>6, <2>10
    <3>2. ~Fine(there, r, v)
      BY <2>7, <2>8, <2>10
    <3> QED BY <3>1, <3>2 DEF Failure, Matches, val, there
  <2> QED BY <2>9, <2>10
<1> QED BY <1>4, <1>6, <1>7

LEMMA LookupsMatch ==
  ASSUME StoredOK
  PROVE  \A v \in SUBSET Names : \A k \in 0..Rounds : Level(v) <= k => MatchesAt(Learned[k], v)
<1> DEFINE P(m) == \A v \in SUBSET Names : \A k \in 0..Rounds :
                     Level(v) <= m /\ Level(v) <= k => MatchesAt(Learned[k], v)
           S == {m \in Nat : P(m)}
<1>0. Rounds \in Nat /\ \A v \in SUBSET Names : Level(v) \in Nat
  BY Levels
<1>1. \A k \in 0..Rounds : Learned[k] = Round(IF k = 0 THEN [r \in {} |-> {}] ELSE Learned[k - 1])
  BY <1>0, LearnedIs DEF LearnedOf
<1>2. ASSUME NEW v \in SUBSET Names, NEW k \in 0..Rounds, NEW r \in Refs, Level(v) <= k,
             NEW m \in Nat, Level(v) <= m, m = 0 \/ P(m - 1)
      PROVE  Matches(Learned[k], r, v)
  <2> DEFINE known == IF k = 0 THEN [q \in {} |-> {}] ELSE Learned[k - 1]
  <2>1. Learned[k] = Round(known)
    BY <1>1
  <2>2. ASSUME ~Refuses(r, v) PROVE MatchesAt(known, v \cup {r.to})
    <3>1. r.to \in DOMAIN stored \ v /\ v \cup {r.to} \in SUBSET Names
      BY <2>2 DEF Refuses, StoredOK
    <3>2. Level(v \cup {r.to}) \in Nat /\ Level(v) = Level(v \cup {r.to}) + 1
      BY <3>1, Levels
    <3>3. m # 0 /\ k # 0 /\ Level(v \cup {r.to}) <= m - 1 /\ Level(v \cup {r.to}) <= k - 1
      BY <1>0, <1>2, <3>2
    <3>4. P(m - 1) /\ k - 1 \in 0..Rounds
      BY <1>0, <1>2, <3>3
    <3>5. known = Learned[k - 1]
      BY <3>3
    <3> QED BY <3>1, <3>3, <3>4, <3>5
  <2>3. Refuses(r, v) \/ MatchesAt(known, v \cup {r.to})
    BY <2>2
  <2> HIDE DEF known
  <2>4. Matches(Round(known), r, v)
    BY <2>3, RoundMatches
  <2> QED BY <2>1, <2>4
<1>3. 0 \in S
  BY <1>2 DEF MatchesAt
<1>4. ASSUME NEW m \in Nat, m \in S PROVE m + 1 \in S
  <2>1. (m + 1) - 1 = m /\ m + 1 \in Nat /\ P(m)
    BY <1>4
  <2>2. P((m + 1) - 1)
    BY <2>1
  <2> HIDE DEF P
  <2>3. \A v \in SUBSET Names : \A k \in 0..Rounds :
          Level(v) <= m + 1 /\ Level(v) <= k => MatchesAt(Learned[k], v)
    BY <1>2, <2>1, <2>2 DEF MatchesAt
  <2> QED BY <2>1, <2>3 DEF P
<1>5. \A m \in Nat : m \in S
  <2> HIDE DEF S
  <2> QED BY <1>3, <1>4, Induction
<1>6. P(Rounds)
  BY <1>0, <1>5
<1> QED BY <1>6, Levels

LEMMA MacrosAreRight == ASSUME StoredOK PROVE ExpandsOrRefuses
<1> DEFINE known == Learned[Rounds]
<1>1. {} \in SUBSET Names /\ Level({}) = Rounds /\ Rounds \in 0..Rounds
  BY Levels
<1>2. MatchesAt(known, {})
  BY <1>1, LookupsMatch, Levels
<1> HIDE DEF known
<1>3. ASSUME NEW text \in Texts
      PROVE  /\ Substitute(text).ok <=> References(text) \subseteq DOMAIN known
             /\ Substitute(text).ok => Substitute(text).text = Filled(known, text, "shown")
             /\ Substitute(text).visited = {}
  <2>0. text \in Written /\ FormOf({}) = "shown"
    BY DEF Written, FormOf
  <2>1. Substitute(text) = SubstituteAll(Resolve, text, {})
    BY DEF Substitute
  <2>2. /\ Substitute(text).visited = {}
        /\ Substitute(text).ok <=> \A r \in References(text) : Fine(known, r, {})
        /\ Substitute(text).ok => Substitute(text).text = Filled(known, text, "shown")
    BY <1>1, <1>2, <2>0, <2>1, TextMatches
  <2>3. (\A r \in References(text) : Fine(known, r, {})) <=> References(text) \subseteq DOMAIN known
    BY DEF Fine
  <2> QED BY <2>2, <2>3
<1> QED BY <1>3 DEF ExpandsOrRefuses, known

\* Substitute (macros.go:135) expands a text to what the rounds know of it, or
\* refuses it when they never come to know all it refers to, for any store and
\* any texts: it refuses a macro without a value, one that comes back to its own
\* name, one that cannot be read or computed, and an alias whose parameter does
\* not fit its message, and nothing else.
THEOREM SubstituteIsRight == MacrosSpec => []ExpandsOrRefuses
<1>1. MacrosInit => StoredOK
  <2> SUFFICES ASSUME MacrosInit PROVE StoredOK
    OBVIOUS
  <2>1. DOMAIN stored = {}
    BY DEF MacrosInit
  <2> QED BY <2>1, FS_EmptySet DEF StoredOK
<1>2. StoredOK /\ [MacrosNext]_macroVars => StoredOK'
  <2> SUFFICES ASSUME StoredOK, [MacrosNext]_macroVars PROVE StoredOK'
    OBVIOUS
  <2>1. CASE UNCHANGED stored
    BY <2>1 DEF StoredOK
  <2>4. UNCHANGED macroVars \/ Turnover => UNCHANGED stored
    BY DEF macroVars, Turnover
  <2>2. ASSUME NEW n \in Names, Undefine(n) PROVE StoredOK'
    <3>1. DOMAIN stored' = DOMAIN stored \ {n} /\ \A m \in DOMAIN stored' : stored'[m] = stored[m]
      BY <2>2 DEF Undefine
    <3>2. IsFiniteSet(DOMAIN stored')
      BY <3>1, FS_RemoveElement DEF StoredOK
    <3> QED BY <3>1, <3>2 DEF StoredOK
  <2>3. ASSUME NEW n \in Names, NEW text \in Texts, Define(n, text) PROVE StoredOK'
    <3>1. /\ DOMAIN stored' = DOMAIN stored \cup {n}
          /\ \A m \in DOMAIN stored' : stored'[m] = IF m = n THEN text ELSE stored[m]
      BY <2>3 DEF Define
    <3>2. IsFiniteSet(DOMAIN stored')
      BY <3>1, FS_AddElement DEF StoredOK
    <3> QED BY <2>3, <3>1, <3>2 DEF StoredOK
  <2> QED BY <2>1, <2>4, <2>2, <2>3 DEF MacrosNext
<1>3. MacrosSpec => []StoredOK
  BY <1>1, <1>2, PTL DEF MacrosSpec
<1> QED BY <1>3, MacrosAreRight, PTL
==============================================================================
