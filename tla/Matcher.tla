------------------------------- MODULE Matcher -------------------------------
(***************************************************************************)
(* The expressions that wait and expect match messages with, as in         *)
(*   35=D & (11=ORD1 | 11=ORD2) & !39=4                                    *)
(* NewMatcher reads the tokens by recursive descent.  A node of the tree   *)
(* is represented by what its Match says: the messages it is true of.  The *)
(* reference is the grammar, read without a parser: every way to split the *)
(* tokens.  Parser and grammar are recursive functions, so that their      *)
(* agreement can be proved for expressions of any length.                  *)
(***************************************************************************)
EXTENDS Naturals, Sequences

CONSTANTS
  Messages,  \* the messages a matcher may be asked about
  Operands,  \* tokens of the form Tag=Value, with a number for a tag
  Having,    \* operand -> the messages that have Tag, first with Value
  Malformed, \* tokens that are neither operator nor operand
  MaxTokens  \* bound on the length of an expression

Operators == {"&", "|", "!", "(", ")"}

ASSUME HavingAssumption == Having \in [Operands -> SUBSET Messages]
ASSUME TokensAssumption ==
  Operands \cap Malformed = {} /\ Operators \cap (Operands \cup Malformed) = {}
ASSUME MaxTokensAssumption == MaxTokens \in Nat

VARIABLE tokens  \* what tokenize has read

MatcherInit == tokens = <<>>

\* tokenize: an operator is a token, and what stands between operators and
\* blanks is one.
Scan(t) == Len(tokens) < MaxTokens /\ tokens' = Append(tokens, t)

MatcherNext == \E t \in Operators \cup Operands \cup Malformed : Scan(t)

MatcherSpec == MatcherInit /\ [][MatcherNext]_tokens

-----------------------------------------------------------------------------
\* The parser.  What a rule returns: the node, and where the parser is then.

Positions == 1..(Len(tokens) + 1)
Peek(pos, t) == pos \in 1..Len(tokens) /\ tokens[pos] = t

Read(node, pos) == [ok |-> TRUE, node |-> node, pos |-> pos]
Error == [ok |-> FALSE, node |-> {}, pos |-> 1]

\* A call of a rule at a position.  The loops of parseTerm and parseExpression
\* count as calls, with the node they have built so far; parse is all of them.
Calls == {"factor", "term", "expression"} \X (SUBSET Messages) \X Positions

Factor(parse, pos) == parse[<<"factor", {}, pos>>]

Term(parse, pos) ==
  LET left == Factor(parse, pos)
  IN IF left.ok THEN parse[<<"term", left.node, left.pos>>] ELSE Error

Expression(parse, pos) ==
  LET left == Term(parse, pos)
  IN IF left.ok THEN parse[<<"expression", left.node, left.pos>>] ELSE Error

TermLoop(parse, left, pos) ==
  LET right == Factor(parse, pos + 1)
  IN IF ~Peek(pos, "&") THEN Read(left, pos)
     ELSE IF right.ok THEN parse[<<"term", left \cap right.node, right.pos>>] ELSE Error

ExpressionLoop(parse, left, pos) ==
  LET right == Term(parse, pos + 1)
  IN IF ~Peek(pos, "|") THEN Read(left, pos)
     ELSE IF right.ok THEN parse[<<"expression", left \cup right.node, right.pos>>] ELSE Error

ParseFactor(parse, pos) ==
  LET operand == Factor(parse, pos + 1)
      expr == Expression(parse, pos + 1)
  IN IF Peek(pos, "!")
     THEN IF operand.ok THEN Read(Messages \ operand.node, operand.pos) ELSE Error
     ELSE IF Peek(pos, "(")
     THEN IF expr.ok /\ Peek(expr.pos, ")") THEN Read(expr.node, expr.pos + 1) ELSE Error
     ELSE IF pos \in 1..Len(tokens) /\ tokens[pos] \in Operands
     THEN Read(Having[tokens[pos]], pos + 1) ELSE Error

Rule(parse, c) ==
  IF c[1] = "factor" THEN ParseFactor(parse, c[3])
  ELSE IF c[1] = "term" THEN TermLoop(parse, c[2], c[3])
  ELSE ExpressionLoop(parse, c[2], c[3])

Parse[c \in Calls] == Rule(Parse, c)

\* Mutations: what a slip in the code would turn a definition below into.
\* No specification uses them; each breaks a property of this module.

\* A parser that leaves tokens behind.
NewMatcherLax == IF tokens = <<>> THEN Error ELSE Expression(Parse, 1)

NewMatcher ==
  LET ast == Expression(Parse, 1)
  IN IF tokens # <<>> /\ ast.ok /\ ast.pos = Len(tokens) + 1 THEN ast ELSE Error

-----------------------------------------------------------------------------
\* The grammar, with what the tokens from one position up to another say:
\*   Or  ::= And | Or "|" And      And ::= Not | And "&" Not
\*   Not ::= operand | "!" Not | "(" Or ")"

Spans == {"Not", "And", "Or"} \X Positions \X Positions

At(t, from, to) == {k \in from..(to - 1) : tokens[k] = t}

OrMeans(means, from, to) ==
  means[<<"And", from, to>>] \cup
  UNION {{x \cup y : x \in means[<<"Or", from, k>>], y \in means[<<"And", k + 1, to>>]} :
           k \in At("|", from, to)}

AndMeans(means, from, to) ==
  means[<<"Not", from, to>>] \cup
  UNION {{x \cap y : x \in means[<<"And", from, k>>], y \in means[<<"Not", k + 1, to>>]} :
           k \in At("&", from, to)}

NotMeans(means, from, to) ==
  IF to = from + 1
  THEN IF tokens[from] \in Operands THEN {Having[tokens[from]]} ELSE {}
  ELSE IF to > from + 1 /\ tokens[from] = "!"
  THEN {Messages \ x : x \in means[<<"Not", from + 1, to>>]}
  ELSE IF to > from + 1 /\ tokens[from] = "(" /\ tokens[to - 1] = ")"
  THEN means[<<"Or", from + 1, to - 1>>]
  ELSE {}

Meaning(means, s) ==
  IF s[1] = "Not" THEN NotMeans(means, s[2], s[3])
  ELSE IF s[1] = "And" THEN AndMeans(means, s[2], s[3])
  ELSE OrMeans(means, s[2], s[3])

Means[s \in Spans] == Meaning(Means, s)

\* NewMatcher accepts an expression exactly when the grammar derives it, and
\* the matcher it builds is true of the messages the expression means:
\* precedence, grouping, double negation and what is left over at the end.
MatchesGrammar ==
  Means[<<"Or", 1, Len(tokens) + 1>>] = IF NewMatcher.ok THEN {NewMatcher.node} ELSE {}
=============================================================================
