--------------------------- MODULE ScriptFlowProofs ---------------------------
(***************************************************************************)
(* Proofs about ScriptFlow for scripts of any length: first that control   *)
(* stays inside the script and every jump is found, then that parser and   *)
(* interpreter implement the nested blocks of BlockFlow.                   *)
(***************************************************************************)
EXTENDS ScriptFlow, FiniteSetTheorems, WellFoundedInduction, TLAPS

-----------------------------------------------------------------------------
(* The inductive invariant. *)

\* What the parser keeps, apart from the order of it.
ParserTypes ==
  /\ code \in Seq(Kinds) /\ stack \in Seq(1..Len(code)) /\ whiles \in Seq(1..Len(code))
  /\ breaks \in Seq([level : Nat, pc : 1..Len(code)])
  /\ DOMAIN jumps \subseteq 1..Len(code)
  /\ jumps \in [DOMAIN jumps -> [onFalse : 1..Len(code), onEnd : 1..Len(code)]]

\* A frame of the stack is an if, a while, or a clause on top of its chain.
Nested ==
  /\ Rising(stack)
  /\ \A i \in DOMAIN stack : code[stack[i]] \in {"if", "while", "elif", "else"}
  /\ \A i \in DOMAIN stack : code[stack[i]] \in {"elif", "else"} =>
       i > 1 /\ code[stack[i - 1]] \in {"if", "elif"}

\* The loops are those of the stack, the breaks of the innermost come last.
Loops ==
  /\ Rising(whiles) /\ Elements(whiles) = {p \in Elements(stack) : code[p] = "while"}
  /\ \A i \in DOMAIN breaks :
       breaks[i].level \in 1..Len(whiles) /\ whiles[breaks[i].level] < breaks[i].pc
  /\ \A i, j \in DOMAIN breaks : i <= j => breaks[i].level <= breaks[j].level

\* What has no entry yet is open, or a break of an open loop.
NoEntry == {"cmd", "endif", "exit"}
Entries ==
  \A i \in DOMAIN code : code[i] \notin NoEntry =>
    i \in DOMAIN jumps \cup Elements(stack) \cup {breaks[j].pc : j \in DOMAIN breaks}

FlowInv ==
  /\ phase \in {"reading", "running", "syntax", "ok", "falsy", "failed", "cancelled"}
  /\ pc \in 1..(Len(code) + 1) /\ justJumped \in BOOLEAN /\ cancelled \in BOOLEAN
  /\ phase \notin {"reading", "syntax"} => stack = <<>>
  /\ ParserTypes /\ Nested /\ Loops /\ (phase # "syntax" => Entries)

-----------------------------------------------------------------------------
(* Sequences. *)

LEMMA LeastElement ==
  ASSUME NEW S \in SUBSET Nat, S # {}
  PROVE  \E x \in S : \A y \in S : x <= y
<1> DEFINE R == OpToRel(<, Nat)
<1>1. IsWellFoundedOn(R, Nat)
  BY NatLessThanWellFounded
<1>2. \A x, y \in Nat : y < x => <<y, x>> \in R
  BY DEF OpToRel
<1> HIDE DEF R
<1>3. PICK x \in S : \A y \in S : ~(<<y, x>> \in R)
  BY <1>1, WFMin
<1>4. \A y \in S : ~(y < x)
  BY <1>2, <1>3
<1> QED BY <1>4

LEMMA AppendFacts ==
  ASSUME NEW S, NEW q \in Seq(S), NEW e \in S
  PROVE  /\ Append(q, e) \in Seq(S) /\ Len(q) \in Nat /\ Len(Append(q, e)) = Len(q) + 1
         /\ DOMAIN q = 1..Len(q) /\ DOMAIN Append(q, e) = 1..(Len(q) + 1)
         /\ \A i \in 1..Len(q) : Append(q, e)[i] = q[i]
         /\ Append(q, e)[Len(q) + 1] = e
OBVIOUS

LEMMA AppendElements ==
  ASSUME NEW S, NEW q \in Seq(S), NEW e \in S
  PROVE  Elements(Append(q, e)) = Elements(q) \cup {e}
<1> DEFINE r == Append(q, e)
<1>1. /\ DOMAIN r = 1..(Len(q) + 1) /\ DOMAIN q = 1..Len(q)
      /\ Len(q) \in Nat /\ r[Len(q) + 1] = e
  BY AppendFacts
<1>2. \A i \in 1..Len(q) : r[i] = q[i]
  BY AppendFacts
<1> HIDE DEF r
<1>3. Elements(r) = Elements(q) \cup {e}
  BY <1>1, <1>2 DEF Elements
<1> QED BY <1>3 DEF r

LEMMA PrefixFacts ==
  ASSUME NEW S, NEW q \in Seq(S), NEW n \in 0..Len(q)
  PROVE  /\ SubSeq(q, 1, n) \in Seq(S) /\ Len(q) \in Nat /\ n \in Nat /\ n <= Len(q)
         /\ Len(SubSeq(q, 1, n)) = n
         /\ DOMAIN q = 1..Len(q) /\ DOMAIN SubSeq(q, 1, n) = 1..n
         /\ \A i \in 1..n : SubSeq(q, 1, n)[i] = q[i] /\ i \in 1..Len(q)
<1>1. Len(q) \in Nat /\ DOMAIN q = 1..Len(q) /\ n \in Nat /\ n <= Len(q)
  OBVIOUS
<1>2. /\ SubSeq(q, 1, n) \in Seq(S) /\ Len(SubSeq(q, 1, n)) = n
      /\ \A i \in 1..n : SubSeq(q, 1, n)[i] = q[i] /\ i \in 1..Len(q)
  BY <1>1
<1>3. DOMAIN SubSeq(q, 1, n) = 1..Len(SubSeq(q, 1, n))
  BY <1>2
<1> QED BY <1>1, <1>2, <1>3

LEMMA FrontFacts ==
  ASSUME NEW S, NEW q \in Seq(S), Len(q) - 1 \in 0..Len(q)
  PROVE  /\ Front(q) \in Seq(S) /\ DOMAIN Front(q) = 1..(Len(q) - 1)
         /\ \A i \in 1..(Len(q) - 1) : Front(q)[i] = q[i]
<1>1. PICK n \in 0..Len(q) : n = Len(q) - 1
  OBVIOUS
<1>2. /\ SubSeq(q, 1, n) \in Seq(S) /\ DOMAIN SubSeq(q, 1, n) = 1..n
      /\ \A i \in 1..n : SubSeq(q, 1, n)[i] = q[i]
  BY PrefixFacts
<1> QED BY <1>1, <1>2 DEF Front

LEMMA SeqMonotone ==
  ASSUME NEW S, NEW T, S \subseteq T, NEW q \in Seq(S)
  PROVE  q \in Seq(T)
OBVIOUS

\* Rising sequences of numbers.
LEMMA RisingAppend ==
  ASSUME NEW m \in Nat, NEW q \in Seq(1..m), Rising(q), NEW e \in Nat, m < e
  PROVE  Rising(Append(q, e))
<1> DEFINE r == Append(q, e)
<1>1. q \in Seq(Nat)
  OBVIOUS
<1>2. /\ DOMAIN r = 1..(Len(q) + 1) /\ DOMAIN q = 1..Len(q)
      /\ Len(q) \in Nat /\ r[Len(q) + 1] = e
  BY <1>1, AppendFacts
<1>3. \A i \in 1..Len(q) : r[i] = q[i] /\ q[i] \in 1..m
  BY <1>1, AppendFacts
<1> HIDE DEF r
<1>4. ASSUME NEW i \in DOMAIN r, NEW j \in DOMAIN r, i < j PROVE r[i] < r[j]
  <2>1. i \in 1..Len(q)
    BY <1>2, <1>4
  <2>2. CASE j = Len(q) + 1
    BY <1>2, <1>3, <2>1, <2>2
  <2>3. CASE j \in 1..Len(q)
    BY <1>2, <1>3, <1>4, <2>1, <2>3 DEF Rising
  <2> QED BY <1>2, <2>2, <2>3
<1> QED BY <1>4 DEF Rising, r

LEMMA RisingPrefix ==
  ASSUME NEW q \in Seq(Nat), Rising(q), NEW n \in 0..Len(q)
  PROVE  /\ Rising(SubSeq(q, 1, n)) /\ Elements(SubSeq(q, 1, n)) \subseteq Elements(q)
         /\ Elements(q) \ Elements(SubSeq(q, 1, n)) = {q[i] : i \in (n + 1)..Len(q)}
<1> DEFINE r == SubSeq(q, 1, n)
<1>1. Len(q) \in Nat /\ n \in Nat /\ n <= Len(q) /\ DOMAIN q = 1..Len(q) /\ DOMAIN r = 1..n
  BY PrefixFacts
<1>2. \A i \in 1..n : r[i] = q[i] /\ i \in 1..Len(q)
  BY PrefixFacts
<1> HIDE DEF r
<1>3. Rising(r)
  BY <1>1, <1>2 DEF Rising
<1>4. Elements(r) \subseteq Elements(q)
  BY <1>1, <1>2 DEF Elements
<1>5. ASSUME NEW i \in (n + 1)..Len(q) PROVE q[i] \in Elements(q) \ Elements(r)
  <2>1. i \in 1..Len(q) /\ \A j \in 1..n : j < i /\ j \in 1..Len(q)
    BY <1>1
  <2>2. \A j \in 1..n : q[j] < q[i] /\ q[j] \in Nat /\ q[i] \in Nat
    BY <1>1, <2>1 DEF Rising
  <2>3. \A j \in 1..n : r[j] # q[i]
    BY <1>2, <2>2
  <2> QED BY <1>1, <2>1, <2>3 DEF Elements
<1>6. ASSUME NEW x \in Elements(q) \ Elements(r) PROVE x \in {q[i] : i \in (n + 1)..Len(q)}
  <2>1. PICK i \in 1..Len(q) : x = q[i]
    BY <1>1 DEF Elements
  <2>2. i \notin 1..n
    BY <1>1, <1>2, <1>6, <2>1 DEF Elements
  <2> QED BY <1>1, <2>1, <2>2
<1> QED BY <1>3, <1>4, <1>5, <1>6 DEF r

LEMMA LastFacts ==
  ASSUME NEW q \in Seq(Nat), Rising(q), q # <<>>
  PROVE  /\ Len(q) \in Nat \ {0} /\ Len(q) - 1 \in 0..Len(q) /\ Last(q) \in Elements(q)
         /\ \A x \in Elements(q) : x <= Last(q)
         /\ Rising(Front(q)) /\ Front(q) \in Seq(Nat) /\ Len(Front(q)) = Len(q) - 1
         /\ Elements(Front(q)) = Elements(q) \ {Last(q)}
<1>1. Len(q) \in Nat \ {0} /\ DOMAIN q = 1..Len(q) /\ Len(q) - 1 \in 0..Len(q)
  OBVIOUS
<1>2. Last(q) = q[Len(q)] /\ q[Len(q)] \in Nat /\ Last(q) \in Elements(q)
  BY <1>1 DEF Last, Elements
<1>3. ASSUME NEW i \in 1..Len(q) PROVE q[i] <= Last(q)
  <2>1. CASE i = Len(q)
    BY <1>2, <2>1
  <2>2. CASE i < Len(q)
    BY <1>1, <1>2, <2>2 DEF Rising
  <2>3. i = Len(q) \/ i < Len(q)
    <3>1. Len(q) \in Int /\ i \in Int /\ i <= Len(q)
      BY <1>1
    <3> QED BY <3>1
  <2> QED BY <2>1, <2>2, <2>3
<1>4. \A x \in Elements(q) : x <= Last(q)
  BY <1>1, <1>3 DEF Elements
<1>5. /\ Rising(Front(q)) /\ Elements(Front(q)) \subseteq Elements(q)
      /\ Elements(q) \ Elements(Front(q)) = {q[i] : i \in (Len(q) - 1 + 1)..Len(q)}
  BY <1>1, RisingPrefix DEF Front
<1>6. {q[i] : i \in (Len(q) - 1 + 1)..Len(q)} = {Last(q)}
  BY <1>1, <1>2
<1>7. Front(q) \in Seq(Nat) /\ Len(Front(q)) = Len(q) - 1
  BY <1>1, PrefixFacts DEF Front
<1> QED BY <1>1, <1>2, <1>4, <1>5, <1>6, <1>7

-----------------------------------------------------------------------------
(* The parser: what one more line changes. *)

Target == [onFalse : 1..Here, onEnd : 1..Here]

\* The invariant of the parser, for the step to come.
LEMMA Grows ==
  ASSUME ParserTypes, NEW k \in Kinds, code' = Append(code, k)
  PROVE  /\ Len(code) \in Nat /\ Here \in Nat /\ Here = Len(code) + 1 /\ Len(code') = Here
         /\ code' \in Seq(Kinds) /\ DOMAIN code = 1..Len(code) /\ DOMAIN code' = 1..Here
         /\ code'[Here] = k /\ \A i \in 1..Len(code) : code'[i] = code[i]
         /\ 1..Len(code) \subseteq 1..Here /\ Here \in 1..Here /\ 1 \in 1..Here /\ Here \notin 1..Len(code)
         /\ stack \in Seq(1..Here) /\ whiles \in Seq(1..Here)
         /\ breaks \in Seq([level : Nat, pc : 1..Here])
         /\ DOMAIN jumps \subseteq 1..Here /\ jumps \in [DOMAIN jumps -> Target]
         /\ Elements(stack) \subseteq 1..Len(code)
<1>1. code \in Seq(Kinds)
  BY DEF ParserTypes
<1>2. /\ Len(code) \in Nat /\ Len(code') = Len(code) + 1 /\ code' \in Seq(Kinds)
      /\ DOMAIN code = 1..Len(code) /\ DOMAIN code' = 1..(Len(code) + 1)
      /\ code'[Len(code) + 1] = k
  BY <1>1, AppendFacts
<1>3. \A i \in 1..Len(code) : code'[i] = code[i]
  BY <1>1, AppendFacts
<1>4. /\ Here = Len(code) + 1 /\ Here \in Nat
      /\ 1..Len(code) \subseteq 1..Here /\ Here \in 1..Here /\ 1 \in 1..Here /\ Here \notin 1..Len(code)
  BY <1>2 DEF Here
<1>5. stack \in Seq(1..Here) /\ whiles \in Seq(1..Here)
  BY <1>4 DEF ParserTypes
<1>6. breaks \in Seq([level : Nat, pc : 1..Here])
  <2> DEFINE B == [level : Nat, pc : 1..Len(code)]
             C == [level : Nat, pc : 1..Here]
  <2>1. B \subseteq C
    BY <1>4
  <2>2. breaks \in Seq(B)
    BY DEF ParserTypes
  <2> HIDE DEF B, C
  <2>3. breaks \in Seq(C)
    BY <2>1, <2>2, SeqMonotone
  <2> QED BY <2>3 DEF C
<1>7. DOMAIN jumps \subseteq 1..Here /\ jumps \in [DOMAIN jumps -> Target]
  <2>1. [onFalse : 1..Len(code), onEnd : 1..Len(code)] \subseteq Target
    BY <1>4 DEF Target
  <2> QED BY <1>4, <2>1 DEF ParserTypes
<1>8. Elements(stack) \subseteq 1..Len(code)
  BY DEF Elements, ParserTypes
<1> QED BY <1>2, <1>3, <1>4, <1>5, <1>6, <1>7, <1>8

\* Patching keeps what is there, and adds.
LEMMA PatchedType ==
  ASSUME ParserTypes, NEW k \in Kinds, code' = Append(code, k),
         NEW D, D \subseteq 1..Here, NEW new \in [D -> Target], jumps' = Patched(new)
  PROVE  /\ DOMAIN jumps' = DOMAIN jumps \cup D /\ DOMAIN jumps' \subseteq 1..Here
         /\ jumps' \in [DOMAIN jumps' -> Target]
<1>1. DOMAIN jumps \subseteq 1..Here /\ jumps \in [DOMAIN jumps -> Target]
  BY Grows
<1>2. DOMAIN new = D
  OBVIOUS
<1>3. DOMAIN jumps' = DOMAIN jumps \cup D
  BY <1>2 DEF Patched
<1>4. \A p \in DOMAIN jumps \cup D : jumps'[p] \in Target
  BY <1>1, <1>2 DEF Patched
<1>5. jumps' = [p \in DOMAIN jumps \cup D |-> jumps'[p]]
  BY <1>2 DEF Patched
<1> HIDE DEF Target
<1> QED BY <1>1, <1>3, <1>4, <1>5

LEMMA EntryType ==
  ASSUME ParserTypes, NEW k \in Kinds, code' = Append(code, k), NEW p
  PROVE  /\ Entry(p) \in Target /\ Zero \in Target
         /\ \A t \in 1..Here : /\ [Zero EXCEPT !.onFalse = t] \in Target
                               /\ [Zero EXCEPT !.onEnd = t] \in Target
                               /\ [Entry(p) EXCEPT !.onFalse = t] \in Target
<1>1. 1 \in 1..Here /\ jumps \in [DOMAIN jumps -> Target]
  BY Grows
<1>2. Zero \in Target
  BY <1>1 DEF Zero, Target
<1>3. Entry(p) \in Target
  BY <1>1, <1>2 DEF Entry
<1>4. \A e \in Target, t \in 1..Here : [e EXCEPT !.onFalse = t] \in Target /\ [e EXCEPT !.onEnd = t] \in Target
  BY DEF Target
<1> HIDE DEF Target
<1> QED BY <1>2, <1>3, <1>4

\* The open block a chain belongs to: everything above its if is a clause.
LEMMA IfFrame ==
  ASSUME ParserTypes, Nested, Top \in {"if", "elif", "else"}
  PROVE  \E i \in 1..Len(stack) :
           /\ code[stack[i]] = "if"
           /\ \A j \in (i + 1)..Len(stack) : code[stack[j]] \in {"elif", "else"}
<1>1. Len(stack) \in Nat /\ DOMAIN stack = 1..Len(stack) /\ stack # <<>>
  BY DEF ParserTypes, Top
<1>2. Len(stack) >= 1 /\ Top = code[stack[Len(stack)]]
  <2>1. stack = <<>> \/ Len(stack) >= 1
    BY DEF ParserTypes
  <2> QED BY <1>1, <2>1 DEF Top, Last
<1> DEFINE T == {i \in 1..Len(stack) : \A j \in i..Len(stack) : code[stack[j]] \in {"elif", "else"}}
<1>3. CASE T = {}
  <2>1. Len(stack) \notin T /\ Len(stack) \in 1..Len(stack) /\ Len(stack)..Len(stack) = {Len(stack)}
    BY <1>1, <1>2, <1>3
  <2>2. Top \notin {"elif", "else"}
    BY <1>2, <2>1
  <2>3. (Len(stack) + 1)..Len(stack) = {}
    BY <1>1
  <2> QED BY <1>2, <2>1, <2>2, <2>3
<1>4. CASE T # {}
  <2>1. PICK t \in T : \A u \in T : t <= u
    <3>1. T \in SUBSET Nat
      BY <1>1
    <3> QED BY <1>4, <3>1, LeastElement
  <2>2. t \in 1..Len(stack) /\ \A j \in t..Len(stack) : code[stack[j]] \in {"elif", "else"}
    OBVIOUS
  <2>3. t > 1 /\ code[stack[t - 1]] \in {"if", "elif"}
    <3>1. t \in t..Len(stack)
      BY <1>1, <2>2
    <3> QED BY <1>1, <2>2, <3>1 DEF Nested
  <2>4. t - 1 \in 1..Len(stack) /\ (t - 1)..Len(stack) = {t - 1} \cup t..Len(stack) /\ (t - 1) + 1 = t
    BY <1>1, <2>2, <2>3
  <2>5. code[stack[t - 1]] # "elif"
    <3>1. t - 1 \notin T
      BY <1>1, <2>1, <2>2
    <3> QED BY <2>2, <2>4, <3>1
  <2> QED BY <2>2, <2>3, <2>4, <2>5
<1> QED BY <1>3, <1>4

\* The frame EndIf goes back to.
FirstIf == CHOOSE i \in DOMAIN stack :
  /\ code[stack[i]] = "if"
  /\ \A j \in (i + 1)..Len(stack) : code[stack[j]] # "if"

LEMMA FirstIfFacts ==
  ASSUME ParserTypes, Nested, Top \in {"if", "elif", "else"}
  PROVE  /\ FirstIf \in 1..Len(stack) /\ code[stack[FirstIf]] = "if"
         /\ \A j \in (FirstIf + 1)..Len(stack) : code[stack[j]] \in {"elif", "else"}
<1>1. PICK i \in 1..Len(stack) :
        /\ code[stack[i]] = "if"
        /\ \A j \in (i + 1)..Len(stack) : code[stack[j]] \in {"elif", "else"}
  BY IfFrame
<1>2. Len(stack) \in Nat /\ DOMAIN stack = 1..Len(stack)
  BY DEF ParserTypes
<1>3. \E f \in DOMAIN stack :
        /\ code[stack[f]] = "if"
        /\ \A j \in (f + 1)..Len(stack) : code[stack[j]] # "if"
  BY <1>1, <1>2
<1>4. /\ FirstIf \in 1..Len(stack) /\ code[stack[FirstIf]] = "if"
      /\ \A j \in (FirstIf + 1)..Len(stack) : code[stack[j]] # "if"
  BY <1>2, <1>3 DEF FirstIf
<1> HIDE DEF FirstIf
<1>5. ~(FirstIf < i) /\ ~(i < FirstIf)
  <2>1. FirstIf < i => i \in (FirstIf + 1)..Len(stack)
    BY <1>2, <1>4
  <2>2. i < FirstIf => FirstIf \in (i + 1)..Len(stack)
    BY <1>2, <1>4
  <2> QED BY <1>1, <1>4, <2>1, <2>2
<1>6. FirstIf = i
  BY <1>2, <1>4, <1>5
<1> QED BY <1>1, <1>6

\* A loop that is closed is the innermost one, and the last of whilePCs.
LEMMA TopWhile ==
  ASSUME ParserTypes, Nested, Loops, Top = "while"
  PROVE  /\ stack # <<>> /\ whiles # <<>> /\ Last(whiles) = Last(stack)
         /\ stack \in Seq(Nat) /\ whiles \in Seq(Nat)
<1>1. stack # <<>> /\ stack \in Seq(Nat) /\ whiles \in Seq(Nat) /\ code[Last(stack)] = "while"
  BY DEF Top, ParserTypes
<1>2. Last(stack) \in Elements(stack) /\ \A x \in Elements(stack) : x <= Last(stack)
  BY <1>1, LastFacts DEF Nested
<1>3. Last(stack) \in Elements(whiles)
  BY <1>1, <1>2 DEF Loops
<1>4. whiles # <<>>
  BY <1>3 DEF Elements
<1>5. Last(whiles) \in Elements(whiles) /\ \A x \in Elements(whiles) : x <= Last(whiles)
  BY <1>1, <1>4, LastFacts DEF Loops
<1>6. Last(whiles) \in Elements(stack)
  BY <1>5 DEF Loops
<1>7. Last(whiles) \in Nat /\ Last(stack) \in Nat
  BY <1>1, <1>2, <1>6 DEF Elements
<1>8. Last(whiles) <= Last(stack) /\ Last(stack) <= Last(whiles)
  BY <1>2, <1>3, <1>5, <1>6
<1> QED BY <1>1, <1>4, <1>7, <1>8

\* The breaks of the loop that is closed come last.
LEMMA OuterBreaksFacts ==
  ASSUME ParserTypes, Loops, whiles # <<>>
  PROVE  /\ OuterBreaks \in 0..Len(breaks)
         /\ \A i \in 1..OuterBreaks : breaks[i].level \in 1..(Len(whiles) - 1)
         /\ \A i \in (OuterBreaks + 1)..Len(breaks) : breaks[i].level = Len(whiles)
<1>1. /\ Len(breaks) \in Nat /\ DOMAIN breaks = 1..Len(breaks) /\ Len(whiles) \in Nat
      /\ \A i \in 1..Len(breaks) : breaks[i].level \in Nat
  <2> DEFINE B == [level : Nat, pc : 1..Len(code)]
  <2>1. breaks \in Seq(B) /\ whiles \in Seq(1..Len(code)) /\ \A b \in B : b.level \in Nat
    BY DEF ParserTypes
  <2> HIDE DEF B
  <2> QED BY <2>1
<1> DEFINE T == {n \in 0..Len(breaks) : \A i \in (n + 1)..Len(breaks) : breaks[i].level >= Len(whiles)}
<1>2. Len(breaks) \in T
  <2>1. (Len(breaks) + 1)..Len(breaks) = {} /\ Len(breaks) \in 0..Len(breaks)
    BY <1>1
  <2> QED BY <2>1
<1>3. PICK t \in T : \A u \in T : t <= u
  <2>1. T \in SUBSET Nat /\ T # {}
    BY <1>1, <1>2
  <2> QED BY <2>1, LeastElement
<1>4. t = 0 \/ breaks[t].level < Len(whiles)
  <2> SUFFICES ASSUME t # 0 PROVE breaks[t].level < Len(whiles)
    OBVIOUS
  <2>1. t \in 1..Len(breaks) /\ t - 1 \in 0..Len(breaks) /\ t - 1 \notin T
    <3>1. t \in 0..Len(breaks)
      OBVIOUS
    <3>2. t \in 1..Len(breaks) /\ t - 1 \in 0..Len(breaks) /\ ~(t <= t - 1)
      BY <1>1, <3>1
    <3> QED BY <1>3, <3>2
  <2>2. ((t - 1) + 1)..Len(breaks) = {t} \cup (t + 1)..Len(breaks)
    BY <1>1, <2>1
  <2>3. ~(breaks[t].level >= Len(whiles))
    BY <2>1, <2>2
  <2> QED BY <1>1, <2>1, <2>3
<1>5. \E n \in 0..Len(breaks) :
        /\ n = 0 \/ breaks[n].level < Len(whiles)
        /\ \A i \in (n + 1)..Len(breaks) : breaks[i].level >= Len(whiles)
  BY <1>4
<1>6. /\ OuterBreaks \in 0..Len(breaks) /\ (OuterBreaks = 0 \/ breaks[OuterBreaks].level < Len(whiles))
      /\ \A i \in (OuterBreaks + 1)..Len(breaks) : breaks[i].level >= Len(whiles)
  BY <1>5 DEF OuterBreaks
<1> HIDE DEF OuterBreaks
<1>7. ASSUME NEW i \in 1..OuterBreaks PROVE breaks[i].level \in 1..(Len(whiles) - 1)
  <2>1. i \in 1..Len(breaks) /\ OuterBreaks \in 1..Len(breaks) /\ i <= OuterBreaks /\ OuterBreaks # 0
    BY <1>1, <1>6
  <2>2. breaks[i].level <= breaks[OuterBreaks].level /\ breaks[i].level \in 1..Len(whiles)
    BY <1>1, <2>1 DEF Loops
  <2> QED BY <1>1, <1>6, <2>1, <2>2
<1>8. ASSUME NEW i \in (OuterBreaks + 1)..Len(breaks) PROVE breaks[i].level = Len(whiles)
  <2>1. i \in 1..Len(breaks) /\ breaks[i].level >= Len(whiles)
    BY <1>1, <1>6
  <2>2. breaks[i].level \in 1..Len(whiles)
    BY <1>1, <2>1 DEF Loops
  <2> QED BY <1>1, <2>1, <2>2
<1> QED BY <1>6, <1>7, <1>8

-----------------------------------------------------------------------------
(* The parser, line by line. *)

ReadInv == ParserTypes /\ Nested /\ Loops /\ Entries

LEMMA NestedPrefix ==
  ASSUME ParserTypes, Nested, NEW k \in Kinds, code' = Append(code, k),
         Len(stack') \in 0..Len(stack), DOMAIN stack' = 1..Len(stack'),
         \A i \in 1..Len(stack') : stack'[i] = stack[i]
  PROVE  Nested'
<1>1. /\ Len(stack) \in Nat /\ DOMAIN stack = 1..Len(stack)
      /\ \A i \in 1..Len(stack) : stack[i] \in 1..Len(code) /\ code'[stack[i]] = code[stack[i]]
  <2>1. \A i \in 1..Len(stack) : stack[i] \in 1..Len(code)
    BY DEF ParserTypes
  <2> QED BY <2>1, Grows DEF ParserTypes
<1>2. 1..Len(stack') \subseteq 1..Len(stack) /\ \A i \in 1..Len(stack') : i > 1 => i - 1 \in 1..Len(stack')
  BY <1>1
<1>3. Rising(stack)'
  BY <1>1, <1>2 DEF Nested, Rising
<1>4. \A i \in DOMAIN stack' : code'[stack'[i]] \in {"if", "while", "elif", "else"}
  BY <1>1, <1>2 DEF Nested
<1>5. \A i \in DOMAIN stack' : code'[stack'[i]] \in {"elif", "else"} =>
        i > 1 /\ code'[stack'[i - 1]] \in {"if", "elif"}
  BY <1>1, <1>2 DEF Nested
<1> QED BY <1>3, <1>4, <1>5 DEF Nested

LEMMA NestedPush ==
  ASSUME ParserTypes, Nested, NEW k \in Kinds, code' = Append(code, k),
         stack' = Append(stack, Here),
         k \in {"if", "while"} \/ (k \in {"elif", "else"} /\ Top \in {"if", "elif"})
  PROVE  Nested' /\ stack' \in Seq(1..Here) /\ Elements(stack)' = Elements(stack) \cup {Here}
<1>0. Here \in 1..Here /\ Here \in Nat /\ Here = Len(code) + 1 /\ Len(code) \in Nat /\ stack \in Seq(1..Here)
  BY Grows
<1>1. /\ Len(stack) \in Nat /\ DOMAIN stack = 1..Len(stack) /\ DOMAIN stack' = 1..(Len(stack) + 1)
      /\ stack' \in Seq(1..Here) /\ stack'[Len(stack) + 1] = Here
  BY <1>0, AppendFacts
<1>2. \A i \in 1..Len(stack) : stack'[i] = stack[i]
  BY <1>0, AppendFacts
<1>3. /\ \A i \in 1..Len(stack) : code'[stack'[i]] = code[stack[i]]
      /\ code'[stack'[Len(stack) + 1]] = k
  <2>1. \A i \in 1..Len(stack) : stack[i] \in 1..Len(code)
    BY DEF ParserTypes
  <2> QED BY <1>1, <1>2, <2>1, Grows
<1>8. \A i \in DOMAIN stack' : i \in 1..Len(stack) \/ i = Len(stack) + 1
  <2>1. Len(stack) \in Nat /\ DOMAIN stack' = 1..(Len(stack) + 1)
    BY <1>1
  <2> QED BY <2>1
<1>4. Rising(stack')
  <2>1. stack \in Seq(1..Len(code)) /\ Len(code) < Here
    BY <1>0 DEF ParserTypes
  <2> QED BY <1>0, <2>1, RisingAppend DEF Nested
<1>5. \A i \in DOMAIN stack' : code'[stack'[i]] \in {"if", "while", "elif", "else"}
  <2>1. \A i \in 1..Len(stack) : code[stack[i]] \in {"if", "while", "elif", "else"}
    BY <1>1 DEF Nested
  <2> QED BY <1>3, <1>8, <2>1
<1>6. ASSUME NEW i \in DOMAIN stack', code'[stack'[i]] \in {"elif", "else"}
      PROVE  i > 1 /\ code'[stack'[i - 1]] \in {"if", "elif"}
  <2>1. CASE i \in 1..Len(stack)
    <3>1. i > 1 /\ code[stack[i - 1]] \in {"if", "elif"}
      BY <1>1, <1>3, <1>6, <2>1 DEF Nested
    <3>2. i - 1 \in 1..Len(stack)
      BY <1>1, <2>1, <3>1
    <3> QED BY <1>3, <3>1, <3>2
  <2>2. CASE i = Len(stack) + 1
    <3>1. stack # <<>> /\ code[stack[Len(stack)]] \in {"if", "elif"}
      BY <1>3, <1>6, <2>2 DEF Top, Last
    <3>2. Len(stack) \in 1..Len(stack) /\ i - 1 = Len(stack) /\ i > 1
      BY <1>0, <1>1, <2>2, <3>1
    <3> QED BY <1>3, <3>1, <3>2
  <2> QED BY <1>8, <2>1, <2>2
<1>7. Elements(stack') = Elements(stack) \cup {Here}
  BY <1>0, AppendElements
<1> QED BY <1>1, <1>4, <1>5, <1>6, <1>7 DEF Nested

LEMMA SameLoops ==
  ASSUME ParserTypes, Loops, whiles' = whiles, breaks' = breaks,
         {p \in Elements(stack') : code'[p] = "while"} = {p \in Elements(stack) : code[p] = "while"}
  PROVE  Loops'
<1>1. Elements(whiles)' = {p \in Elements(stack)' : code'[p] = "while"}
  BY DEF Loops, Elements
<1>2. Rising(whiles)'
  BY DEF Loops, Rising
<1> QED BY <1>1, <1>2 DEF Loops

LEMMA ReadPlain ==
  ASSUME ReadInv, NEW k \in Kinds, code' = Append(code, k), Plain(k)
  PROVE  ReadInv'
<1> USE DEF ReadInv
<1>1. UNCHANGED <<jumps, stack, whiles, breaks>> /\ k \in NoEntry
  BY DEF Plain, NoEntry
<1>2. ParserTypes'
  BY <1>1, Grows DEF ParserTypes, Target
<1>3. Nested'
  <2>1. Len(stack') \in 0..Len(stack) /\ DOMAIN stack' = 1..Len(stack')
    BY <1>1 DEF ParserTypes
  <2> QED BY <1>1, <2>1, NestedPrefix
<1>4. Loops'
  <2>1. \A p \in Elements(stack) : code'[p] = code[p]
    BY Grows
  <2> QED BY <1>1, <2>1, SameLoops
<1>5. Entries'
  <2>1. \A i \in DOMAIN code' : i \in DOMAIN code \/ i = Here
    BY Grows
  <2>2. Elements(stack)' = Elements(stack)
    BY <1>1 DEF Elements
  <2> QED BY <1>1, <2>1, <2>2, Grows DEF Entries
<1> QED BY <1>2, <1>3, <1>4, <1>5

LEMMA TypesNext ==
  ASSUME Len(code') = Here, code' \in Seq(Kinds), stack' \in Seq(1..Here), whiles' \in Seq(1..Here),
         breaks' \in Seq([level : Nat, pc : 1..Here]),
         DOMAIN jumps' \subseteq 1..Here, jumps' \in [DOMAIN jumps' -> Target]
  PROVE  ParserTypes'
BY DEF ParserTypes, Target

LEMMA ReadOpen ==
  ASSUME ReadInv, NEW k \in Kinds, code' = Append(code, k), Open(k)
  PROVE  ReadInv'
<1> USE DEF ReadInv
<1>1. /\ k \in {"if", "while"} /\ stack' = Append(stack, Here) /\ UNCHANGED <<jumps, breaks>>
      /\ whiles' = IF k = "while" THEN Append(whiles, Here) ELSE whiles
  BY DEF Open
<1>2. Nested' /\ stack' \in Seq(1..Here) /\ Elements(stack)' = Elements(stack) \cup {Here}
  BY <1>1, NestedPush
<1>3. /\ Here \in 1..Here /\ Here \in Nat /\ Len(code) \in Nat /\ Len(code) < Here /\ code'[Here] = k
      /\ whiles \in Seq(1..Here) /\ Elements(stack) \subseteq 1..Len(code)
      /\ \A p \in 1..Len(code) : code'[p] = code[p]
  BY Grows
<1>4. ParserTypes'
  <2>1. whiles' \in Seq(1..Here)
    <3>1. Append(whiles, Here) \in Seq(1..Here)
      BY <1>3, AppendFacts
    <3> QED BY <1>1, <1>3, <3>1
  <2> QED BY <1>1, <1>2, <2>1, Grows, TypesNext
<1>5. Loops'
  <2>1. CASE k = "if"
    <3>1. {p \in Elements(stack') : code'[p] = "while"} = {p \in Elements(stack) : code[p] = "while"}
      BY <1>2, <1>3, <2>1
    <3> QED BY <1>1, <2>1, <3>1, SameLoops
  <2>2. CASE k = "while"
    <3>1. /\ Len(whiles) \in Nat /\ DOMAIN whiles' = 1..(Len(whiles) + 1)
          /\ Len(whiles') = Len(whiles) + 1
      BY <1>1, <1>3, <2>2, AppendFacts
    <3>2. \A i \in 1..Len(whiles) : whiles'[i] = whiles[i]
      BY <1>1, <1>3, <2>2, AppendFacts
    <3>3. Rising(whiles')
      <4>1. whiles \in Seq(1..Len(code)) /\ Rising(whiles)
        BY DEF ParserTypes, Loops
      <4> QED BY <1>1, <1>3, <2>2, <4>1, RisingAppend
    <3>4. Elements(whiles') = Elements(whiles) \cup {Here}
      BY <1>1, <1>3, <2>2, AppendElements
    <3>5. Elements(whiles') = {p \in Elements(stack') : code'[p] = "while"}
      <4>1. Elements(whiles) = {p \in Elements(stack) : code[p] = "while"}
        BY DEF Loops
      <4>2. Elements(stack') = Elements(stack) \cup {Here}
        BY <1>2
      <4> QED BY <1>3, <2>2, <3>4, <4>1, <4>2
    <3>6. \A i \in DOMAIN breaks' :
            breaks'[i].level \in 1..Len(whiles') /\ whiles'[breaks'[i].level] < breaks'[i].pc
      BY <1>1, <3>1, <3>2 DEF Loops
    <3>7. \A i, j \in DOMAIN breaks' : i <= j => breaks'[i].level <= breaks'[j].level
      BY <1>1 DEF Loops
    <3> QED BY <3>3, <3>5, <3>6, <3>7 DEF Loops
  <2> QED BY <1>1, <2>1, <2>2
<1>6. Entries'
  <2>1. \A i \in DOMAIN code' : i \in DOMAIN code \/ i = Here
    BY Grows
  <2> QED BY <1>1, <1>2, <2>1, Grows DEF Entries
<1> QED BY <1>2, <1>4, <1>5, <1>6

LEMMA ReadClause ==
  ASSUME ReadInv, NEW k \in Kinds, code' = Append(code, k), ~Misplaced(k), Clause(k)
  PROVE  ReadInv'
<1> USE DEF ReadInv
<1>1. /\ k \in {"elif", "else"} /\ stack' = Append(stack, Here) /\ UNCHANGED <<whiles, breaks>>
      /\ jumps' = Patched([p \in {Last(stack)} |-> [Zero EXCEPT !.onFalse = Here]])
      /\ Top \in {"if", "elif"}
  BY DEF Clause, Misplaced
<1>2. Nested' /\ stack' \in Seq(1..Here) /\ Elements(stack)' = Elements(stack) \cup {Here}
  BY <1>1, NestedPush
<1>3. /\ Here \in 1..Here /\ code'[Here] = k
      /\ Elements(stack) \subseteq 1..Len(code) /\ 1..Len(code) \subseteq 1..Here
      /\ \A p \in 1..Len(code) : code'[p] = code[p]
  BY Grows
<1>4. Last(stack) \in 1..Here
  <2>1. stack # <<>> /\ stack \in Seq(Nat) /\ Rising(stack)
    BY <1>1 DEF Top, ParserTypes, Nested
  <2>2. Last(stack) \in Elements(stack)
    BY <2>1, LastFacts
  <2> QED BY <1>3, <2>2
<1>5. /\ DOMAIN jumps' = DOMAIN jumps \cup {Last(stack)} /\ DOMAIN jumps' \subseteq 1..Here
      /\ jumps' \in [DOMAIN jumps' -> Target]
  <2> DEFINE D == {Last(stack)}
             new == [p \in D |-> [Zero EXCEPT !.onFalse = Here]]
  <2>1. D \subseteq 1..Here /\ new \in [D -> Target]
    BY <1>3, <1>4, EntryType
  <2>2. jumps' = Patched(new)
    BY <1>1
  <2> HIDE DEF D, new
  <2>3. /\ DOMAIN jumps' = DOMAIN jumps \cup D /\ DOMAIN jumps' \subseteq 1..Here
        /\ jumps' \in [DOMAIN jumps' -> Target]
    BY <2>1, <2>2, PatchedType
  <2> QED BY <2>3 DEF D
<1>6. ParserTypes'
  BY <1>1, <1>2, <1>5, Grows, TypesNext
<1>7. Loops'
  <2>1. {p \in Elements(stack') : code'[p] = "while"} = {p \in Elements(stack) : code[p] = "while"}
    BY <1>1, <1>2, <1>3
  <2> QED BY <1>1, <2>1, SameLoops
<1>8. Entries'
  <2>1. \A i \in DOMAIN code' : i \in DOMAIN code \/ i = Here
    BY Grows
  <2> QED BY <1>1, <1>2, <1>5, <2>1, Grows DEF Entries
<1> QED BY <1>2, <1>6, <1>7, <1>8

LEMMA ReadBreak ==
  ASSUME ReadInv, NEW k \in Kinds, code' = Append(code, k), ~Misplaced(k), Break(k)
  PROVE  ReadInv'
<1> USE DEF ReadInv
<1> DEFINE b == [level |-> Len(whiles), pc |-> Here]
           B == [level : Nat, pc : 1..Here]
<1>1. /\ k = "break" /\ breaks' = Append(breaks, b) /\ UNCHANGED <<jumps, stack, whiles>>
      /\ whiles # <<>>
  BY DEF Break, Misplaced
<1>2. /\ Here \in 1..Here /\ Here \in Nat /\ Here = Len(code) + 1 /\ Len(code) \in Nat
      /\ code'[Here] = k
      /\ Elements(stack) \subseteq 1..Len(code) /\ breaks \in Seq(B)
      /\ \A p \in 1..Len(code) : code'[p] = code[p]
  BY Grows
<1>3. /\ Len(whiles) \in Nat /\ Len(whiles) \in 1..Len(whiles) /\ b \in B
      /\ \A i \in 1..Len(whiles) : whiles[i] \in 1..Len(code)
  <2>1. whiles \in Seq(1..Len(code))
    BY DEF ParserTypes
  <2>2. Len(whiles) \in Nat /\ Len(whiles) \in 1..Len(whiles)
    BY <1>1, <2>1
  <2>3. b \in B
    BY <1>2, <2>2
  <2>4. \A i \in 1..Len(whiles) : whiles[i] \in 1..Len(code)
    BY <2>1
  <2> HIDE DEF b, B
  <2> QED BY <2>2, <2>3, <2>4
<1>4. b.level = Len(whiles) /\ b.pc = Here
  OBVIOUS
<1> HIDE DEF b, B
<1>5. /\ Len(breaks) \in Nat /\ DOMAIN breaks = 1..Len(breaks) /\ DOMAIN breaks' = 1..(Len(breaks) + 1)
      /\ breaks' \in Seq(B) /\ breaks'[Len(breaks) + 1] = b
  BY <1>1, <1>2, <1>3, AppendFacts
<1>6. \A i \in 1..Len(breaks) : breaks'[i] = breaks[i]
  BY <1>1, <1>2, <1>3, AppendFacts
<1>7. \A i \in DOMAIN breaks' : i \in 1..Len(breaks) \/ i = Len(breaks) + 1
  <2>1. Len(breaks) \in Nat /\ DOMAIN breaks' = 1..(Len(breaks) + 1)
    BY <1>5
  <2> QED BY <2>1
<1>8. ParserTypes'
  <2>1. breaks' \in Seq([level : Nat, pc : 1..Here])
    BY <1>5 DEF B
  <2> QED BY <1>1, <2>1, Grows, TypesNext
<1>9. Nested'
  <2>1. Len(stack') \in 0..Len(stack) /\ DOMAIN stack' = 1..Len(stack')
    BY <1>1 DEF ParserTypes
  <2> QED BY <1>1, <2>1, NestedPrefix
<1>10. Loops'
  <2>1. Rising(whiles') /\ Elements(whiles') = {p \in Elements(stack') : code'[p] = "while"}
    BY <1>1, <1>2 DEF Loops
  <2>2. ASSUME NEW i \in DOMAIN breaks'
        PROVE  breaks'[i].level \in 1..Len(whiles') /\ whiles'[breaks'[i].level] < breaks'[i].pc
    <3>1. CASE i \in 1..Len(breaks)
      BY <1>1, <1>5, <1>6, <3>1 DEF Loops
    <3>2. CASE i = Len(breaks) + 1
      <4>1. breaks'[i].level = Len(whiles) /\ breaks'[i].pc = Here
        BY <1>4, <1>5, <3>2
      <4>2. whiles[Len(whiles)] < Here
        BY <1>2, <1>3
      <4> QED BY <1>1, <1>3, <4>1, <4>2
    <3> QED BY <1>7, <3>1, <3>2
  <2>3. ASSUME NEW i \in DOMAIN breaks', NEW j \in DOMAIN breaks', i <= j
        PROVE  breaks'[i].level <= breaks'[j].level
    <3>1. CASE j \in 1..Len(breaks)
      <4>1. i \in 1..Len(breaks)
        BY <1>5, <1>7, <2>3, <3>1
      <4> QED BY <1>5, <1>6, <2>3, <3>1, <4>1 DEF Loops
    <3>2. CASE j = Len(breaks) + 1
      <4>1. breaks'[j].level = Len(whiles) /\ breaks'[i].level \in 1..Len(whiles)
        BY <1>1, <1>4, <1>5, <2>2, <3>2
      <4> QED BY <1>3, <4>1
    <3> QED BY <1>7, <3>1, <3>2
  <2> QED BY <2>1, <2>2, <2>3 DEF Loops
<1>11. Entries'
  <2>1. \A i \in DOMAIN code' : i \in DOMAIN code \/ i = Here
    BY Grows
  <2>2. {breaks[j].pc : j \in DOMAIN breaks} \cup {Here} \subseteq {breaks'[j].pc : j \in DOMAIN breaks'}
    <3>1. 1..Len(breaks) \subseteq DOMAIN breaks' /\ Len(breaks) + 1 \in DOMAIN breaks'
      BY <1>5
    <3> QED BY <1>4, <1>5, <1>6, <3>1
  <2>3. Elements(stack)' = Elements(stack)
    BY <1>1 DEF Elements
  <2> QED BY <1>1, <2>1, <2>2, <2>3, Grows DEF Entries
<1> QED BY <1>8, <1>9, <1>10, <1>11

LEMMA ReadContinue ==
  ASSUME ReadInv, NEW k \in Kinds, code' = Append(code, k), ~Misplaced(k), Continue(k)
  PROVE  ReadInv'
<1> USE DEF ReadInv
<1>1. /\ UNCHANGED <<stack, whiles, breaks>> /\ whiles # <<>>
      /\ jumps' = Patched([p \in {Here} |-> [Zero EXCEPT !.onEnd = Last(whiles)]])
      /\ k = "continue"
  BY DEF Continue, Misplaced
<1>2. /\ Here \in 1..Here /\ code'[Here] = k
      /\ Elements(stack) \subseteq 1..Len(code) /\ 1..Len(code) \subseteq 1..Here
      /\ \A p \in 1..Len(code) : code'[p] = code[p]
  BY Grows
<1>3. Last(whiles) \in 1..Here
  <2>1. whiles \in Seq(Nat) /\ Rising(whiles)
    BY <1>1 DEF ParserTypes, Loops
  <2>2. Last(whiles) \in Elements(stack)
    BY <1>1, <2>1, LastFacts DEF Loops
  <2> QED BY <1>2, <2>2
<1>4. /\ DOMAIN jumps' = DOMAIN jumps \cup {Here} /\ DOMAIN jumps' \subseteq 1..Here
      /\ jumps' \in [DOMAIN jumps' -> Target]
  <2> DEFINE D == {Here}
             new == [p \in D |-> [Zero EXCEPT !.onEnd = Last(whiles)]]
  <2>1. D \subseteq 1..Here /\ new \in [D -> Target]
    BY <1>2, <1>3, EntryType
  <2>2. jumps' = Patched(new)
    BY <1>1
  <2> HIDE DEF D, new
  <2>3. /\ DOMAIN jumps' = DOMAIN jumps \cup D /\ DOMAIN jumps' \subseteq 1..Here
        /\ jumps' \in [DOMAIN jumps' -> Target]
    BY <2>1, <2>2, PatchedType
  <2> QED BY <2>3 DEF D
<1>5. ParserTypes'
  BY <1>1, <1>4, Grows, TypesNext
<1>6. Nested'
  <2>1. Len(stack') \in 0..Len(stack) /\ DOMAIN stack' = 1..Len(stack')
    BY <1>1 DEF ParserTypes
  <2> QED BY <1>1, <2>1, NestedPrefix
<1>7. Loops'
  <2>1. {p \in Elements(stack') : code'[p] = "while"} = {p \in Elements(stack) : code[p] = "while"}
    BY <1>1, <1>2
  <2> QED BY <1>1, <2>1, SameLoops
<1>8. Entries'
  <2>1. \A i \in DOMAIN code' : i \in DOMAIN code \/ i = Here
    BY Grows
  <2>2. Elements(stack)' = Elements(stack)
    BY <1>1 DEF Elements
  <2> QED BY <1>1, <1>4, <2>1, <2>2, Grows DEF Entries
<1> QED BY <1>5, <1>6, <1>7, <1>8

LEMMA ReadEndIf ==
  ASSUME ReadInv, NEW k \in Kinds, code' = Append(code, k), ~Misplaced(k), EndIf(k)
  PROVE  ReadInv'
<1> USE DEF ReadInv
<1> DEFINE chain == {stack[i] : i \in FirstIf..Len(stack)}
<1>1. /\ UNCHANGED <<whiles, breaks>> /\ k = "endif" /\ Top \in {"if", "elif", "else"}
      /\ stack' = SubSeq(stack, 1, FirstIf - 1)
      /\ jumps' = Patched(ChainEnd(chain))
  BY DEF EndIf, Misplaced, FirstIf
<1>2. /\ FirstIf \in 1..Len(stack) /\ code[stack[FirstIf]] = "if"
      /\ \A j \in (FirstIf + 1)..Len(stack) : code[stack[j]] \in {"elif", "else"}
  BY <1>1, FirstIfFacts
<1>3. /\ Here \in 1..Here /\ code'[Here] = k /\ stack \in Seq(1..Here)
      /\ Elements(stack) \subseteq 1..Len(code) /\ 1..Len(code) \subseteq 1..Here
      /\ \A p \in 1..Len(code) : code'[p] = code[p]
  BY Grows
<1>4. /\ FirstIf - 1 \in 0..Len(stack) /\ FirstIf..Len(stack) = {FirstIf} \cup (FirstIf + 1)..Len(stack)
      /\ (FirstIf - 1) + 1 = FirstIf /\ FirstIf..Len(stack) \subseteq 1..Len(stack)
      /\ DOMAIN stack = 1..Len(stack) /\ stack \in Seq(Nat)
  <2>1. Len(stack) \in Nat /\ DOMAIN stack = 1..Len(stack) /\ stack \in Seq(Nat)
    BY DEF ParserTypes
  <2> QED BY <1>2, <2>1
<1> HIDE DEF FirstIf
<1>5. /\ Elements(stack)' \subseteq Elements(stack) /\ Elements(stack) \ Elements(stack)' = chain
  <2>1. /\ Elements(SubSeq(stack, 1, FirstIf - 1)) \subseteq Elements(stack)
        /\ Elements(stack) \ Elements(SubSeq(stack, 1, FirstIf - 1))
             = {stack[i] : i \in ((FirstIf - 1) + 1)..Len(stack)}
    BY <1>4, RisingPrefix DEF Nested
  <2>2. Elements(stack)' = Elements(SubSeq(stack, 1, FirstIf - 1))
    BY <1>1 DEF Elements
  <2> QED BY <1>4, <2>1, <2>2
<1>6. chain \subseteq Elements(stack) /\ \A p \in chain : code[p] # "while"
  <2>1. \A i \in FirstIf..Len(stack) : code[stack[i]] # "while"
    BY <1>2, <1>4
  <2> QED BY <1>4, <2>1 DEF Elements
<1> HIDE DEF chain
<1>7. /\ DOMAIN jumps' = DOMAIN jumps \cup chain /\ DOMAIN jumps' \subseteq 1..Here
      /\ jumps' \in [DOMAIN jumps' -> Target]
  <2>1. chain \subseteq 1..Here
    BY <1>3, <1>6
  <2>2. ChainEnd(chain) \in [chain -> Target]
    <3>1. \A p : Entry(p).onFalse \in 1..Here
      BY EntryType DEF Target
    <3> QED BY <1>3, <3>1 DEF ChainEnd, Target
  <2> QED BY <1>1, <2>1, <2>2, PatchedType
<1>8. /\ stack' \in Seq(1..Here) /\ Len(stack') = FirstIf - 1 /\ DOMAIN stack' = 1..(FirstIf - 1)
      /\ \A i \in 1..(FirstIf - 1) : stack'[i] = stack[i]
  BY <1>1, <1>3, <1>4, PrefixFacts
<1>9. ParserTypes'
  BY <1>1, <1>7, <1>8, Grows, TypesNext
<1>10. Nested'
  BY <1>4, <1>8, NestedPrefix
<1>11. Loops'
  <2>1. {p \in Elements(stack') : code'[p] = "while"} = {p \in Elements(stack) : code[p] = "while"}
    BY <1>3, <1>5, <1>6
  <2> QED BY <1>1, <2>1, SameLoops
<1>12. Entries'
  <2>1. \A i \in DOMAIN code' : i \in DOMAIN code \/ i = Here
    BY Grows
  <2>2. k \in NoEntry
    BY <1>1 DEF NoEntry
  <2> QED BY <1>1, <1>5, <1>7, <2>1, <2>2, Grows DEF Entries
<1> QED BY <1>9, <1>10, <1>11, <1>12

LEMMA ReadEndWhile ==
  ASSUME ReadInv, NEW k \in Kinds, code' = Append(code, k), ~Misplaced(k), EndWhile(k)
  PROVE  ReadInv'
<1> USE DEF ReadInv
<1> DEFINE broken == {breaks[i].pc : i \in (OuterBreaks + 1)..Len(breaks)}
           D == {Last(stack), Here} \cup broken
           new == [p \in D |->
             IF p = Here THEN [Zero EXCEPT !.onEnd = Last(stack)]
             ELSE IF p = Last(stack) THEN [Entry(p) EXCEPT !.onFalse = Here]
             ELSE [Zero EXCEPT !.onEnd = Here]]
           B == [level : Nat, pc : 1..Here]
<1>1. /\ k = "endwhile" /\ Top = "while"
      /\ stack' = Front(stack) /\ whiles' = Front(whiles)
      /\ breaks' = SubSeq(breaks, 1, OuterBreaks)
      /\ jumps' = Patched(new)
  BY DEF EndWhile, LoopEnd, Misplaced
<1>2. /\ stack # <<>> /\ whiles # <<>> /\ Last(whiles) = Last(stack)
      /\ stack \in Seq(Nat) /\ whiles \in Seq(Nat)
  BY <1>1, TopWhile
<1>3. /\ Here \in 1..Here /\ code'[Here] = k /\ stack \in Seq(1..Here) /\ whiles \in Seq(1..Here)
      /\ Elements(stack) \subseteq 1..Len(code) /\ 1..Len(code) \subseteq 1..Here
      /\ breaks \in Seq(B) /\ Here \notin 1..Len(code)
      /\ \A p \in 1..Len(code) : code'[p] = code[p]
  BY Grows
<1>4. /\ Len(stack) \in Nat \ {0} /\ Len(stack) - 1 \in 0..Len(stack) /\ Last(stack) \in Elements(stack)
      /\ Len(stack') = Len(stack) - 1 /\ Elements(stack') = Elements(stack) \ {Last(stack)}
  BY <1>1, <1>2, LastFacts DEF Nested
<1>5. /\ Len(whiles) \in Nat \ {0} /\ Len(whiles) - 1 \in 0..Len(whiles)
      /\ Rising(whiles') /\ Len(whiles') = Len(whiles) - 1
      /\ Elements(whiles') = Elements(whiles) \ {Last(stack)}
  BY <1>1, <1>2, LastFacts DEF Loops
<1>6. /\ OuterBreaks \in 0..Len(breaks)
      /\ \A i \in 1..OuterBreaks : breaks[i].level \in 1..(Len(whiles) - 1)
  BY <1>2, OuterBreaksFacts
<1> HIDE DEF B, D, new, broken, OuterBreaks
<1>7. /\ stack' \in Seq(1..Here) /\ DOMAIN stack' = 1..(Len(stack) - 1)
      /\ \A i \in 1..(Len(stack) - 1) : stack'[i] = stack[i]
  BY <1>1, <1>3, <1>4, FrontFacts
<1>8. /\ whiles' \in Seq(1..Here)
      /\ \A i \in 1..(Len(whiles) - 1) : whiles'[i] = whiles[i]
  BY <1>1, <1>3, <1>5, FrontFacts
<1>9. /\ breaks' \in Seq(B) /\ Len(breaks) \in Nat /\ OuterBreaks \in Nat /\ OuterBreaks <= Len(breaks)
      /\ DOMAIN breaks = 1..Len(breaks) /\ DOMAIN breaks' = 1..OuterBreaks
      /\ \A i \in 1..OuterBreaks : breaks'[i] = breaks[i] /\ i \in 1..Len(breaks)
  BY <1>1, <1>3, <1>6, PrefixFacts
<1>10. D \subseteq 1..Here
  <2>1. \A i \in 1..Len(breaks) : breaks[i] \in B
    BY <1>3
  <2>2. \A e \in B : e.pc \in 1..Here
    BY DEF B
  <2>3. (OuterBreaks + 1)..Len(breaks) \subseteq 1..Len(breaks)
    BY <1>9
  <2>4. broken \subseteq 1..Here
    BY <2>1, <2>2, <2>3 DEF broken
  <2> QED BY <1>3, <1>4, <2>4 DEF D
<1>11. new \in [D -> Target]
  <2>1. Last(stack) \in 1..Here /\ Here \in 1..Here
    BY <1>10 DEF D
  <2>2. ASSUME NEW p \in D PROVE new[p] \in Target
    BY <2>1, EntryType DEF new
  <2>3. new = [p \in D |-> new[p]]
    BY DEF new
  <2> QED BY <2>2, <2>3
<1>12. /\ DOMAIN jumps' = DOMAIN jumps \cup D /\ DOMAIN jumps' \subseteq 1..Here
       /\ jumps' \in [DOMAIN jumps' -> Target]
  BY <1>1, <1>10, <1>11, PatchedType
<1>13. ParserTypes'
  <2>1. breaks' \in Seq([level : Nat, pc : 1..Here])
    BY <1>9 DEF B
  <2> QED BY <1>7, <1>8, <1>12, <2>1, Grows, TypesNext
<1>14. Nested'
  BY <1>4, <1>7, NestedPrefix
<1>15. Loops'
  <2>1. Elements(whiles') = {p \in Elements(stack') : code'[p] = "while"}
    <3>1. Elements(whiles) = {p \in Elements(stack) : code[p] = "while"}
      BY DEF Loops
    <3> QED BY <1>3, <1>4, <1>5, <3>1
  <2>2. ASSUME NEW i \in 1..OuterBreaks
        PROVE  breaks'[i].level \in 1..Len(whiles') /\ whiles'[breaks'[i].level] < breaks'[i].pc
    <3>1. breaks'[i] = breaks[i] /\ i \in DOMAIN breaks /\ breaks[i].level \in 1..(Len(whiles) - 1)
      BY <1>6, <1>9
    <3>2. whiles[breaks[i].level] < breaks[i].pc
      BY <3>1 DEF Loops
    <3>3. whiles'[breaks[i].level] = whiles[breaks[i].level]
      BY <1>8, <3>1
    <3> QED BY <1>5, <3>1, <3>2, <3>3
  <2>3. ASSUME NEW i \in 1..OuterBreaks, NEW j \in 1..OuterBreaks, i <= j
        PROVE  breaks'[i].level <= breaks'[j].level
    BY <1>9, <2>3 DEF Loops
  <2> QED BY <1>5, <1>9, <2>1, <2>2, <2>3 DEF Loops
<1>16. Entries'
  <2>1. \A i \in DOMAIN code' : i \in DOMAIN code \/ i = Here
    BY Grows
  <2>2. Here \in D /\ Last(stack) \in D
    BY DEF D
  <2>3. ASSUME NEW i \in DOMAIN breaks PROVE breaks[i].pc \in D \cup {breaks'[j].pc : j \in DOMAIN breaks'}
    <3>1. i \in 1..OuterBreaks \/ i \in (OuterBreaks + 1)..Len(breaks)
      BY <1>9
    <3>2. CASE i \in 1..OuterBreaks
      BY <1>9, <3>2
    <3>3. CASE i \in (OuterBreaks + 1)..Len(breaks)
      BY <3>3 DEF D, broken
    <3> QED BY <3>1, <3>2, <3>3
  <2>4. \A i \in DOMAIN code : code'[i] = code[i]
    BY Grows
  <2>5. ASSUME NEW i \in DOMAIN code, code'[i] \notin NoEntry
        PROVE  i \in DOMAIN jumps' \cup Elements(stack') \cup {breaks'[j].pc : j \in DOMAIN breaks'}
    <3>1. i \in DOMAIN jumps \cup Elements(stack) \cup {breaks[j].pc : j \in DOMAIN breaks}
      BY <2>4, <2>5 DEF Entries
    <3> QED BY <1>4, <1>12, <2>2, <2>3, <3>1
  <2>6. \A i \in DOMAIN code' : code'[i] \notin NoEntry =>
          i \in DOMAIN jumps' \cup Elements(stack') \cup {breaks'[j].pc : j \in DOMAIN breaks'}
    BY <1>12, <2>1, <2>2, <2>5
  <2>7. Elements(stack') = Elements(stack)'
    BY DEF Elements
  <2> QED BY <2>6, <2>7 DEF Entries
<1> QED BY <1>13, <1>14, <1>15, <1>16

LEMMA ReadRejected ==
  ASSUME ParserTypes, Nested, Loops, NEW k \in Kinds, code' = Append(code, k), Reject(k)
  PROVE  ParserTypes' /\ Nested' /\ Loops'
<1>1. UNCHANGED <<jumps, stack, whiles, breaks>>
  BY DEF Reject
<1>2. ParserTypes'
  BY <1>1, Grows, TypesNext
<1>3. Nested'
  <2>1. Len(stack') \in 0..Len(stack) /\ DOMAIN stack' = 1..Len(stack')
    BY <1>1 DEF ParserTypes
  <2> QED BY <1>1, <2>1, NestedPrefix
<1>4. Loops'
  <2>1. \A p \in Elements(stack) : code'[p] = code[p]
    BY Grows
  <2> QED BY <1>1, <2>1, SameLoops
<1> QED BY <1>2, <1>3, <1>4

LEMMA ReadFlowInv ==
  ASSUME FlowInv, NEW k \in Kinds, ReadLine(k)
  PROVE  FlowInv'
<1>1. /\ phase = "reading" /\ code' = Append(code, k)
      /\ UNCHANGED <<pc, justJumped, cancelled>> /\ pc \in 1..(Len(code) + 1)
      /\ justJumped \in BOOLEAN /\ cancelled \in BOOLEAN
  BY DEF ReadLine, FlowInv
<1>2. ReadInv
  BY <1>1 DEF FlowInv, ReadInv
<1>3. pc' \in 1..(Len(code') + 1)
  <2>1. Len(code) \in Nat /\ Len(code') = Len(code) + 1
    BY <1>1, <1>2, Grows DEF ReadInv
  <2> QED BY <1>1, <2>1
<1>4. CASE Reject(k)
  <2>1. phase' = "syntax"
    BY <1>4 DEF Reject
  <2>2. ParserTypes' /\ Nested' /\ Loops'
    BY <1>1, <1>2, <1>4, ReadRejected DEF ReadInv
  <2> QED BY <1>1, <1>3, <2>1, <2>2 DEF FlowInv
<1>5. CASE ~Reject(k)
  <2>1. /\ ~Misplaced(k) /\ phase' = phase
        /\ \/ Plain(k) \/ Open(k) \/ Clause(k) \/ EndIf(k)
           \/ EndWhile(k) \/ Break(k) \/ Continue(k)
    BY <1>5 DEF ReadLine
  <2>2. ASSUME Plain(k) PROVE ReadInv'
    BY <1>1, <1>2, <2>2, ReadPlain
  <2>3. ASSUME Open(k) PROVE ReadInv'
    BY <1>1, <1>2, <2>3, ReadOpen
  <2>4. ASSUME Clause(k) PROVE ReadInv'
    BY <1>1, <1>2, <2>1, <2>4, ReadClause
  <2>5. ASSUME EndIf(k) PROVE ReadInv'
    BY <1>1, <1>2, <2>1, <2>5, ReadEndIf
  <2>6. ASSUME EndWhile(k) PROVE ReadInv'
    BY <1>1, <1>2, <2>1, <2>6, ReadEndWhile
  <2>7. ASSUME Break(k) PROVE ReadInv'
    BY <1>1, <1>2, <2>1, <2>7, ReadBreak
  <2>8. ASSUME Continue(k) PROVE ReadInv'
    BY <1>1, <1>2, <2>1, <2>8, ReadContinue
  <2>9. ReadInv'
    BY <2>1, <2>2, <2>3, <2>4, <2>5, <2>6, <2>7, <2>8
  <2> QED BY <1>1, <1>3, <2>1, <2>9 DEF FlowInv, ReadInv
<1> QED BY <1>4, <1>5

-----------------------------------------------------------------------------
(* The interpreter. *)

\* A script without an open block has no open loop, so that no break waits.
LEMMA AllClosed ==
  ASSUME ParserTypes, Loops, Entries, stack = <<>>
  PROVE  /\ Len(code) \in Nat /\ DOMAIN code = 1..Len(code)
         /\ \A i \in 1..Len(code) : code[i] \notin NoEntry =>
              i \in DOMAIN jumps /\ jumps[i].onFalse \in 1..Len(code) /\ jumps[i].onEnd \in 1..Len(code)
<1>1. /\ Len(code) \in Nat /\ DOMAIN code = 1..Len(code)
      /\ Len(whiles) \in Nat /\ DOMAIN whiles = 1..Len(whiles)
      /\ Len(breaks) \in Nat /\ DOMAIN breaks = 1..Len(breaks)
      /\ jumps \in [DOMAIN jumps -> [onFalse : 1..Len(code), onEnd : 1..Len(code)]]
  BY DEF ParserTypes
<1>2. Elements(stack) = {}
  BY DEF Elements
<1>3. Len(whiles) = 0
  <2>1. DOMAIN whiles = {}
    BY <1>2 DEF Loops, Elements
  <2> QED BY <1>1, <2>1
<1>4. DOMAIN breaks = {}
  <2>1. \A i \in DOMAIN breaks : breaks[i].level \in 1..Len(whiles)
    BY DEF Loops
  <2>2. 1..Len(whiles) = {}
    BY <1>3
  <2> QED BY <2>1, <2>2
<1>5. \A i \in DOMAIN code : code[i] \notin NoEntry => i \in DOMAIN jumps
  BY <1>2, <1>4 DEF Entries
<1> QED BY <1>1, <1>5

LEMMA EvaluateFlowInv ==
  ASSUME FlowInv, Evaluate
  PROVE  FlowInv'
<1>1. UNCHANGED <<parserVars, cancelled>>
  BY DEF Evaluate
<1>2. phase = "running"
  BY DEF Evaluate, PassOver, WalkOn, Leap, Condition, Command, Exit, Finish, Abort, Executes
<1>3. /\ stack = <<>> /\ ParserTypes /\ Nested /\ Loops /\ Entries
      /\ pc \in 1..(Len(code) + 1) /\ justJumped \in BOOLEAN /\ cancelled \in BOOLEAN
  BY <1>2 DEF FlowInv
<1>4. /\ Len(code) \in Nat
      /\ \A i \in 1..Len(code) : code[i] \notin NoEntry =>
           i \in DOMAIN jumps /\ jumps[i].onFalse \in 1..Len(code) /\ jumps[i].onEnd \in 1..Len(code)
  BY <1>3, AllClosed
<1> DEFINE Places == pc' \in 1..(Len(code) + 1) /\ justJumped' \in BOOLEAN
           Ends == phase' \in {"running", "ok", "falsy", "failed", "cancelled"}
<1>5. pc <= Len(code) => pc \in 1..Len(code) /\ pc + 1 \in 1..(Len(code) + 1)
  BY <1>3, <1>4
<1>6. \A t \in 1..(Len(code) + 1), b \in BOOLEAN : GoTo(t, b) => Places /\ Ends
  BY <1>2 DEF GoTo
<1>7. \A how \in {"ok", "falsy", "failed", "cancelled"} : Return(how) => Places /\ Ends
  BY <1>3 DEF Return
<1>8. \A k : Executes(k) => pc \in 1..Len(code) /\ pc + 1 \in 1..(Len(code) + 1) /\ code[pc] = k
  BY <1>5 DEF Executes
<1>9. \A k : Executes(k) /\ k \notin NoEntry =>
        jumps[pc].onFalse \in 1..(Len(code) + 1) /\ jumps[pc].onEnd \in 1..(Len(code) + 1)
  <2>1. 1..Len(code) \subseteq 1..(Len(code) + 1)
    BY <1>4
  <2> QED BY <1>4, <1>8, <2>1
<1> HIDE DEF Places, Ends
<1>10. ASSUME PassOver PROVE Places /\ Ends
  <2>1. PICK k \in AllKinds : Executes(k) /\ Passed(k) /\ GoTo(jumps[pc].onEnd, FALSE)
    BY <1>10 DEF PassOver
  <2>2. k \notin NoEntry
    BY <2>1 DEF Passed, NoEntry
  <2> QED BY <1>6, <1>9, <2>1, <2>2
<1>11. ASSUME WalkOn PROVE Places /\ Ends
  BY <1>6, <1>8, <1>11 DEF WalkOn
<1>12. ASSUME Leap PROVE Places /\ Ends
  <2>1. PICK k \in {"break", "continue"} : Executes(k) /\ GoTo(jumps[pc].onEnd, TRUE)
    BY <1>12 DEF Leap
  <2>2. k \notin NoEntry
    BY <2>1 DEF NoEntry
  <2> QED BY <1>6, <1>9, <2>1, <2>2
<1>13. ASSUME Condition PROVE Places /\ Ends
  <2>1. PICK k \in {"if", "elif", "while"} :
          Executes(k) /\ (GoTo(pc + 1, FALSE) \/ GoTo(jumps[pc].onFalse, TRUE) \/ Return("failed"))
    BY <1>13 DEF Condition
  <2>2. k \notin NoEntry
    BY <2>1 DEF NoEntry
  <2> QED BY <1>6, <1>7, <1>8, <1>9, <2>1, <2>2
<1>14. ASSUME Command PROVE Places /\ Ends
  BY <1>6, <1>7, <1>8, <1>14 DEF Command
<1>15. ASSUME Exit \/ Finish \/ Abort PROVE Places /\ Ends
  BY <1>7, <1>15 DEF Exit, Finish, Abort
<1>16. Places /\ Ends
  BY <1>10, <1>11, <1>12, <1>13, <1>14, <1>15 DEF Evaluate
<1>17. ParserTypes' /\ Nested' /\ Loops' /\ Entries'
  BY <1>1, <1>3 DEF parserVars, ParserTypes, Nested, Loops, Entries, Rising, Elements
<1> QED BY <1>1, <1>3, <1>16, <1>17 DEF FlowInv, parserVars, Places, Ends

-----------------------------------------------------------------------------
(* The invariant. *)

LEMMA InitFlowInv == Init => FlowInv
<1> SUFFICES ASSUME Init PROVE FlowInv
  OBVIOUS
<1> USE DEF Init
<1>1. ParserTypes
  <2>1. Len(code) = 0 /\ 1..0 = {} /\ DOMAIN jumps = {}
    OBVIOUS
  <2>2. code \in Seq(Kinds) /\ stack \in Seq(1..0) /\ whiles \in Seq(1..0)
        /\ breaks \in Seq([level : Nat, pc : 1..0])
    OBVIOUS
  <2>3. jumps \in [{} -> [onFalse : 1..0, onEnd : 1..0]]
    BY <2>1
  <2> QED BY <2>1, <2>2, <2>3 DEF ParserTypes
<1>2. Nested
  BY DEF Nested, Rising
<1>3. Loops
  BY DEF Loops, Rising, Elements
<1>4. Entries
  BY DEF Entries
<1>5. pc \in 1..(Len(code) + 1)
  <2>1. Len(code) = 0 /\ pc = 1
    OBVIOUS
  <2> QED BY <2>1
<1> QED BY <1>1, <1>2, <1>3, <1>4, <1>5 DEF FlowInv

LEMMA NextFlowInv == FlowInv /\ [Next]_vars => FlowInv'
<1> SUFFICES ASSUME FlowInv, [Next]_vars PROVE FlowInv'
  OBVIOUS
<1>1. ASSUME NEW k \in Kinds, ReadLine(k) PROVE FlowInv'
  BY <1>1, ReadFlowInv
<1>2. CASE EndOfScript
  <2>1. UNCHANGED <<parserVars, pc, justJumped, cancelled>> /\ phase = "reading"
        /\ phase' = IF stack = <<>> THEN "running" ELSE "syntax"
    BY <1>2 DEF EndOfScript
  <2>2. ParserTypes /\ Nested /\ Loops /\ Entries
    BY <2>1 DEF FlowInv
  <2>3. ParserTypes' /\ Nested' /\ Loops' /\ Entries'
    <3>1. UNCHANGED <<code, jumps, stack, whiles, breaks>>
      BY <2>1 DEF parserVars
    <3> QED BY <2>2, <3>1 DEF ParserTypes, Nested, Loops, Entries, Rising, Elements
  <2> QED BY <2>1, <2>3 DEF FlowInv, parserVars
<1>3. CASE Evaluate
  BY <1>3, EvaluateFlowInv
<1>4. CASE Cancel
  <2>1. UNCHANGED <<phase, parserVars, pc, justJumped>> /\ cancelled'
    BY <1>4 DEF Cancel
  <2>2. ParserTypes' /\ Nested' /\ Loops' /\ (Entries => Entries')
    BY <2>1 DEF FlowInv, parserVars, ParserTypes, Nested, Loops, Entries, Rising, Elements
  <2>3. cancelled' \in BOOLEAN
    BY <1>4 DEF Cancel
  <2> QED BY <2>1, <2>2, <2>3 DEF FlowInv, parserVars
<1>5. CASE UNCHANGED vars
  <2>1. ParserTypes' /\ Nested' /\ Loops' /\ (Entries => Entries')
    BY <1>5 DEF FlowInv, vars, parserVars, ParserTypes, Nested, Loops, Entries, Rising, Elements
  <2> QED BY <1>5, <2>1 DEF FlowInv, vars, parserVars
<1> QED BY <1>1, <1>2, <1>3, <1>4, <1>5 DEF Next, Returned

\* The program counter, every jump and every open block is inside the script;
\* the lists for break and continue agree with the stack (parseJumpTable).
THEOREM TypeCorrect == Spec => []TypeOK
<1>1. FlowInv => TypeOK
  <2> SUFFICES ASSUME FlowInv PROVE TypeOK
    OBVIOUS
  <2>1. ParserTypes /\ Nested /\ Loops
    BY DEF FlowInv
  <2>2. \A p \in DOMAIN jumps : {jumps[p].onFalse, jumps[p].onEnd} \subseteq 1..Len(code)
    BY <2>1 DEF ParserTypes
  <2> QED BY <2>1, <2>2 DEF FlowInv, TypeOK, ParserTypes, Nested, Loops
<1> QED BY <1>1, InitFlowInv, NextFlowInv, PTL DEF Spec

\* EvalBatch never returns "jump entry not found", whatever script compiles.
THEOREM EntriesFound == Spec => []EntryFound
<1>1. FlowInv => EntryFound
  <2> SUFFICES ASSUME FlowInv, phase = "running" PROVE EntryFound
    BY DEF EntryFound
  <2>1. stack = <<>> /\ ParserTypes /\ Loops /\ Entries
    BY DEF FlowInv
  <2> QED BY <2>1, AllClosed DEF EntryFound, NoEntry
<1> QED BY <1>1, InitFlowInv, NextFlowInv, PTL DEF Spec

-----------------------------------------------------------------------------
(* Blocks are found by counting: levels. *)

LEMMA SameCardinality == \A S : Blocks!Cardinality(S) = Cardinality(S)
BY DEF Blocks!Cardinality, Cardinality

LEMMA Count ==
  ASSUME NEW f, NEW T, NEW i \in Nat \ {0}
  PROVE  /\ Cardinality({j \in 1..(i - 1) : f[j] \in T}) \in Nat
         /\ Cardinality({j \in 1..((i + 1) - 1) : f[j] \in T})
              = Cardinality({j \in 1..(i - 1) : f[j] \in T}) + IF f[i] \in T THEN 1 ELSE 0
<1> DEFINE S == {j \in 1..(i - 1) : f[j] \in T}
           U == {j \in 1..((i + 1) - 1) : f[j] \in T}
<1>1. IsFiniteSet(S)
  <2>1. IsFiniteSet(1..(i - 1)) /\ S \subseteq 1..(i - 1)
    BY FS_Interval
  <2> QED BY <2>1, FS_Subset
<1>2. U = IF f[i] \in T THEN S \cup {i} ELSE S
  <2>1. (i + 1) - 1 = i /\ 1..i = 1..(i - 1) \cup {i}
    OBVIOUS
  <2> QED BY <2>1
<1>3. i \notin S
  OBVIOUS
<1> HIDE DEF S, U
<1>4. Cardinality(S) \in Nat /\ Cardinality(S \cup {i}) = Cardinality(S) + 1
  BY <1>1, <1>3, FS_CardinalityType, FS_AddElement
<1>5. Cardinality(U) = Cardinality(S) + IF f[i] \in T THEN 1 ELSE 0
  BY <1>2, <1>4
<1> QED BY <1>4, <1>5 DEF S, U

\* What an instruction adds to the level.
Delta(k) == IF k \in {"if", "while"} THEN 1 ELSE IF k \in {"endif", "endwhile"} THEN -1 ELSE 0

LevelIn(c, n) ==
  Cardinality({j \in 1..(n - 1) : c[j] \in {"if", "while"}})
    - Cardinality({j \in 1..(n - 1) : c[j] \in {"endif", "endwhile"}})

LEMMA LevelInStep ==
  ASSUME NEW c, NEW i \in Nat \ {0}
  PROVE  LevelIn(c, i) \in Int /\ LevelIn(c, i + 1) = LevelIn(c, i) + Delta(c[i])
<1> DEFINE Opening(n) == Cardinality({j \in 1..(n - 1) : c[j] \in {"if", "while"}})
           Closing(n) == Cardinality({j \in 1..(n - 1) : c[j] \in {"endif", "endwhile"}})
<1>1. \A n : LevelIn(c, n) = Opening(n) - Closing(n)
  BY DEF LevelIn
<1>2. /\ Opening(i) \in Nat
      /\ Opening(i + 1) = Opening(i) + IF c[i] \in {"if", "while"} THEN 1 ELSE 0
  BY Count
<1>3. /\ Closing(i) \in Nat
      /\ Closing(i + 1) = Closing(i) + IF c[i] \in {"endif", "endwhile"} THEN 1 ELSE 0
  BY Count
<1> HIDE DEF Opening, Closing
<1>4. c[i] \in {"if", "while"} => c[i] \notin {"endif", "endwhile"}
  OBVIOUS
<1> QED BY <1>1, <1>2, <1>3, <1>4 DEF Delta

LEMMA LevelIs == \A n : Blocks!Level(n) = LevelIn(code, n) /\ Blocks!Level(n)' = LevelIn(code', n)
BY SameCardinality DEF Blocks!Level, Blocks!Opens, Blocks!Closes, LevelIn

LEMMA LevelStep ==
  ASSUME NEW i \in Nat \ {0}
  PROVE  Blocks!Level(i) \in Int /\ Blocks!Level(i + 1) = Blocks!Level(i) + Delta(code[i])
BY LevelIs, LevelInStep

LEMMA LevelFirst == Blocks!Level(1) = 0
<1>1. \A T : {j \in 1..(1 - 1) : code[j] \in T} = {}
  OBVIOUS
<1>2. Cardinality({}) = 0
  BY FS_EmptySet
<1> QED BY <1>1, <1>2, SameCardinality DEF Blocks!Level

\* A further line, at h, leaves what is before it alone.
LEMMA HereFacts ==
  ASSUME ParserTypes, NEW k \in Kinds, code' = Append(code, k), NEW h, h = Here
  PROVE  /\ h \in Nat \ {0} /\ Len(code) \in Nat /\ h = Len(code) + 1 /\ Len(code') = h
         /\ code'[h] = k /\ \A i \in 1..(h - 1) : code'[i] = code[i]
<1>1. /\ Here \in Nat /\ Here = Len(code) + 1 /\ Len(code') = Here /\ code'[Here] = k
      /\ \A i \in 1..Len(code) : code'[i] = code[i]
  BY Grows
<1>2. Len(code) \in Nat
  BY Grows
<1> QED BY <1>1, <1>2

LEMMA LevelGrows ==
  ASSUME ParserTypes, NEW k \in Kinds, code' = Append(code, k), NEW h, h = Here
  PROVE  /\ \A i \in 1..h : Blocks!Level(i)' = Blocks!Level(i) /\ Blocks!Level(i) \in Int
         /\ Blocks!Level(h + 1)' = Blocks!Level(h) + Delta(k)
<1>1. h \in Nat \ {0} /\ code'[h] = k /\ \A i \in 1..(h - 1) : code'[i] = code[i]
  BY HereFacts
<1>2. ASSUME NEW i \in 1..h
      PROVE  Blocks!Level(i)' = Blocks!Level(i) /\ Blocks!Level(i) \in Int
  <2>1. \A j \in 1..(i - 1) : j \in 1..(h - 1)
    BY <1>1
  <2>2. \A T : {j \in 1..(i - 1) : code'[j] \in T} = {j \in 1..(i - 1) : code[j] \in T}
    BY <1>1, <2>1
  <2>3. Blocks!Level(i) \in Int
    BY <1>1, LevelStep
  <2> QED BY <2>2, <2>3 DEF Blocks!Level
<1>3. LevelIn(code', h + 1) = LevelIn(code', h) + Delta(code'[h])
  BY <1>1, LevelInStep
<1>4. h \in 1..h
  BY <1>1
<1> QED BY <1>1, <1>2, <1>3, <1>4, LevelIs

-----------------------------------------------------------------------------
(* The first and the last of a set of places. *)

LEMMA LeastIs ==
  ASSUME NEW S \in SUBSET Nat, S # {}
  PROVE  Blocks!Least(S) \in S /\ \A j \in S : Blocks!Least(S) <= j
<1>1. \E i \in S : \A j \in S : i <= j
  BY LeastElement
<1> QED BY <1>1 DEF Blocks!Least

LEMMA LeastUnique ==
  ASSUME NEW S \in SUBSET Nat, NEW x \in S, \A j \in S : x <= j
  PROVE  Blocks!Least(S) = x
<1>1. Blocks!Least(S) \in S /\ \A j \in S : Blocks!Least(S) <= j
  BY LeastIs
<1>2. Blocks!Least(S) <= x /\ x <= Blocks!Least(S) /\ x \in Nat /\ Blocks!Least(S) \in Nat
  BY <1>1
<1> QED BY <1>2

LEMMA GreatestIs ==
  ASSUME NEW n \in Nat, NEW S \in SUBSET (1..n), S # {}
  PROVE  Blocks!Greatest(S) \in S /\ \A j \in S : Blocks!Greatest(S) >= j
<1> DEFINE T == {m \in Nat : \A j \in S : j <= m}
<1>1. n \in T
  OBVIOUS
<1>2. T \in SUBSET Nat
  OBVIOUS
<1>3. PICK m \in T : \A x \in T : m <= x
  BY <1>1, <1>2, LeastElement
<1>4. m \in Nat /\ \A j \in S : j <= m
  BY <1>3
<1>5. m \in S
  <2>1. SUFFICES ASSUME m \notin S PROVE FALSE
    OBVIOUS
  <2>2. PICK e \in S : TRUE
    OBVIOUS
  <2>3. \A j \in S : j \in Nat /\ j >= 1 /\ j < m
    BY <1>4, <2>1
  <2>4. m - 1 \in Nat /\ \A j \in S : j <= m - 1
    BY <1>4, <2>2, <2>3
  <2>5. m - 1 \in T
    BY <2>4
  <2>6. m <= m - 1
    BY <1>3, <2>5
  <2> QED BY <1>4, <2>6
<1>6. \E i \in S : \A j \in S : i >= j
  BY <1>4, <1>5
<1> QED BY <1>6 DEF Blocks!Greatest

LEMMA GreatestUnique ==
  ASSUME NEW n \in Nat, NEW S \in SUBSET (1..n), NEW x \in S, \A j \in S : x >= j
  PROVE  Blocks!Greatest(S) = x
<1>1. Blocks!Greatest(S) \in S /\ \A j \in S : Blocks!Greatest(S) >= j
  BY GreatestIs
<1>2. x >= Blocks!Greatest(S) /\ Blocks!Greatest(S) >= x
  BY <1>1
<1>3. x \in Nat /\ Blocks!Greatest(S) \in Nat
  <2>1. S \subseteq Nat
    OBVIOUS
  <2> QED BY <1>1, <2>1
<1> QED BY <1>2, <1>3

-----------------------------------------------------------------------------
(* The blocks around an instruction. *)

LEMMA AroundFacts ==
  ASSUME NEW i \in Nat
  PROVE  /\ Blocks!Around(i) \subseteq 1..(i - 1) /\ Blocks!Around(i) \subseteq 1..i
         /\ \A o \in Blocks!Around(i) :
              /\ o \in Nat \ {0} /\ o < i /\ code[o] \in {"if", "while"}
              /\ \A j \in (o + 1)..i : Blocks!Level(j) > Blocks!Level(o)
BY DEF Blocks!Around, Blocks!Opens

\* The same block is around everything in it.
LEMMA AroundInner ==
  ASSUME NEW i \in Nat, NEW o \in Blocks!Around(i), NEW j \in (o + 1)..i
  PROVE  o \in Blocks!Around(j)
<1>1. /\ o \in Nat \ {0} /\ o < i /\ code[o] \in {"if", "while"}
      /\ \A n \in (o + 1)..i : Blocks!Level(n) > Blocks!Level(o)
  BY AroundFacts
<1>2. o \in 1..(j - 1) /\ \A n \in (o + 1)..j : n \in (o + 1)..i
  BY <1>1
<1> QED BY <1>1, <1>2 DEF Blocks!Around, Blocks!Opens

\* Blocks around a block are around what is in it, and at lower levels.
LEMMA AroundOuter ==
  ASSUME NEW i \in Nat, NEW o \in Blocks!Around(i), NEW x \in Blocks!Around(o)
  PROVE  x \in Blocks!Around(i) /\ Blocks!Level(x) < Blocks!Level(o)
<1>1. /\ o \in Nat \ {0} /\ o < i
      /\ \A n \in (o + 1)..i : Blocks!Level(n) > Blocks!Level(o)
  BY AroundFacts
<1>2. /\ x \in Nat \ {0} /\ x < o /\ code[x] \in {"if", "while"}
      /\ \A n \in (x + 1)..o : Blocks!Level(n) > Blocks!Level(x)
  BY <1>1, AroundFacts
<1>3. Blocks!Level(o) > Blocks!Level(x)
  <2>1. o \in (x + 1)..o
    BY <1>1, <1>2
  <2> QED BY <1>2, <2>1
<1>4. \A n \in (x + 1)..i : Blocks!Level(n) > Blocks!Level(x)
  <2>1. \A n \in (x + 1)..i : n \in (x + 1)..o \/ n \in (o + 1)..i
    BY <1>1, <1>2
  <2>2. \A n \in (x + 1)..i : n \in Nat \ {0} /\ Blocks!Level(n) \in Int
    BY <1>1, <1>2, LevelStep
  <2>3. Blocks!Level(o) \in Int /\ Blocks!Level(x) \in Int
    BY <1>1, <1>2, LevelStep
  <2> QED BY <1>1, <1>2, <1>3, <2>1, <2>2, <2>3
<1>5. x \in 1..(i - 1)
  BY <1>1, <1>2
<1>6. Blocks!Level(o) \in Int /\ Blocks!Level(x) \in Int
  BY <1>1, <1>2, LevelStep
<1> QED BY <1>2, <1>3, <1>4, <1>5, <1>6 DEF Blocks!Around, Blocks!Opens

\* The innermost block, and the blocks around it.
LEMMA OpenOfFacts ==
  ASSUME NEW i \in Nat, Blocks!Around(i) # {}
  PROVE  /\ Blocks!OpenOf(i) \in Blocks!Around(i)
         /\ \A x \in Blocks!Around(i) : x <= Blocks!OpenOf(i)
         /\ Blocks!Around(Blocks!OpenOf(i)) = Blocks!Around(i) \ {Blocks!OpenOf(i)}
         /\ \A x \in Blocks!Around(i) \ {Blocks!OpenOf(i)} :
              Blocks!Level(x) < Blocks!Level(Blocks!OpenOf(i))
<1> DEFINE A == Blocks!Around(i)
           o == Blocks!OpenOf(i)
<1>1. A \in SUBSET (1..i) /\ A # {}
  BY AroundFacts
<1> HIDE DEF A
<1>2. o \in A /\ \A x \in A : o >= x
  BY <1>1, GreatestIs DEF Blocks!OpenOf, A
<1> HIDE DEF o
<1>3. o \in Nat /\ o < i /\ o \in Blocks!Around(i)
  BY <1>2, AroundFacts DEF A
<1>4. ASSUME NEW x \in A, x # o PROVE x \in Blocks!Around(o)
  <2>1. x \in Nat /\ x < o
    BY <1>1, <1>2, <1>3, <1>4
  <2>2. x \in Blocks!Around(i) /\ o \in (x + 1)..i
    BY <1>3, <2>1 DEF A
  <2> QED BY <2>2, AroundInner
<1>5. ASSUME NEW x \in Blocks!Around(o) PROVE x \in A /\ x # o /\ Blocks!Level(x) < Blocks!Level(o)
  <2>1. x \in Blocks!Around(i) /\ Blocks!Level(x) < Blocks!Level(o)
    BY <1>3, AroundOuter
  <2>2. x < o
    BY <1>3, AroundFacts
  <2> QED BY <1>3, <2>1, <2>2 DEF A
<1>6. \A x \in A : x <= o
  BY <1>1, <1>2, <1>3
<1>7. Blocks!Around(o) = A \ {o}
  BY <1>4, <1>5
<1> QED BY <1>2, <1>4, <1>5, <1>6, <1>7 DEF A, o

LEMMA IntervalEnd ==
  ASSUME NEW h \in Nat \ {0}, NEW o \in 1..(h - 1)
  PROVE  /\ o \in 1..h /\ o \in 1..((h + 1) - 1) /\ o # h
         /\ (o + 1)..(h + 1) = (o + 1)..h \cup {h + 1} /\ (o + 1)..h \subseteq 1..h
OBVIOUS

LEMMA AroundGrows ==
  ASSUME ParserTypes, NEW k \in Kinds, code' = Append(code, k), NEW h, h = Here
  PROVE  /\ \A i \in 1..h : Blocks!Around(i)' = Blocks!Around(i)
         /\ \A o : o \in Blocks!Around(h + 1)' <=>
              /\ o \in Blocks!Around(h) \/ (o = h /\ k \in {"if", "while"})
              /\ Blocks!Level(h) + Delta(k) > Blocks!Level(o)
<1>1. h \in Nat \ {0} /\ code'[h] = k /\ \A i \in 1..(h - 1) : code'[i] = code[i]
  BY HereFacts
<1>2. /\ \A i \in 1..h : Blocks!Level(i)' = Blocks!Level(i) /\ Blocks!Level(i) \in Int
      /\ Blocks!Level(h + 1)' = Blocks!Level(h) + Delta(k)
  BY LevelGrows
<1>3. ASSUME NEW i \in 1..h PROVE Blocks!Around(i)' = Blocks!Around(i)
  <2>1. \A o \in 1..(i - 1) : /\ o \in 1..(h - 1) /\ o \in 1..h
                              /\ \A j \in (o + 1)..i : j \in 1..h
    BY <1>1
  <2>2. \A o \in 1..(i - 1) : /\ code'[o] = code[o] /\ Blocks!Level(o)' = Blocks!Level(o)
                              /\ \A j \in (o + 1)..i : Blocks!Level(j)' = Blocks!Level(j)
    BY <1>1, <1>2, <2>1
  <2> QED BY <2>2 DEF Blocks!Around, Blocks!Opens
<1>4. ASSUME NEW o
      PROVE  o \in Blocks!Around(h + 1)' <=>
               /\ o \in Blocks!Around(h) \/ (o = h /\ k \in {"if", "while"})
               /\ Blocks!Level(h) + Delta(k) > Blocks!Level(o)
  <2>1. o \in Blocks!Around(h + 1)' <=>
          /\ o \in 1..((h + 1) - 1) /\ code'[o] \in {"if", "while"}
          /\ \A j \in (o + 1)..(h + 1) : Blocks!Level(j)' > Blocks!Level(o)'
    BY DEF Blocks!Around, Blocks!Opens
  <2>2. o \in Blocks!Around(h) <=>
          /\ o \in 1..(h - 1) /\ code[o] \in {"if", "while"}
          /\ \A j \in (o + 1)..h : Blocks!Level(j) > Blocks!Level(o)
    BY DEF Blocks!Around, Blocks!Opens
  <2>3. CASE o \in 1..(h - 1)
    <3>0. /\ o \in 1..h /\ o \in 1..((h + 1) - 1) /\ o # h
          /\ (o + 1)..(h + 1) = (o + 1)..h \cup {h + 1} /\ (o + 1)..h \subseteq 1..h
      BY <1>1, <2>3, IntervalEnd
    <3>1. /\ code'[o] = code[o] /\ Blocks!Level(o)' = Blocks!Level(o)
          /\ o \in 1..((h + 1) - 1) /\ o # h
          /\ (o + 1)..(h + 1) = (o + 1)..h \cup {h + 1} /\ (o + 1)..h \subseteq 1..h
      BY <1>1, <1>2, <2>3, <3>0
    <3>2. \A j \in (o + 1)..h : Blocks!Level(j)' = Blocks!Level(j)
      BY <1>2, <3>1
    <3> QED BY <1>2, <2>1, <2>2, <2>3, <3>1, <3>2
  <2>4. CASE o = h
    <3>0. /\ o \in 1..h /\ o \notin 1..(h - 1)
          /\ o \in 1..((h + 1) - 1) /\ (o + 1)..(h + 1) = {h + 1}
      BY <1>1, <2>4
    <3>1. /\ code'[o] = k /\ Blocks!Level(o)' = Blocks!Level(o) /\ o \notin 1..(h - 1)
          /\ o \in 1..((h + 1) - 1) /\ (o + 1)..(h + 1) = {h + 1}
      BY <1>1, <1>2, <2>4, <3>0
    <3> QED BY <1>2, <2>1, <2>2, <2>4, <3>1
  <2>5. CASE o \notin 1..h
    <3>1. o \notin 1..(h - 1) /\ o # h /\ o \notin 1..((h + 1) - 1)
      BY <1>1, <2>5
    <3> QED BY <2>1, <2>2, <3>1
  <2>6. o \in 1..h => o \in 1..(h - 1) \/ o = h
    BY <1>1
  <2> QED BY <2>3, <2>4, <2>5, <2>6
<1> QED BY <1>3, <1>4

LEMMA OpenOfGrows ==
  ASSUME ParserTypes, NEW k \in Kinds, code' = Append(code, k), NEW h, h = Here, NEW i \in 1..h
  PROVE  /\ Blocks!OpenOf(i)' = Blocks!OpenOf(i) /\ Blocks!LoopsOf(i)' = Blocks!LoopsOf(i)
         /\ Blocks!LoopOf(i)' = Blocks!LoopOf(i)
<1>1. Blocks!Around(i)' = Blocks!Around(i)
  BY AroundGrows
<1>2. \A o \in Blocks!Around(i) : code'[o] = code[o]
  <2>1. h \in Nat \ {0} /\ \A j \in 1..(h - 1) : code'[j] = code[j]
    BY HereFacts
  <2>2. Blocks!Around(i) \subseteq 1..(i - 1) /\ \A o \in 1..(i - 1) : o \in 1..(h - 1)
    BY <2>1, AroundFacts
  <2> QED BY <2>1, <2>2
<1>3. Blocks!LoopsOf(i)' = Blocks!LoopsOf(i)
  BY <1>1, <1>2 DEF Blocks!LoopsOf
<1>4. Blocks!OpenOf(i)' = Blocks!OpenOf(i)
  BY <1>1 DEF Blocks!OpenOf
<1>5. Blocks!LoopOf(i)' = Blocks!LoopOf(i)
  BY <1>3 DEF Blocks!LoopOf
<1> QED BY <1>3, <1>4, <1>5

\* Levels count the blocks: an instruction is one level above what opened its
\* block, and outside of all blocks at level 0.
Leveled ==
  \A i \in 1..Here : IF Blocks!Around(i) = {} THEN Blocks!Level(i) = 0
                     ELSE Blocks!Level(Blocks!OpenOf(i)) = Blocks!Level(i) - 1

LEMMA AroundNext ==
  ASSUME ParserTypes, NEW k \in Kinds, code' = Append(code, k), NEW h, h = Here, Leveled,
         k \in {"endif", "endwhile"} => Blocks!Around(h) # {}
  PROVE  Blocks!Around(h + 1)' =
           IF k \in {"if", "while"} THEN Blocks!Around(h) \cup {h}
           ELSE IF k \in {"endif", "endwhile"} THEN Blocks!Around(h) \ {Blocks!OpenOf(h)}
           ELSE Blocks!Around(h)
<1>1. h \in Nat \ {0} /\ h \in 1..h
  <2>1. h \in Nat \ {0}
    BY HereFacts
  <2> QED BY <2>1
<1>2. \A o : o \in Blocks!Around(h + 1)' <=>
        /\ o \in Blocks!Around(h) \/ (o = h /\ k \in {"if", "while"})
        /\ Blocks!Level(h) + Delta(k) > Blocks!Level(o)
  BY AroundGrows
<1>3. Blocks!Level(h) \in Int
  BY <1>1, LevelStep
<1>4. \A o \in Blocks!Around(h) : Blocks!Level(o) \in Int /\ Blocks!Level(h) > Blocks!Level(o)
  <2>1. \A o \in Blocks!Around(h) : o \in Nat \ {0} /\ h \in (o + 1)..h
    BY <1>1, AroundFacts
  <2> QED BY <1>1, <2>1, AroundFacts, LevelStep
<1>5. ASSUME k \in {"if", "while"} PROVE Blocks!Around(h + 1)' = Blocks!Around(h) \cup {h}
  <2>1. Delta(k) = 1
    BY <1>5 DEF Delta
  <2> QED BY <1>2, <1>3, <1>4, <1>5, <2>1
<1>6. ASSUME k \in {"endif", "endwhile"}
      PROVE  Blocks!Around(h + 1)' = Blocks!Around(h) \ {Blocks!OpenOf(h)}
  <2>1. Delta(k) = -1
    BY <1>6 DEF Delta
  <2>2. k \notin {"if", "while"}
    BY <1>6
  <2>3. /\ Blocks!OpenOf(h) \in Blocks!Around(h)
        /\ \A x \in Blocks!Around(h) \ {Blocks!OpenOf(h)} :
             Blocks!Level(x) < Blocks!Level(Blocks!OpenOf(h))
    BY <1>1, <1>6, OpenOfFacts
  <2>4. Blocks!Level(Blocks!OpenOf(h)) = Blocks!Level(h) - 1
    BY <1>1, <1>6 DEF Leveled
  <2> QED BY <1>2, <1>3, <1>4, <1>6, <2>1, <2>2, <2>3, <2>4
<1>7. ASSUME k \notin {"if", "while", "endif", "endwhile"}
      PROVE  Blocks!Around(h + 1)' = Blocks!Around(h)
  <2>1. Delta(k) = 0
    BY <1>7 DEF Delta
  <2>2. k \notin {"if", "while"} /\ Blocks!Level(h) + Delta(k) = Blocks!Level(h)
    BY <1>3, <1>7, <2>1
  <2>3. \A o : o \in Blocks!Around(h + 1)' <=> o \in Blocks!Around(h)
    BY <1>2, <1>4, <2>2
  <2> QED BY <2>3
<1>8. /\ k \in {"if", "while"} => k \notin {"endif", "endwhile"}
      /\ k \notin {"if", "while", "endif", "endwhile"} <=> k \notin {"if", "while"} /\ k \notin {"endif", "endwhile"}
  OBVIOUS
<1> QED BY <1>5, <1>6, <1>7, <1>8

LEMMA LeveledNext ==
  ASSUME ParserTypes, NEW k \in Kinds, code' = Append(code, k), NEW h, h = Here, Leveled,
         k \in {"endif", "endwhile"} => Blocks!Around(h) # {}
  PROVE  Leveled'
<1>1. /\ h \in Nat \ {0} /\ h \in 1..h /\ Here' = h + 1 /\ 1..(h + 1) = 1..h \cup {h + 1}
  <2>1. h \in Nat \ {0} /\ Len(code') = h
    BY HereFacts
  <2> QED BY <2>1 DEF Here
<1>2. Blocks!Around(h) \subseteq 1..h /\ \A o \in Blocks!Around(h) : o \in 1..h
  BY <1>1, AroundFacts
<1>3. /\ \A i \in 1..h : Blocks!Level(i)' = Blocks!Level(i) /\ Blocks!Level(i) \in Int
      /\ Blocks!Level(h + 1)' = Blocks!Level(h) + Delta(k)
  BY LevelGrows
<1>4. \A i \in 1..h : Blocks!Around(i)' = Blocks!Around(i) /\ Blocks!OpenOf(i)' = Blocks!OpenOf(i)
  BY AroundGrows, OpenOfGrows
<1>5. ASSUME NEW i \in 1..h
      PROVE  IF Blocks!Around(i)' = {} THEN Blocks!Level(i)' = 0
             ELSE \E o : o = Blocks!OpenOf(i)' /\ Blocks!Level(o)' = Blocks!Level(i)' - 1
  <2>1. CASE Blocks!Around(i) = {}
    BY <1>1, <1>3, <1>4, <2>1 DEF Leveled
  <2>2. CASE Blocks!Around(i) # {}
    <3>1. Blocks!OpenOf(i) \in Blocks!Around(i) /\ i \in Nat
      BY <1>1, <2>2, OpenOfFacts
    <3>2. PICK o : o = Blocks!OpenOf(i)
      OBVIOUS
    <3>3. o \in 1..h
      BY <1>1, <3>1, <3>2, AroundFacts
    <3>4. Blocks!Level(o) = Blocks!Level(i) - 1
      BY <1>1, <2>2, <3>2 DEF Leveled
    <3>5. Blocks!Level(o)' = Blocks!Level(i)' - 1 /\ o = Blocks!OpenOf(i)'
      BY <1>3, <1>4, <3>2, <3>3, <3>4
    <3> QED BY <1>4, <2>2, <3>5
  <2> QED BY <2>1, <2>2
<1>6. PICK A : A = Blocks!Around(h + 1)'
  OBVIOUS
<1>7. Blocks!OpenOf(h + 1)' = Blocks!Greatest(A)
  BY <1>6 DEF Blocks!OpenOf
<1>8. A = IF k \in {"if", "while"} THEN Blocks!Around(h) \cup {h}
          ELSE IF k \in {"endif", "endwhile"} THEN Blocks!Around(h) \ {Blocks!OpenOf(h)}
          ELSE Blocks!Around(h)
  BY <1>6, AroundNext
<1>9. IF A = {} THEN Blocks!Level(h + 1)' = 0
      ELSE \E o : o = Blocks!Greatest(A) /\ Blocks!Level(o)' = Blocks!Level(h + 1)' - 1
  <2>1. CASE k \in {"if", "while"}
    <3>1. A = Blocks!Around(h) \cup {h} /\ Delta(k) = 1
      BY <1>8, <2>1 DEF Delta
    <3>2. A \in SUBSET (1..h) /\ h \in A /\ \A x \in A : h >= x
      BY <1>1, <1>2, <3>1
    <3>3. Blocks!Greatest(A) = h
      BY <1>1, <3>2, GreatestUnique
    <3> QED BY <1>1, <1>3, <3>1, <3>2, <3>3
  <2>2. CASE k \in {"endif", "endwhile"}
    <3>1. PICK o : o = Blocks!OpenOf(h)
      OBVIOUS
    <3>2. A = Blocks!Around(h) \ {o} /\ Delta(k) = -1
      BY <1>8, <2>2, <3>1 DEF Delta
    <3>3. o \in Blocks!Around(h) /\ Blocks!Around(o) = A
      BY <1>1, <2>2, <3>1, <3>2, OpenOfFacts
    <3>4. Blocks!Level(o) = Blocks!Level(h) - 1 /\ o \in 1..h
      BY <1>1, <1>2, <2>2, <3>1, <3>3 DEF Leveled
    <3>5. Blocks!OpenOf(o) = Blocks!Greatest(A)
      BY <3>3 DEF Blocks!OpenOf
    <3>6. Blocks!Level(h + 1)' = Blocks!Level(o)
      BY <1>1, <1>3, <3>2, <3>4
    <3>7. CASE A = {}
      BY <3>3, <3>4, <3>6, <3>7, <1>1 DEF Leveled
    <3>8. CASE A # {}
      <4>1. PICK g : g = Blocks!Greatest(A)
        OBVIOUS
      <4>2. Blocks!Level(g) = Blocks!Level(o) - 1
        BY <1>1, <3>3, <3>4, <3>5, <3>8, <4>1 DEF Leveled
      <4>3. A \in SUBSET (1..h)
        BY <1>2, <3>2
      <4>4. g \in A
        BY <1>1, <3>8, <4>1, <4>3, GreatestIs
      <4>5. Blocks!Level(g)' = Blocks!Level(h + 1)' - 1
        BY <1>3, <3>6, <4>2, <4>3, <4>4
      <4> QED BY <3>8, <4>1, <4>5
    <3> QED BY <3>7, <3>8
  <2>3. CASE k \notin {"if", "while", "endif", "endwhile"}
    <3>1. A = Blocks!Around(h) /\ Delta(k) = 0
      BY <1>8, <2>3 DEF Delta
    <3>2. Blocks!OpenOf(h) = Blocks!Greatest(A)
      BY <3>1 DEF Blocks!OpenOf
    <3>3. Blocks!Level(h + 1)' = Blocks!Level(h)
      BY <1>1, <1>3, <3>1
    <3>4. CASE A = {}
      BY <1>1, <3>1, <3>3, <3>4 DEF Leveled
    <3>5. CASE A # {}
      <4>1. PICK g : g = Blocks!Greatest(A)
        OBVIOUS
      <4>2. Blocks!Level(g) = Blocks!Level(h) - 1
        BY <1>1, <3>1, <3>2, <3>5, <4>1 DEF Leveled
      <4>3. A \in SUBSET (1..h)
        BY <1>2, <3>1
      <4>4. g \in A
        BY <1>1, <3>5, <4>1, <4>3, GreatestIs
      <4>5. Blocks!Level(g)' = Blocks!Level(h + 1)' - 1
        BY <1>3, <3>3, <4>2, <4>3, <4>4
      <4> QED BY <3>5, <4>1, <4>5
    <3> QED BY <3>4, <3>5
  <2> QED BY <2>1, <2>2, <2>3
<1>10. \A i \in 1..(h + 1) :
         IF Blocks!Around(i)' = {} THEN Blocks!Level(i)' = 0
         ELSE \E o : o = Blocks!OpenOf(i)' /\ Blocks!Level(o)' = Blocks!Level(i)' - 1
  BY <1>1, <1>5, <1>6, <1>7, <1>9
<1> QED BY <1>1, <1>10 DEF Leveled

-----------------------------------------------------------------------------
(* What counting finds, described from behind. *)

\* The instruction at c closes the block that o opens.
ClosedAt(o, c) ==
  /\ c \in 1..Len(code) /\ code[c] \in {"endif", "endwhile"}
  /\ Blocks!Around(c) # {} /\ Blocks!OpenOf(c) = o

\* The instruction at j is a clause, or the end, of the if at o.
ClauseOf(j, o) ==
  code[j] \in {"elif", "else", "endif"} /\ Blocks!Around(j) # {} /\ Blocks!OpenOf(j) = o

FollowedBy(p, n) ==
  /\ n \in 1..Len(code) /\ p < n /\ ClauseOf(n, Blocks!HeadOf(p))
  /\ \A j \in (p + 1)..(n - 1) : ~ClauseOf(j, Blocks!HeadOf(p))

\* Sound, as a conjunction.
Fits(i) ==
  /\ code[i] # "junk"
  /\ code[i] \in {"elif", "else"} =>
       /\ Blocks!Around(i) # {} /\ code[Blocks!OpenOf(i)] = "if"
       /\ \A j \in (Blocks!OpenOf(i) + 1)..(i - 1) :
            code[j] = "else" => Blocks!OpenOf(j) # Blocks!OpenOf(i)
  /\ code[i] = "endif" => Blocks!Around(i) # {} /\ code[Blocks!OpenOf(i)] = "if"
  /\ code[i] = "endwhile" => Blocks!Around(i) # {} /\ code[Blocks!OpenOf(i)] = "while"
  /\ code[i] \in {"break", "continue"} => Blocks!LoopsOf(i) # {}

LEMMA FitsSound == \A i : (Fits(i) <=> Blocks!Sound(i)) /\ (Fits(i)' <=> Blocks!Sound(i)')
<1> TAKE i
<1>1. Fits(i) <=> Blocks!Sound(i)
  BY DEF Fits, Blocks!Sound, Blocks!Inside
<1>2. Fits(i)' <=> Blocks!Sound(i)'
  BY DEF Fits, Blocks!Sound, Blocks!Inside
<1> QED BY <1>1, <1>2

\* The block of o reaches up to its close, and no further.
LEMMA ClosedFacts ==
  ASSUME ParserTypes, Leveled, NEW o, NEW c, ClosedAt(o, c)
  PROVE  /\ c \in Nat \ {0} /\ o \in 1..(c - 1) /\ o \in Blocks!Around(c)
         /\ Blocks!Level(c) = Blocks!Level(o) + 1 /\ Blocks!Level(c + 1) = Blocks!Level(o)
         /\ Blocks!Level(o) \in Int /\ code[o] \in {"if", "while"}
         /\ \A i \in Nat : o \in Blocks!Around(i) => i <= c
<1>1. /\ c \in 1..Len(code) /\ code[c] \in {"endif", "endwhile"}
      /\ Blocks!Around(c) # {} /\ Blocks!OpenOf(c) = o /\ Len(code) \in Nat
  BY DEF ClosedAt, ParserTypes
<1>2. c \in Nat \ {0} /\ c \in 1..Here
  BY <1>1 DEF Here
<1>3. o \in Blocks!Around(c)
  BY <1>1, <1>2, OpenOfFacts
<1>4. o \in Nat \ {0} /\ o < c /\ code[o] \in {"if", "while"}
  BY <1>2, <1>3, AroundFacts
<1>5. Blocks!Level(o) = Blocks!Level(c) - 1
  BY <1>1, <1>2 DEF Leveled
<1>6. /\ Blocks!Level(o) \in Int /\ Blocks!Level(c) \in Int
      /\ Blocks!Level(c + 1) = Blocks!Level(c) + Delta(code[c])
  BY <1>2, <1>4, LevelStep
<1>7. Delta(code[c]) = -1
  BY <1>1 DEF Delta
<1>8. Blocks!Level(c) = Blocks!Level(o) + 1 /\ Blocks!Level(c + 1) = Blocks!Level(o)
  BY <1>5, <1>6, <1>7
<1>9. ASSUME NEW i \in Nat, o \in Blocks!Around(i), ~(i <= c) PROVE FALSE
  <2>1. c + 1 \in (o + 1)..i
    BY <1>2, <1>4, <1>9
  <2>2. Blocks!Level(c + 1) > Blocks!Level(o)
    BY <1>9, <2>1, AroundFacts
  <2> QED BY <1>6, <1>8, <2>2
<1> QED BY <1>2, <1>3, <1>4, <1>6, <1>8, <1>9

LEMMA ClosedIs ==
  ASSUME ParserTypes, Leveled, NEW o, NEW c, ClosedAt(o, c)
  PROVE  Blocks!CloseOf(o) = c
<1>1. /\ c \in Nat \ {0} /\ o \in 1..(c - 1) /\ o \in Blocks!Around(c)
      /\ Blocks!Level(c) = Blocks!Level(o) + 1 /\ Blocks!Level(o) \in Int
  BY ClosedFacts
<1>2. c \in 1..Len(code) /\ code[c] \in {"endif", "endwhile"} /\ Len(code) \in Nat
  BY DEF ClosedAt, ParserTypes
<1> DEFINE S == {j \in (o + 1)..Len(code) :
                   code[j] \in {"endif", "endwhile"} /\ Blocks!Level(j) = Blocks!Level(o) + 1}
<1>3. c \in S /\ S \in SUBSET Nat
  BY <1>1, <1>2
<1>4. ASSUME NEW j \in S, ~(c <= j) PROVE FALSE
  <2>1. /\ j \in (o + 1)..Len(code) /\ code[j] \in {"endif", "endwhile"}
        /\ Blocks!Level(j) = Blocks!Level(o) + 1
    OBVIOUS
  <2>2. j \in Nat \ {0} /\ j + 1 \in (o + 1)..c
    BY <1>1, <1>2, <1>4, <2>1
  <2>3. Blocks!Level(j + 1) > Blocks!Level(o)
    BY <1>1, <2>2, AroundFacts
  <2>4. Blocks!Level(j + 1) = Blocks!Level(j) + Delta(code[j])
    BY <2>2, LevelStep
  <2>5. Delta(code[j]) = -1
    BY <2>1 DEF Delta
  <2> QED BY <1>1, <2>1, <2>3, <2>4, <2>5
<1> HIDE DEF S
<1>5. Blocks!Least(S) = c
  BY <1>3, <1>4, LeastUnique
<1> QED BY <1>5 DEF S, Blocks!CloseOf, Blocks!Closes

LEMMA FollowedIs ==
  ASSUME ParserTypes, NEW p \in Nat, NEW n, FollowedBy(p, n)
  PROVE  Blocks!NextClause(p) = n
<1> DEFINE o == Blocks!HeadOf(p)
           S == Blocks!ClausesAfter(p, o)
<1>1. /\ n \in 1..Len(code) /\ p < n /\ ClauseOf(n, o)
      /\ \A j \in (p + 1)..(n - 1) : ~ClauseOf(j, o)
  BY DEF FollowedBy
<1>2. Len(code) \in Nat
  BY DEF ParserTypes
<1> HIDE DEF o
<1>3. S = {j \in (p + 1)..Len(code) : ClauseOf(j, o)}
  BY DEF Blocks!ClausesAfter, ClauseOf, Blocks!Inside
<1> HIDE DEF S
<1>4. n \in S /\ S \in SUBSET Nat
  BY <1>1, <1>2, <1>3
<1>5. ASSUME NEW j \in S, ~(n <= j) PROVE FALSE
  <2>1. j \in (p + 1)..Len(code) /\ ClauseOf(j, o)
    BY <1>3
  <2>2. j \in (p + 1)..(n - 1)
    BY <1>1, <1>2, <1>5, <2>1
  <2> QED BY <1>1, <2>1, <2>2
<1>6. Blocks!Least(S) = n
  BY <1>4, <1>5, LeastUnique
<1> QED BY <1>6 DEF S, o, Blocks!NextClause

LEMMA LoopOfFacts ==
  ASSUME NEW i \in Nat, Blocks!LoopsOf(i) # {}
  PROVE  /\ Blocks!LoopOf(i) \in Blocks!LoopsOf(i) /\ Blocks!LoopOf(i) \in Blocks!Around(i)
         /\ code[Blocks!LoopOf(i)] = "while" /\ Blocks!Around(i) # {}
         /\ \A x \in Blocks!LoopsOf(i) : x <= Blocks!LoopOf(i)
<1> DEFINE S == Blocks!LoopsOf(i)
<1>1. /\ S \in SUBSET (1..i) /\ S # {} /\ S \subseteq Blocks!Around(i)
      /\ \A x \in S : code[x] = "while"
  BY AroundFacts DEF Blocks!LoopsOf
<1> HIDE DEF S
<1>2. Blocks!Greatest(S) \in S /\ \A x \in S : Blocks!Greatest(S) >= x
  BY <1>1, GreatestIs
<1>3. \A x \in S : x <= Blocks!Greatest(S)
  BY <1>1, <1>2
<1> QED BY <1>1, <1>2, <1>3 DEF S, Blocks!LoopOf

\* What a further line leaves alone.
LEMMA BlocksGrow ==
  ASSUME ParserTypes, NEW k \in Kinds, code' = Append(code, k), NEW h, h = Here
  PROVE  /\ h \in Nat \ {0} /\ h \in 1..h /\ Len(code) = h - 1 /\ Len(code') = h /\ Here' = h + 1
         /\ code'[h] = k /\ \A i \in 1..(h - 1) : code'[i] = code[i] /\ i \in 1..h /\ i \in Nat
         /\ \A i \in 1..h : /\ Blocks!Around(i)' = Blocks!Around(i)
                            /\ Blocks!OpenOf(i)' = Blocks!OpenOf(i)
                            /\ Blocks!LoopsOf(i)' = Blocks!LoopsOf(i)
                            /\ Blocks!LoopOf(i)' = Blocks!LoopOf(i)
                            /\ Blocks!Around(i) \subseteq 1..(h - 1)
                            /\ Blocks!Around(i) # {} =>
                                 /\ Blocks!OpenOf(i) \in Blocks!Around(i)
                                 /\ code'[Blocks!OpenOf(i)] = code[Blocks!OpenOf(i)]
<1>1. /\ h \in Nat \ {0} /\ Len(code) \in Nat /\ h = Len(code) + 1 /\ Len(code') = h
      /\ code'[h] = k /\ \A i \in 1..(h - 1) : code'[i] = code[i]
  BY HereFacts
<1>2. Here' = h + 1
  BY <1>1 DEF Here
<1>3. h \in 1..h /\ Len(code) = h - 1 /\ \A i \in 1..(h - 1) : i \in 1..h /\ i \in Nat
  BY <1>1
<1>4. ASSUME NEW i \in 1..h
      PROVE  /\ Blocks!Around(i)' = Blocks!Around(i)
             /\ Blocks!OpenOf(i)' = Blocks!OpenOf(i)
             /\ Blocks!LoopsOf(i)' = Blocks!LoopsOf(i)
             /\ Blocks!LoopOf(i)' = Blocks!LoopOf(i)
  BY AroundGrows, OpenOfGrows
<1>5. ASSUME NEW i \in 1..h
      PROVE  /\ Blocks!Around(i) \subseteq 1..(h - 1)
             /\ Blocks!Around(i) # {} =>
                  /\ Blocks!OpenOf(i) \in Blocks!Around(i)
                  /\ code'[Blocks!OpenOf(i)] = code[Blocks!OpenOf(i)]
  <2>1. i \in Nat /\ 1..(i - 1) \subseteq 1..(h - 1)
    BY <1>1
  <2>2. Blocks!Around(i) \subseteq 1..(h - 1)
    BY <2>1, AroundFacts
  <2>3. Blocks!Around(i) # {} => Blocks!OpenOf(i) \in Blocks!Around(i)
    BY <2>1, OpenOfFacts
  <2> QED BY <1>1, <2>2, <2>3
<1> QED BY <1>1, <1>2, <1>3, <1>4, <1>5

LEMMA ClosedGrows ==
  ASSUME ParserTypes, NEW k \in Kinds, code' = Append(code, k), NEW h, h = Here
  PROVE  /\ \A o, c : ClosedAt(o, c) => ClosedAt(o, c)'
         /\ \A o : k \in {"endif", "endwhile"} /\ Blocks!Around(h) # {} /\ Blocks!OpenOf(h) = o
                     => ClosedAt(o, h)'
<1>1. /\ h \in Nat \ {0} /\ h \in 1..h /\ Len(code) = h - 1 /\ Len(code') = h
      /\ code'[h] = k /\ \A i \in 1..(h - 1) : code'[i] = code[i] /\ i \in 1..h
      /\ \A i \in 1..h : /\ Blocks!Around(i)' = Blocks!Around(i)
                         /\ Blocks!OpenOf(i)' = Blocks!OpenOf(i)
  BY BlocksGrow
<1> QED BY <1>1 DEF ClosedAt

LEMMA ClauseGrows ==
  ASSUME ParserTypes, NEW k \in Kinds, code' = Append(code, k), NEW h, h = Here
  PROVE  /\ \A j \in 1..(h - 1) : \A o : ClauseOf(j, o)' <=> ClauseOf(j, o)
         /\ \A o : ClauseOf(h, o)' <=>
              k \in {"elif", "else", "endif"} /\ Blocks!Around(h) # {} /\ Blocks!OpenOf(h) = o
         /\ \A p \in 1..(h - 1) : Blocks!HeadOf(p)' = Blocks!HeadOf(p)
<1>1. /\ h \in Nat \ {0} /\ h \in 1..h
      /\ code'[h] = k /\ \A i \in 1..(h - 1) : code'[i] = code[i] /\ i \in 1..h
      /\ \A i \in 1..h : /\ Blocks!Around(i)' = Blocks!Around(i)
                         /\ Blocks!OpenOf(i)' = Blocks!OpenOf(i)
  BY BlocksGrow
<1>2. \A j \in 1..(h - 1) : \A o : ClauseOf(j, o)' <=> ClauseOf(j, o)
  BY <1>1 DEF ClauseOf
<1>3. \A o : ClauseOf(h, o)' <=>
         k \in {"elif", "else", "endif"} /\ Blocks!Around(h) # {} /\ Blocks!OpenOf(h) = o
  BY <1>1 DEF ClauseOf
<1>4. \A p \in 1..(h - 1) : Blocks!HeadOf(p)' = Blocks!HeadOf(p)
  BY <1>1 DEF Blocks!HeadOf
<1> QED BY <1>2, <1>3, <1>4

LEMMA FollowedGrows ==
  ASSUME ParserTypes, NEW k \in Kinds, code' = Append(code, k), NEW h, h = Here,
         NEW p \in 1..(h - 1)
  PROVE  /\ \A n : FollowedBy(p, n) => FollowedBy(p, n)'
         /\ /\ k \in {"elif", "else", "endif"} /\ Blocks!Around(h) # {}
            /\ Blocks!OpenOf(h) = Blocks!HeadOf(p)
            /\ \A j \in (p + 1)..(h - 1) : ~ClauseOf(j, Blocks!HeadOf(p))
            => FollowedBy(p, h)'
<1>1. h \in Nat \ {0} /\ Len(code) = h - 1 /\ Len(code') = h
  BY BlocksGrow
<1>2. PICK o : o = Blocks!HeadOf(p)
  OBVIOUS
<1>3. Blocks!HeadOf(p)' = o
  BY <1>2, ClauseGrows
<1>4. /\ \A j \in 1..(h - 1) : ClauseOf(j, o)' <=> ClauseOf(j, o)
      /\ ClauseOf(h, o)' <=>
              k \in {"elif", "else", "endif"} /\ Blocks!Around(h) # {} /\ Blocks!OpenOf(h) = o
  BY ClauseGrows
<1>5. \A n : FollowedBy(p, n)' <=> /\ n \in 1..h /\ p < n /\ ClauseOf(n, o)'
                                   /\ \A j \in (p + 1)..(n - 1) : ~ClauseOf(j, o)'
  BY <1>1, <1>3 DEF FollowedBy
<1>6. ASSUME NEW n, FollowedBy(p, n) PROVE FollowedBy(p, n)'
  <2>1. /\ n \in 1..(h - 1) /\ p < n /\ ClauseOf(n, o)
        /\ \A j \in (p + 1)..(n - 1) : ~ClauseOf(j, o)
    BY <1>1, <1>2, <1>6 DEF FollowedBy
  <2>2. n \in 1..h /\ \A j \in (p + 1)..(n - 1) : j \in 1..(h - 1)
    BY <1>1, <2>1
  <2> QED BY <1>4, <1>5, <2>1, <2>2
<1>7. ASSUME k \in {"elif", "else", "endif"}, Blocks!Around(h) # {}, Blocks!OpenOf(h) = o,
             \A j \in (p + 1)..(h - 1) : ~ClauseOf(j, o)
      PROVE  FollowedBy(p, h)'
  <2>1. h \in 1..h /\ p < h /\ \A j \in (p + 1)..(h - 1) : j \in 1..(h - 1)
    BY <1>1
  <2> QED BY <1>4, <1>5, <1>7, <2>1
<1> QED BY <1>2, <1>6, <1>7

LEMMA FitsGrows ==
  ASSUME ParserTypes, NEW k \in Kinds, code' = Append(code, k), NEW h, h = Here
  PROVE  \A i \in 1..(h - 1) : Fits(i) => Fits(i)'
<1>1. /\ h \in Nat \ {0}
      /\ \A i \in 1..(h - 1) : code'[i] = code[i] /\ i \in 1..h /\ i \in Nat
      /\ \A i \in 1..h : /\ Blocks!Around(i)' = Blocks!Around(i)
                         /\ Blocks!OpenOf(i)' = Blocks!OpenOf(i)
                         /\ Blocks!LoopsOf(i)' = Blocks!LoopsOf(i)
                         /\ Blocks!Around(i) \subseteq 1..(h - 1)
                         /\ Blocks!Around(i) # {} =>
                              /\ Blocks!OpenOf(i) \in Blocks!Around(i)
                              /\ code'[Blocks!OpenOf(i)] = code[Blocks!OpenOf(i)]
  BY BlocksGrow
<1> TAKE i \in 1..(h - 1)
<1>2. /\ i \in 1..h /\ code'[i] = code[i] /\ Blocks!Around(i)' = Blocks!Around(i)
      /\ Blocks!OpenOf(i)' = Blocks!OpenOf(i) /\ Blocks!LoopsOf(i)' = Blocks!LoopsOf(i)
      /\ Blocks!Around(i) # {} => code'[Blocks!OpenOf(i)] = code[Blocks!OpenOf(i)]
  BY <1>1
<1>3. ASSUME Blocks!Around(i) # {}, NEW j \in (Blocks!OpenOf(i) + 1)..(i - 1)
      PROVE  code'[j] = code[j] /\ Blocks!OpenOf(j)' = Blocks!OpenOf(j)
  <2>1. Blocks!OpenOf(i) \in 1..(h - 1)
    BY <1>1, <1>2, <1>3
  <2>2. j \in 1..(h - 1)
    <3>1. PICK o \in 1..(h - 1) : o = Blocks!OpenOf(i)
      BY <2>1
    <3>2. j \in (o + 1)..(i - 1)
      BY <1>3, <3>1
    <3> QED BY <1>1, <3>2
  <2> QED BY <1>1, <2>2
<1> QED BY <1>2, <1>3 DEF Fits

LEMMA FitsHere ==
  ASSUME ParserTypes, NEW k \in Kinds, code' = Append(code, k), NEW h, h = Here
  PROVE  Fits(h)' <=>
    /\ k # "junk"
    /\ k \in {"elif", "else"} =>
         /\ Blocks!Around(h) # {} /\ code[Blocks!OpenOf(h)] = "if"
         /\ \A j \in (Blocks!OpenOf(h) + 1)..(h - 1) :
              code[j] = "else" => Blocks!OpenOf(j) # Blocks!OpenOf(h)
    /\ k = "endif" => Blocks!Around(h) # {} /\ code[Blocks!OpenOf(h)] = "if"
    /\ k = "endwhile" => Blocks!Around(h) # {} /\ code[Blocks!OpenOf(h)] = "while"
    /\ k \in {"break", "continue"} => Blocks!LoopsOf(h) # {}
<1>1. /\ h \in Nat \ {0} /\ h \in 1..h /\ code'[h] = k
      /\ \A i \in 1..(h - 1) : code'[i] = code[i] /\ i \in 1..h /\ i \in Nat
      /\ \A i \in 1..h : /\ Blocks!Around(i)' = Blocks!Around(i)
                         /\ Blocks!OpenOf(i)' = Blocks!OpenOf(i)
                         /\ Blocks!LoopsOf(i)' = Blocks!LoopsOf(i)
                         /\ Blocks!Around(i) \subseteq 1..(h - 1)
                         /\ Blocks!Around(i) # {} =>
                              /\ Blocks!OpenOf(i) \in Blocks!Around(i)
                              /\ code'[Blocks!OpenOf(i)] = code[Blocks!OpenOf(i)]
  BY BlocksGrow
<1>2. /\ Blocks!Around(h)' = Blocks!Around(h)
      /\ Blocks!OpenOf(h)' = Blocks!OpenOf(h) /\ Blocks!LoopsOf(h)' = Blocks!LoopsOf(h)
      /\ Blocks!Around(h) # {} => code'[Blocks!OpenOf(h)] = code[Blocks!OpenOf(h)]
  BY <1>1
<1>3. ASSUME Blocks!Around(h) # {}, NEW j \in (Blocks!OpenOf(h) + 1)..(h - 1)
      PROVE  code'[j] = code[j] /\ Blocks!OpenOf(j)' = Blocks!OpenOf(j)
  <2>1. PICK o \in 1..(h - 1) : o = Blocks!OpenOf(h)
    BY <1>1, <1>3
  <2>2. j \in (o + 1)..(h - 1)
    BY <1>3, <2>1
  <2>3. j \in 1..(h - 1)
    BY <1>1, <2>2
  <2> QED BY <1>1, <2>3
<1>4. PICK o : o = Blocks!OpenOf(h)
  OBVIOUS
<1>5. Fits(h)' <=>
    /\ k # "junk"
    /\ k \in {"elif", "else"} =>
         /\ Blocks!Around(h) # {} /\ code'[o] = "if"
         /\ \A j \in (o + 1)..(h - 1) : code'[j] = "else" => Blocks!OpenOf(j)' # o
    /\ k = "endif" => Blocks!Around(h) # {} /\ code'[o] = "if"
    /\ k = "endwhile" => Blocks!Around(h) # {} /\ code'[o] = "while"
    /\ k \in {"break", "continue"} => Blocks!LoopsOf(h) # {}
  BY <1>1, <1>2, <1>4 DEF Fits
<1>6. Blocks!Around(h) # {} =>
        /\ code'[o] = code[o]
        /\ \A j \in (o + 1)..(h - 1) : code'[j] = code[j] /\ Blocks!OpenOf(j)' = Blocks!OpenOf(j)
  BY <1>2, <1>3, <1>4
<1> QED BY <1>4, <1>5, <1>6

-----------------------------------------------------------------------------
(* The stack of the parser and the blocks that are open. *)

AllFit == \A i \in 1..Len(code) : Fits(i)

\* A frame of the stack opens a block around the next line, or is a clause of one.
Framed(p) ==
  \/ code[p] \in {"if", "while"} /\ p \in Blocks!Around(Here)
  \/ /\ code[p] \in {"elif", "else"} /\ Blocks!Around(p) # {}
     /\ Blocks!OpenOf(p) \in Blocks!Around(Here)
Frames == Elements(stack) = {p \in 1..Len(code) : Framed(p)}

LEMMA FrameFacts ==
  ASSUME ParserTypes, Frames, NEW h, h = Here
  PROVE  /\ h \in Nat \ {0} /\ Len(code) = h - 1 /\ Len(code) \in Nat
         /\ Elements(stack) \subseteq 1..(h - 1) /\ Blocks!Around(h) \subseteq Elements(stack)
         /\ \A p \in Elements(stack) :
              \/ code[p] \in {"if", "while"} /\ p \in Blocks!Around(h)
              \/ /\ code[p] \in {"elif", "else"} /\ Blocks!Around(p) # {}
                 /\ Blocks!OpenOf(p) \in Blocks!Around(h)
         /\ \A p \in 1..(h - 1) :
              code[p] \in {"elif", "else"} /\ Blocks!Around(p) # {}
                /\ Blocks!OpenOf(p) \in Blocks!Around(h) => p \in Elements(stack)
<1>1. h \in Nat \ {0} /\ Len(code) = h - 1 /\ Len(code) \in Nat
  BY DEF ParserTypes, Here
<1>2. \A p : p \in Elements(stack) <=>
        /\ p \in 1..(h - 1)
        /\ \/ code[p] \in {"if", "while"} /\ p \in Blocks!Around(h)
           \/ /\ code[p] \in {"elif", "else"} /\ Blocks!Around(p) # {}
              /\ Blocks!OpenOf(p) \in Blocks!Around(h)
  BY <1>1 DEF Frames, Framed
<1>3. \A p \in Blocks!Around(h) : p \in 1..(h - 1) /\ code[p] \in {"if", "while"}
  BY <1>1, AroundFacts
<1> QED BY <1>1, <1>2, <1>3

\* Above the innermost block there are its clauses, and nothing else.
LEMMA TopFacts ==
  ASSUME ParserTypes, Nested, AllFit, Frames, NEW h, h = Here
  PROVE  /\ stack = <<>> <=> Blocks!Around(h) = {}
         /\ \A o : Blocks!Around(h) # {} /\ o = Blocks!OpenOf(h) =>
              /\ o \in Blocks!Around(h) /\ o \in Elements(stack) /\ code[o] \in {"if", "while"}
              /\ Last(stack) \in Elements(stack)
              /\ \A p \in Elements(stack) : p <= Last(stack)
              /\ \A p \in Elements(stack) : p = o \/ p < o \/ (p > o /\ ClauseOf(p, o))
              /\ \A p \in Elements(stack) : p > o => code[o] = "if" /\ code[p] \in {"elif", "else"}
<1>1. /\ h \in Nat \ {0} /\ Len(code) = h - 1
      /\ Elements(stack) \subseteq 1..(h - 1) /\ Blocks!Around(h) \subseteq Elements(stack)
      /\ \A p \in Elements(stack) :
              \/ code[p] \in {"if", "while"} /\ p \in Blocks!Around(h)
              \/ /\ code[p] \in {"elif", "else"} /\ Blocks!Around(p) # {}
                 /\ Blocks!OpenOf(p) \in Blocks!Around(h)
  BY FrameFacts
<1>2. ASSUME stack = <<>> PROVE Blocks!Around(h) = {}
  <2>1. Elements(stack) = {}
    BY <1>2 DEF Elements
  <2> QED BY <1>1, <2>1
<1>3. ASSUME stack # <<>>
      PROVE  /\ Last(stack) \in Elements(stack) /\ Blocks!Around(h) # {}
             /\ \A p \in Elements(stack) : p <= Last(stack)
  <2>1. stack \in Seq(Nat) /\ Rising(stack)
    BY DEF ParserTypes, Nested
  <2>2. Last(stack) \in Elements(stack) /\ \A p \in Elements(stack) : p <= Last(stack)
    BY <1>3, <2>1, LastFacts
  <2> QED BY <1>1, <2>2
<1>4. ASSUME NEW o, Blocks!Around(h) # {}, o = Blocks!OpenOf(h)
      PROVE  /\ o \in Blocks!Around(h) /\ o \in Elements(stack) /\ code[o] \in {"if", "while"}
             /\ \A p \in Elements(stack) : p = o \/ p < o \/ (p > o /\ ClauseOf(p, o))
             /\ \A p \in Elements(stack) : p > o => code[o] = "if" /\ code[p] \in {"elif", "else"}
  <2>1. o \in Blocks!Around(h) /\ \A x \in Blocks!Around(h) : x <= o
    BY <1>1, <1>4, OpenOfFacts
  <2>2. o \in Elements(stack) /\ o \in 1..(h - 1) /\ code[o] \in {"if", "while"}
    BY <1>1, <2>1, AroundFacts
  <2>3. ASSUME NEW p \in Elements(stack), p > o
        PROVE  ClauseOf(p, o) /\ code[o] = "if" /\ code[p] \in {"elif", "else"}
    <3>1. p \notin Blocks!Around(h) /\ p \in 1..(h - 1)
      BY <1>1, <2>1, <2>2, <2>3
    <3>2. PICK x : x = Blocks!OpenOf(p)
      OBVIOUS
    <3>3. /\ code[p] \in {"elif", "else"} /\ Blocks!Around(p) # {} /\ x \in Blocks!Around(h)
      BY <1>1, <3>1, <3>2
    <3>4. o \in Blocks!Around(p)
      <4>1. p \in (o + 1)..h
        BY <1>1, <2>2, <2>3, <3>1
      <4> QED BY <1>1, <2>1, <4>1, AroundInner
    <3>5. o <= x /\ x <= o /\ x \in Nat
      <4>1. o <= x
        BY <1>1, <3>1, <3>2, <3>4, OpenOfFacts
      <4> QED BY <1>1, <2>1, <3>3, <4>1
    <3>6. x = o
      BY <2>2, <3>5
    <3>7. Fits(p)
      BY <1>1, <3>1 DEF AllFit
    <3>8. code[x] = "if"
      BY <3>2, <3>3, <3>7 DEF Fits
    <3> QED BY <3>2, <3>3, <3>6, <3>8 DEF ClauseOf
  <2>4. \A p \in Elements(stack) : p = o \/ p < o \/ p > o
    BY <1>1, <2>2
  <2> QED BY <2>1, <2>2, <2>3, <2>4
<1> QED BY <1>2, <1>3, <1>4

\* The loops are those around the next line.
LEMMA WhileFacts ==
  ASSUME ParserTypes, Loops, Frames, NEW h, h = Here
  PROVE  /\ whiles = <<>> <=> Blocks!LoopsOf(h) = {}
         /\ Elements(whiles) = Blocks!LoopsOf(h)
         /\ whiles # <<>> => Last(whiles) = Blocks!LoopOf(h) /\ Last(whiles) = whiles[Len(whiles)]
<1>1. /\ h \in Nat \ {0} /\ Len(code) = h - 1
      /\ Elements(stack) \subseteq 1..(h - 1) /\ Blocks!Around(h) \subseteq Elements(stack)
      /\ \A p \in Elements(stack) :
              \/ code[p] \in {"if", "while"} /\ p \in Blocks!Around(h)
              \/ /\ code[p] \in {"elif", "else"} /\ Blocks!Around(p) # {}
                 /\ Blocks!OpenOf(p) \in Blocks!Around(h)
  BY FrameFacts
<1>2. Elements(whiles) = Blocks!LoopsOf(h)
  BY <1>1 DEF Loops, Blocks!LoopsOf
<1>3. whiles = <<>> => Elements(whiles) = {}
  BY DEF Elements
<1>4. ASSUME whiles # <<>> PROVE /\ Blocks!LoopsOf(h) # {} /\ Last(whiles) = Blocks!LoopOf(h)
                                 /\ Last(whiles) = whiles[Len(whiles)]
  <2>1. whiles \in Seq(Nat) /\ Rising(whiles)
    BY DEF ParserTypes, Loops
  <2>2. Last(whiles) \in Elements(whiles) /\ \A p \in Elements(whiles) : p <= Last(whiles)
    BY <1>4, <2>1, LastFacts
  <2>3. Elements(whiles) \in SUBSET (1..(h - 1)) /\ h - 1 \in Nat
    BY <1>1, <1>2 DEF Blocks!LoopsOf
  <2>4. \A p \in Elements(whiles) : Last(whiles) >= p
    BY <2>2, <2>3
  <2>5. Blocks!Greatest(Elements(whiles)) = Last(whiles)
    BY <2>2, <2>3, <2>4, GreatestUnique
  <2> QED BY <1>2, <2>2, <2>5 DEF Blocks!LoopOf, Last
<1> QED BY <1>2, <1>3, <1>4

\* The parser refuses what is out of place, and nothing else.
LEMMA MisplacedFits ==
  ASSUME ParserTypes, Nested, Loops, AllFit, Frames, NEW k \in Kinds, code' = Append(code, k),
         NEW h, h = Here
  PROVE  Fits(h)' <=> ~Misplaced(k)
<1>1. /\ stack = <<>> <=> Blocks!Around(h) = {}
      /\ \A o : Blocks!Around(h) # {} /\ o = Blocks!OpenOf(h) =>
              /\ o \in Blocks!Around(h) /\ o \in Elements(stack) /\ code[o] \in {"if", "while"}
              /\ Last(stack) \in Elements(stack)
              /\ \A p \in Elements(stack) : p <= Last(stack)
              /\ \A p \in Elements(stack) : p = o \/ p < o \/ (p > o /\ ClauseOf(p, o))
              /\ \A p \in Elements(stack) : p > o => code[o] = "if" /\ code[p] \in {"elif", "else"}
  BY TopFacts
<1>2. whiles = <<>> <=> Blocks!LoopsOf(h) = {}
  BY WhileFacts
<1>3. /\ h \in Nat \ {0} /\ Len(code) = h - 1 /\ Elements(stack) \subseteq 1..(h - 1)
      /\ \A p \in 1..(h - 1) :
              code[p] \in {"elif", "else"} /\ Blocks!Around(p) # {}
                /\ Blocks!OpenOf(p) \in Blocks!Around(h) => p \in Elements(stack)
  BY FrameFacts
<1>4. ASSUME Blocks!Around(h) = {} PROVE Top = "none"
  BY <1>1, <1>4 DEF Top
<1>5. ASSUME Blocks!Around(h) # {}, NEW o, o = Blocks!OpenOf(h)
      PROVE  /\ Top = "while" <=> code[o] = "while"
             /\ Top \in {"if", "elif", "else"} <=> code[o] = "if"
             /\ Top = "else" <=> \E j \in (o + 1)..(h - 1) : code[j] = "else" /\ Blocks!OpenOf(j) = o
  <2>1. /\ o \in Blocks!Around(h) /\ o \in Elements(stack) /\ code[o] \in {"if", "while"}
        /\ Last(stack) \in Elements(stack)
        /\ \A p \in Elements(stack) : p <= Last(stack)
        /\ \A p \in Elements(stack) : p = o \/ p < o \/ (p > o /\ ClauseOf(p, o))
        /\ \A p \in Elements(stack) : p > o => code[o] = "if" /\ code[p] \in {"elif", "else"}
    BY <1>1, <1>5
  <2>2. PICK t : t = Last(stack)
    OBVIOUS
  <2>3. Top = code[t] /\ t \in 1..(h - 1) /\ o \in 1..(h - 1) /\ o <= t
    BY <1>1, <1>3, <1>5, <2>1, <2>2 DEF Top
  <2>4. t = o \/ (t > o /\ ClauseOf(t, o) /\ code[o] = "if" /\ code[t] \in {"elif", "else"})
    <3>0. \A x, y \in Int : x <= y => y = x \/ y > x
      OBVIOUS
    <3>1. t = o \/ t > o
      <4>1. t \in Int /\ o \in Int
        BY <1>3, <2>3
      <4> QED BY <2>3, <3>0, <4>1
    <3>2. t \in Elements(stack)
      BY <2>1, <2>2
    <3>3. ~(t < o)
      BY <1>3, <2>3
    <3>4. t > o => ClauseOf(t, o)
      BY <2>1, <3>1, <3>2, <3>3
    <3> QED BY <2>1, <3>1, <3>2, <3>4
  <2>5. ASSUME code[t] = "else"
        PROVE  \E j \in (o + 1)..(h - 1) : code[j] = "else" /\ Blocks!OpenOf(j) = o
    <3>1. t > o /\ ClauseOf(t, o)
      BY <2>1, <2>4, <2>5
    <3>2. t \in (o + 1)..(h - 1) /\ Blocks!OpenOf(t) = o
      BY <2>3, <3>1 DEF ClauseOf
    <3> QED BY <2>5, <3>2
  <2>6. ASSUME NEW j \in (o + 1)..(h - 1), code[j] = "else", Blocks!OpenOf(j) = o
        PROVE  code[t] = "else"
    <3>1. j \in 1..(h - 1) /\ j \in (o + 1)..h /\ j > o
      BY <1>3, <2>3
    <3>2. o \in Blocks!Around(j)
      BY <1>3, <2>1, <3>1, AroundInner
    <3>3. j \in Elements(stack)
      BY <1>3, <2>1, <2>6, <3>1, <3>2
    <3>4. j <= t
      BY <2>1, <2>2, <3>3
    <3>5. t > o /\ ClauseOf(t, o) /\ code[t] \in {"elif", "else"}
      BY <2>3, <2>4, <3>1, <3>4
    <3>6. ~(j < t)
      <4>1. SUFFICES ASSUME j < t PROVE FALSE
        OBVIOUS
      <4>2. Fits(t)
        BY <1>3, <2>3 DEF AllFit
      <4>3. Blocks!OpenOf(t) = o
        BY <3>5 DEF ClauseOf
      <4>4. j \in (Blocks!OpenOf(t) + 1)..(t - 1)
        <5>1. j \in (o + 1)..(t - 1)
          BY <2>3, <3>1, <4>1
        <5> QED BY <4>3, <5>1
      <4> QED BY <2>6, <3>5, <4>2, <4>3, <4>4 DEF Fits
    <3>7. j = t
      BY <2>3, <3>1, <3>4, <3>6
    <3> QED BY <2>6, <3>7
  <2> QED BY <2>1, <2>3, <2>4, <2>5, <2>6
<1>6. PICK o : o = Blocks!OpenOf(h)
  OBVIOUS
<1>7. Fits(h)' <=>
    /\ k # "junk"
    /\ k \in {"elif", "else"} =>
         /\ Blocks!Around(h) # {} /\ code[o] = "if"
         /\ \A j \in (o + 1)..(h - 1) : code[j] = "else" => Blocks!OpenOf(j) # o
    /\ k = "endif" => Blocks!Around(h) # {} /\ code[o] = "if"
    /\ k = "endwhile" => Blocks!Around(h) # {} /\ code[o] = "while"
    /\ k \in {"break", "continue"} => Blocks!LoopsOf(h) # {}
  BY <1>6, FitsHere
<1>8. CASE Blocks!Around(h) = {}
  <2>1. Top = "none"
    BY <1>4, <1>8
  <2> QED BY <1>2, <1>7, <1>8, <2>1 DEF Misplaced
<1>9. CASE Blocks!Around(h) # {}
  <2>1. /\ Top = "while" <=> code[o] = "while"
        /\ Top \in {"if", "elif", "else"} <=> code[o] = "if"
        /\ Top = "else" <=> \E j \in (o + 1)..(h - 1) : code[j] = "else" /\ Blocks!OpenOf(j) = o
    BY <1>5, <1>6, <1>9
  <2>2. Top \in {"if", "elif"} <=>
          code[o] = "if" /\ \A j \in (o + 1)..(h - 1) : code[j] = "else" => Blocks!OpenOf(j) # o
    BY <2>1
  <2> QED BY <1>2, <1>7, <1>9, <2>1, <2>2 DEF Misplaced
<1> QED BY <1>8, <1>9

-----------------------------------------------------------------------------
(* The jump table and what counting finds. *)

\* Every block is open, or has its close.
Shut ==
  \A o \in 1..Len(code) : code[o] \in {"if", "while"} =>
    o \in Blocks!Around(Here) \/ \E c \in 1..Len(code) : ClosedAt(o, c)

\* The entry e of the instruction at p leads where blocks say.
Means(p, e) ==
  /\ code[p] \in {"if", "elif"} => FollowedBy(p, e.onFalse)
  /\ code[p] = "while" => ClosedAt(p, e.onFalse)
  /\ code[p] \in {"endwhile", "continue"} => e.onEnd = Blocks!LoopOf(p)
  /\ code[p] = "break" => ClosedAt(Blocks!LoopOf(p), e.onEnd)

\* A clause learns the end of its if when that is read.
Table ==
  \A p \in DOMAIN jumps :
    /\ Means(p, jumps[p])
    /\ code[p] \in {"elif", "else"} =>
         \/ Blocks!OpenOf(p) \in Blocks!Around(Here)
         \/ ClosedAt(Blocks!OpenOf(p), jumps[p].onEnd)

\* A condition on the stack without an entry is the last clause of its if.
Chained ==
  \A p, j \in Elements(stack) :
    /\ p < j /\ code[p] \in {"if", "elif"} /\ code[j] \in {"elif", "else"}
    /\ Blocks!OpenOf(j) = Blocks!HeadOf(p)
    => p \in DOMAIN jumps

\* A break belongs to the loop at its level.
BreaksOut ==
  \A i \in DOMAIN breaks :
    /\ code[breaks[i].pc] = "break"
    /\ Blocks!LoopOf(breaks[i].pc) = whiles[breaks[i].level]

BlockInv == AllFit /\ Leveled /\ Frames /\ Shut /\ Table /\ Chained /\ BreaksOut

LEMMA PatchedIs ==
  ASSUME NEW new, jumps' = Patched(new)
  PROVE  /\ DOMAIN jumps' = DOMAIN jumps \cup DOMAIN new
         /\ \A p \in DOMAIN new : jumps'[p] = new[p]
         /\ \A p \in DOMAIN jumps \ DOMAIN new : jumps'[p] = jumps[p]
BY DEF Patched

LEMMA MeansGrows ==
  ASSUME ParserTypes, NEW k \in Kinds, code' = Append(code, k), NEW h, h = Here,
         NEW p \in 1..(h - 1), NEW e, Means(p, e)
  PROVE  Means(p, e)'
<1>1. /\ code'[p] = code[p] /\ Blocks!LoopOf(p)' = Blocks!LoopOf(p)
  <2>1. p \in 1..h /\ code'[p] = code[p]
    BY BlocksGrow
  <2> QED BY <2>1, BlocksGrow
<1>2. code'[p] \in {"if", "elif"} => FollowedBy(p, e.onFalse)'
  BY <1>1, FollowedGrows DEF Means
<1>3. code'[p] = "while" => ClosedAt(p, e.onFalse)'
  BY <1>1, ClosedGrows DEF Means
<1>4. code'[p] = "break" => ClosedAt(Blocks!LoopOf(p), e.onEnd)'
  <2>1. PICK o : o = Blocks!LoopOf(p)
    OBVIOUS
  <2>2. code'[p] = "break" => ClosedAt(o, e.onEnd)'
    BY <1>1, <2>1, ClosedGrows DEF Means
  <2>3. o = Blocks!LoopOf(p)'
    BY <1>1, <2>1
  <2> QED BY <2>2, <2>3 DEF ClosedAt
<1>5. code'[p] \in {"endwhile", "continue"} => e.onEnd = Blocks!LoopOf(p)'
  BY <1>1 DEF Means
<1> QED BY <1>2, <1>3, <1>4, <1>5 DEF Means

\* Entries are added at D, where they lead where blocks say; the others remain.
TableStep(h, B, D) ==
  /\ D \in SUBSET (1..h) /\ DOMAIN jumps' = DOMAIN jumps \cup D
  /\ \A p \in DOMAIN jumps \ D : jumps'[p] = jumps[p]
  /\ \A p \in D : \A e, o : e = jumps'[p] /\ o = Blocks!OpenOf(p) =>
       /\ Means(p, e)'
       /\ code'[p] \in {"elif", "else"} => o \in B \/ ClosedAt(o, e.onEnd)'
  /\ \A p \in DOMAIN jumps \ D : \A o :
       code[p] \in {"elif", "else"} /\ o = Blocks!OpenOf(p) /\ o \in Blocks!Around(h) => o \in B

LEMMA TableNext ==
  ASSUME ParserTypes, Table, NEW k \in Kinds, code' = Append(code, k), NEW h, h = Here,
         NEW B, B = Blocks!Around(h + 1)', NEW D, TableStep(h, B, D)
  PROVE  Table'
<1> USE DEF TableStep
<1>1. /\ h \in Nat \ {0} /\ Len(code) = h - 1 /\ Here' = h + 1
      /\ \A i \in 1..(h - 1) : code'[i] = code[i] /\ i \in 1..h
      /\ \A i \in 1..h : Blocks!OpenOf(i)' = Blocks!OpenOf(i)
  BY BlocksGrow
<1>2. DOMAIN jumps \subseteq 1..(h - 1)
  BY <1>1 DEF ParserTypes
<1>3. ASSUME NEW p \in DOMAIN jumps'
      PROVE  \E e, o : /\ e = jumps'[p] /\ o = Blocks!OpenOf(p) /\ o = Blocks!OpenOf(p)' /\ Means(p, e)'
                       /\ code'[p] \in {"elif", "else"} => o \in B \/ ClosedAt(o, e.onEnd)'
  <2>1. PICK e, o : e = jumps'[p] /\ o = Blocks!OpenOf(p)
    OBVIOUS
  <2>2. p \in 1..h /\ o = Blocks!OpenOf(p)'
    BY <1>1, <1>2, <2>1
  <2>3. CASE p \in D
    BY <2>1, <2>2, <2>3
  <2>4. CASE p \notin D
    <3>1. p \in DOMAIN jumps \ D /\ e = jumps[p] /\ p \in 1..(h - 1)
      BY <1>2, <2>1, <2>4
    <3>2. Means(p, e)'
      BY <3>1, MeansGrows DEF Table
    <3>3. code[p] \in {"elif", "else"} => o \in Blocks!Around(h) \/ ClosedAt(o, e.onEnd)
      BY <2>1, <3>1 DEF Table
    <3>4. ClosedAt(o, e.onEnd) => ClosedAt(o, e.onEnd)'
      BY ClosedGrows
    <3>5. code'[p] = code[p]
      BY <1>1, <3>1
    <3> QED BY <2>1, <2>2, <3>1, <3>2, <3>3, <3>4, <3>5
  <2> QED BY <2>3, <2>4
<1>4. ASSUME NEW p \in DOMAIN jumps'
      PROVE  /\ Means(p, jumps[p])'
             /\ code'[p] \in {"elif", "else"} =>
                  \/ Blocks!OpenOf(p)' \in Blocks!Around(Here)'
                  \/ ClosedAt(Blocks!OpenOf(p), jumps[p].onEnd)'
  <2>1. PICK e, o : /\ e = jumps'[p] /\ o = Blocks!OpenOf(p)' /\ Means(p, e)'
                    /\ code'[p] \in {"elif", "else"} => o \in B \/ ClosedAt(o, e.onEnd)'
    BY <1>3
  <2>2. Means(p, jumps[p])'
    BY <2>1 DEF Means
  <2>3. ClosedAt(o, e.onEnd)' => ClosedAt(Blocks!OpenOf(p), jumps[p].onEnd)'
    BY <2>1 DEF ClosedAt
  <2>4. Blocks!Around(Here)' = B
    BY <1>1 DEF Blocks!Around
  <2> QED BY <2>1, <2>2, <2>3, <2>4
<1> QED BY <1>4 DEF Table

LEMMA FramesNext ==
  ASSUME ParserTypes, NEW k \in Kinds, code' = Append(code, k), NEW h, h = Here,
         NEW B, B = Blocks!Around(h + 1)', Elements(stack)' \subseteq 1..h,
         \A p \in 1..(h - 1) : p \in Elements(stack)' <=>
           \/ code[p] \in {"if", "while"} /\ p \in B
           \/ code[p] \in {"elif", "else"} /\ Blocks!Around(p) # {} /\ Blocks!OpenOf(p) \in B,
         h \in Elements(stack)' <=>
           \/ k \in {"if", "while"} /\ h \in B
           \/ k \in {"elif", "else"} /\ Blocks!Around(h) # {} /\ Blocks!OpenOf(h) \in B
  PROVE  Frames'
<1>1. /\ h \in Nat \ {0} /\ h \in 1..h /\ Len(code') = h /\ Here' = h + 1 /\ code'[h] = k
      /\ \A i \in 1..(h - 1) : code'[i] = code[i] /\ i \in 1..h
      /\ \A i \in 1..h : /\ Blocks!Around(i)' = Blocks!Around(i)
                         /\ Blocks!OpenOf(i)' = Blocks!OpenOf(i)
  BY BlocksGrow
<1>2. Blocks!Around(Here)' = B
  BY <1>1 DEF Blocks!Around
<1>3. \A p \in 1..h : p \in 1..(h - 1) \/ p = h
  BY <1>1
<1>4. ASSUME NEW p \in 1..h PROVE Framed(p)' <=> p \in Elements(stack)'
  <2>1. Framed(p)' <=>
          \/ code'[p] \in {"if", "while"} /\ p \in B
          \/ code'[p] \in {"elif", "else"} /\ Blocks!Around(p) # {} /\ Blocks!OpenOf(p) \in B
    BY <1>1, <1>2 DEF Framed
  <2> QED BY <1>1, <1>3, <2>1
<1> QED BY <1>1, <1>4 DEF Frames

-----------------------------------------------------------------------------
(* The blocks after one more line. *)

LEMMA ReadBlocks ==
  ASSUME ReadInv, BlockInv, NEW k \in Kinds, code' = Append(code, k), ~Misplaced(k),
         NEW h, h = Here, NEW B, B = Blocks!Around(h + 1)'
  PROVE  /\ AllFit' /\ Leveled' /\ Shut' /\ Fits(h)'
         /\ B = IF k \in {"if", "while"} THEN Blocks!Around(h) \cup {h}
                ELSE IF k \in {"endif", "endwhile"} THEN Blocks!Around(h) \ {Blocks!OpenOf(h)}
                ELSE Blocks!Around(h)
         /\ k \in {"endif", "endwhile"} =>
              /\ Blocks!Around(h) # {}
              /\ k = "endif" => code[Blocks!OpenOf(h)] = "if"
              /\ k = "endwhile" => code[Blocks!OpenOf(h)] = "while"
<1> USE DEF ReadInv, BlockInv
<1>1. /\ h \in Nat \ {0} /\ h \in 1..h /\ Len(code) = h - 1 /\ Len(code') = h /\ Here' = h + 1
      /\ code'[h] = k /\ \A i \in 1..(h - 1) : code'[i] = code[i] /\ i \in 1..h
  BY BlocksGrow
<1>2. Fits(h)'
  BY MisplacedFits
<1>3. k \in {"endif", "endwhile"} =>
              /\ Blocks!Around(h) # {}
              /\ k = "endif" => code[Blocks!OpenOf(h)] = "if"
              /\ k = "endwhile" => code[Blocks!OpenOf(h)] = "while"
  BY <1>2, FitsHere
<1>4. Blocks!Around(h + 1)' = IF k \in {"if", "while"} THEN Blocks!Around(h) \cup {h}
           ELSE IF k \in {"endif", "endwhile"} THEN Blocks!Around(h) \ {Blocks!OpenOf(h)}
           ELSE Blocks!Around(h)
  BY <1>3, AroundNext
<1>5. Leveled'
  BY <1>3, LeveledNext
<1>6. \A i \in 1..h : i \in 1..(h - 1) \/ i = h
  BY <1>1
<1>7. AllFit'
  <2>1. \A i \in 1..(h - 1) : Fits(i)'
    BY <1>1, FitsGrows DEF AllFit
  <2>2. \A i \in 1..h : Fits(i)'
    <3> TAKE i \in 1..h
    <3>1. CASE i = h
      <4>1. PICK n : n = i /\ Fits(n)'
        BY <1>2, <3>1
      <4> QED BY <4>1
    <3> QED BY <1>6, <2>1, <3>1
  <2> QED BY <1>1, <2>2 DEF AllFit
<1>8. Shut'
  <2>1. ASSUME NEW o \in 1..h, code'[o] \in {"if", "while"}
        PROVE  o \in B \/ \E c \in 1..h : ClosedAt(o, c)'
    <3>1. CASE o = h
      BY <1>1, <1>4, <2>1, <3>1
    <3>2. CASE o \in 1..(h - 1)
      <4>1. o \in Blocks!Around(h) \/ \E c \in 1..(h - 1) : ClosedAt(o, c)
        BY <1>1, <2>1, <3>2 DEF Shut
      <4>2. ASSUME NEW c \in 1..(h - 1), ClosedAt(o, c) PROVE \E d \in 1..h : ClosedAt(o, d)'
        BY <1>1, <4>2, ClosedGrows
      <4>3. ASSUME o \in Blocks!Around(h), o \notin B PROVE \E d \in 1..h : ClosedAt(o, d)'
        <5>1. k \in {"endif", "endwhile"} /\ o = Blocks!OpenOf(h)
          BY <1>4, <4>3
        <5> QED BY <1>1, <1>3, <5>1, ClosedGrows
      <4> QED BY <4>1, <4>2, <4>3
    <3> QED BY <1>6, <3>1, <3>2
  <2>2. Blocks!Around(Here)' = B
    BY <1>1 DEF Blocks!Around
  <2> QED BY <1>1, <2>1, <2>2 DEF Shut
<1> QED BY <1>2, <1>3, <1>4, <1>5, <1>7, <1>8

\* Lines that add no entry and close nothing.
LEMMA SameTable ==
  ASSUME ReadInv, BlockInv, NEW k \in Kinds, code' = Append(code, k), ~Misplaced(k), jumps' = jumps,
         k \notin {"endif", "endwhile"}
  PROVE  Table'
<1> USE DEF ReadInv, BlockInv
<1>1. PICK h, B : h = Here /\ B = Blocks!Around(h + 1)'
  OBVIOUS
<1>2. Blocks!Around(h) \subseteq B
  <2>1. B = IF k \in {"if", "while"} THEN Blocks!Around(h) \cup {h}
            ELSE IF k \in {"endif", "endwhile"} THEN Blocks!Around(h) \ {Blocks!OpenOf(h)}
            ELSE Blocks!Around(h)
    BY <1>1, ReadBlocks
  <2> QED BY <2>1
<1>3. PICK D : D = {}
  OBVIOUS
<1>4. /\ D \in SUBSET (1..h) /\ DOMAIN jumps' = DOMAIN jumps \cup D
      /\ \A p \in DOMAIN jumps \ D : jumps'[p] = jumps[p]
      /\ \A p : p \notin D
  BY <1>3
<1>5. \A p \in D : \A e, o : e = jumps'[p] /\ o = Blocks!OpenOf(p) =>
           /\ Means(p, e)'
           /\ code'[p] \in {"elif", "else"} => o \in B \/ ClosedAt(o, e.onEnd)'
  BY <1>4
<1>6. \A p \in DOMAIN jumps \ D : \A o :
        code[p] \in {"elif", "else"} /\ o = Blocks!OpenOf(p) /\ o \in Blocks!Around(h) => o \in B
  BY <1>2
<1>7. TableStep(h, B, D)
  BY <1>4, <1>5, <1>6 DEF TableStep
<1> QED BY <1>1, <1>7, TableNext

\* Lines that leave the stack and what is around alone.
LEMMA SameFrames ==
  ASSUME ReadInv, BlockInv, NEW k \in Kinds, code' = Append(code, k), ~Misplaced(k),
         Elements(stack)' = Elements(stack), DOMAIN jumps \subseteq DOMAIN jumps',
         k \notin {"if", "while", "elif", "else", "endif", "endwhile"}
  PROVE  Frames' /\ Chained'
<1> USE DEF ReadInv, BlockInv
<1>1. PICK h, B : h = Here /\ B = Blocks!Around(h + 1)'
  OBVIOUS
<1>2. B = Blocks!Around(h)
  <2>1. B = IF k \in {"if", "while"} THEN Blocks!Around(h) \cup {h}
            ELSE IF k \in {"endif", "endwhile"} THEN Blocks!Around(h) \ {Blocks!OpenOf(h)}
            ELSE Blocks!Around(h)
    BY <1>1, ReadBlocks
  <2> QED BY <2>1
<1>3. /\ h \in Nat \ {0} /\ Len(code) = h - 1 /\ Elements(stack) \subseteq 1..(h - 1)
      /\ \A p \in 1..(h - 1) : code'[p] = code[p] /\ p \in 1..h
      /\ \A p \in 1..h : Blocks!OpenOf(p)' = Blocks!OpenOf(p)
      /\ \A p \in 1..(h - 1) : Blocks!HeadOf(p)' = Blocks!HeadOf(p)
  BY <1>1, BlocksGrow, FrameFacts, ClauseGrows
<1>4. \A p \in 1..(h - 1) : p \in Elements(stack) <=>
           \/ code[p] \in {"if", "while"} /\ p \in B
           \/ code[p] \in {"elif", "else"} /\ Blocks!Around(p) # {} /\ Blocks!OpenOf(p) \in B
  BY <1>1, <1>2, <1>3 DEF Frames, Framed
<1>5. Frames'
  <2>1. h \notin Elements(stack)' /\ Elements(stack)' \subseteq 1..h
    BY <1>3
  <2> QED BY <1>1, <1>4, <2>1, FramesNext
<1>6. Chained'
  BY <1>3 DEF Chained
<1> QED BY <1>5, <1>6

\* Breaks that remain belong to loops that remain.
LEMMA KeptBreaks ==
  ASSUME ReadInv, BlockInv, NEW k \in Kinds, code' = Append(code, k),
         \A i \in DOMAIN breaks' :
           /\ i \in DOMAIN breaks /\ breaks'[i] = breaks[i]
           /\ whiles'[breaks[i].level] = whiles[breaks[i].level]
  PROVE  BreaksOut'
<1> USE DEF ReadInv, BlockInv
<1>1. PICK h : h = Here
  OBVIOUS
<1>2. \A p \in 1..(h - 1) : code'[p] = code[p] /\ p \in 1..h
  BY <1>1, BlocksGrow
<1>3. \A p \in 1..h : Blocks!LoopOf(p)' = Blocks!LoopOf(p)
  BY <1>1, BlocksGrow
<1>4. \A i \in DOMAIN breaks : breaks[i].pc \in 1..(h - 1)
  <2> DEFINE T == [level : Nat, pc : 1..Len(code)]
  <2>1. Len(code) = h - 1 /\ breaks \in Seq(T) /\ \A e \in T : e.pc \in 1..Len(code)
    BY <1>1, BlocksGrow DEF ParserTypes
  <2> HIDE DEF T
  <2> QED BY <2>1
<1>5. ASSUME NEW i \in DOMAIN breaks'
      PROVE  code'[breaks'[i].pc] = "break" /\ Blocks!LoopOf(breaks[i].pc)' = whiles'[breaks'[i].level]
  <2>1. PICK p : p = breaks[i].pc
    OBVIOUS
  <2>2. i \in DOMAIN breaks /\ breaks'[i] = breaks[i] /\ whiles'[breaks[i].level] = whiles[breaks[i].level]
    OBVIOUS
  <2>3. p = breaks'[i].pc /\ Blocks!LoopOf(p)' = Blocks!LoopOf(p) /\ code'[p] = code[p]
    BY <1>2, <1>3, <1>4, <2>1, <2>2
  <2>4. Blocks!LoopOf(p)' = Blocks!LoopOf(breaks[i].pc)'
    BY <2>3 DEF Blocks!LoopOf, Blocks!LoopsOf
  <2>5. code[p] = "break" /\ Blocks!LoopOf(p) = whiles[breaks[i].level]
    BY <2>1, <2>2 DEF BreaksOut
  <2> QED BY <2>2, <2>3, <2>4, <2>5
<1> QED BY <1>5 DEF BreaksOut

LEMMA SameBreaks ==
  ASSUME ReadInv, BlockInv, NEW k \in Kinds, code' = Append(code, k), breaks' = breaks,
         \A i \in DOMAIN whiles : whiles'[i] = whiles[i]
  PROVE  BreaksOut'
<1>1. \A i \in DOMAIN breaks : breaks[i].level \in DOMAIN whiles
  BY DEF ReadInv, ParserTypes, Loops
<1> QED BY <1>1, KeptBreaks

LEMMA ReadPlainBlocks ==
  ASSUME ReadInv, BlockInv, NEW k \in Kinds, code' = Append(code, k), ~Misplaced(k), Plain(k)
  PROVE  BlockInv'
<1>1. /\ UNCHANGED <<jumps, stack, whiles, breaks>>
      /\ k \notin {"if", "while", "elif", "else", "endif", "endwhile"} /\ k \notin {"endif", "endwhile"}
  BY DEF Plain
<1>2. AllFit' /\ Leveled' /\ Shut'
  BY ReadBlocks
<1>3. Table'
  BY <1>1, SameTable
<1>4. Elements(stack)' = Elements(stack)
  BY <1>1 DEF Elements
<1>5. Frames' /\ Chained'
  BY <1>1, <1>4, SameFrames
<1>6. BreaksOut'
  BY <1>1, SameBreaks
<1> QED BY <1>2, <1>3, <1>5, <1>6 DEF BlockInv

LEMMA ReadOpenBlocks ==
  ASSUME ReadInv, BlockInv, NEW k \in Kinds, code' = Append(code, k), ~Misplaced(k), Open(k)
  PROVE  BlockInv'
<1> USE DEF ReadInv, BlockInv
<1>1. /\ k \in {"if", "while"} /\ stack' = Append(stack, Here) /\ UNCHANGED <<jumps, breaks>>
      /\ whiles' = IF k = "while" THEN Append(whiles, Here) ELSE whiles
      /\ k \notin {"endif", "endwhile"} /\ k \notin {"elif", "else"}
  BY DEF Open
<1>2. PICK h, B : h = Here /\ B = Blocks!Around(h + 1)'
  OBVIOUS
<1>3. AllFit' /\ Leveled' /\ Shut' /\ B = Blocks!Around(h) \cup {h}
  BY <1>1, <1>2, ReadBlocks
<1>4. Table'
  BY <1>1, SameTable
<1>5. Elements(stack)' = Elements(stack) \cup {h}
  BY <1>1, <1>2, NestedPush
<1>6. /\ h \in Nat \ {0} /\ h \in 1..h /\ Len(code) = h - 1 /\ Elements(stack) \subseteq 1..(h - 1)
      /\ code'[h] = k
      /\ \A p \in 1..(h - 1) : code'[p] = code[p] /\ p \in 1..h
      /\ \A p \in 1..h : /\ Blocks!OpenOf(p)' = Blocks!OpenOf(p)
                         /\ Blocks!Around(p) # {} => Blocks!OpenOf(p) \in 1..(h - 1)
  BY <1>2, BlocksGrow, FrameFacts
<1>7. \A p \in 1..(h - 1) : Blocks!HeadOf(p)' = Blocks!HeadOf(p)
  BY <1>2, ClauseGrows
<1>8. \A p \in 1..(h - 1) : p # h
  BY <1>6
<1>9. Frames'
  <2>1. \A p \in 1..(h - 1) : p \in Elements(stack) <=>
           \/ code[p] \in {"if", "while"} /\ p \in Blocks!Around(h)
           \/ code[p] \in {"elif", "else"} /\ Blocks!Around(p) # {} /\ Blocks!OpenOf(p) \in Blocks!Around(h)
    BY <1>2, <1>6 DEF Frames, Framed
  <2>2. \A p \in 1..(h - 1) : p \in Elements(stack)' <=>
           \/ code[p] \in {"if", "while"} /\ p \in B
           \/ code[p] \in {"elif", "else"} /\ Blocks!Around(p) # {} /\ Blocks!OpenOf(p) \in B
    BY <1>3, <1>5, <1>6, <1>8, <2>1
  <2>3. Elements(stack)' \subseteq 1..h /\ h \in Elements(stack)' /\ h \in B
    BY <1>3, <1>5, <1>6
  <2> QED BY <1>1, <1>2, <2>2, <2>3, FramesNext
<1>10. Chained'
  <2>1. ASSUME NEW p \in Elements(stack)', NEW j \in Elements(stack)', p < j,
               code'[p] \in {"if", "elif"}, code'[j] \in {"elif", "else"},
               Blocks!OpenOf(j)' = Blocks!HeadOf(p)'
        PROVE  p \in DOMAIN jumps'
    <3>1. j \in Elements(stack) /\ j \in 1..(h - 1)
      BY <1>1, <1>5, <1>6, <2>1
    <3>2. p \in Elements(stack) /\ p \in 1..(h - 1)
      BY <1>5, <1>6, <2>1, <3>1
    <3> QED BY <1>1, <1>6, <1>7, <2>1, <3>1, <3>2 DEF Chained
  <2> QED BY <2>1 DEF Chained
<1>11. BreaksOut'
  <2>1. whiles \in Seq(Nat) /\ Here \in Nat
    BY <1>2, <1>6 DEF ParserTypes
  <2>2. \A i \in DOMAIN whiles : Append(whiles, Here)[i] = whiles[i]
    BY <2>1, AppendFacts
  <2>3. \A i \in DOMAIN whiles : whiles'[i] = whiles[i]
    BY <1>1, <2>2
  <2> QED BY <1>1, <2>3, SameBreaks
<1> QED BY <1>3, <1>4, <1>9, <1>10, <1>11

LEMMA ReadBreakBlocks ==
  ASSUME ReadInv, BlockInv, NEW k \in Kinds, code' = Append(code, k), ~Misplaced(k), Break(k)
  PROVE  BlockInv'
<1> USE DEF ReadInv, BlockInv
<1> DEFINE b == [level |-> Len(whiles), pc |-> Here]
           T == [level : Nat, pc : 1..Here]
<1>1. /\ k = "break" /\ breaks' = Append(breaks, b) /\ UNCHANGED <<jumps, stack, whiles>>
      /\ whiles # <<>>
      /\ k \notin {"if", "while", "elif", "else", "endif", "endwhile"} /\ k \notin {"endif", "endwhile"}
  BY DEF Break, Misplaced
<1>2. PICK h : h = Here
  OBVIOUS
<1>3. AllFit' /\ Leveled' /\ Shut'
  BY ReadBlocks
<1>4. Table'
  BY <1>1, SameTable
<1>5. Frames' /\ Chained'
  <2>1. Elements(stack)' = Elements(stack)
    BY <1>1 DEF Elements
  <2> QED BY <1>1, <2>1, SameFrames
<1>6. b \in T /\ b.level = Len(whiles) /\ b.pc = h /\ breaks \in Seq(T)
  <2>1. Here \in 1..Here /\ Len(whiles) \in Nat
    BY Grows DEF ParserTypes
  <2>2. breaks \in Seq(T)
    BY Grows
  <2>3. b \in T
    BY <2>1
  <2> HIDE DEF T
  <2> QED BY <1>2, <2>2, <2>3
<1> HIDE DEF b, T
<1>7. /\ Len(breaks) \in Nat /\ DOMAIN breaks = 1..Len(breaks) /\ DOMAIN breaks' = 1..(Len(breaks) + 1)
      /\ breaks'[Len(breaks) + 1] = b
  BY <1>1, <1>6, AppendFacts
<1>8. \A i \in 1..Len(breaks) : breaks'[i] = breaks[i]
  BY <1>1, <1>6, AppendFacts
<1>9. /\ code'[h] = k /\ h \in 1..h /\ \A p \in 1..(h - 1) : code'[p] = code[p] /\ p \in 1..h
      /\ \A p \in 1..h : Blocks!LoopOf(p)' = Blocks!LoopOf(p)
  BY <1>2, BlocksGrow
<1>10. Blocks!LoopOf(h) = whiles[Len(whiles)]
  BY <1>1, <1>2, WhileFacts
<1>11. ASSUME NEW i \in DOMAIN breaks'
       PROVE  \E p, l : /\ p = breaks'[i].pc /\ l = breaks'[i].level
                        /\ code'[p] = "break" /\ Blocks!LoopOf(p)' = whiles[l]
  <2>1. PICK p, l : p = breaks'[i].pc /\ l = breaks'[i].level
    OBVIOUS
  <2>2. ASSUME i = Len(breaks) + 1 PROVE code'[p] = "break" /\ Blocks!LoopOf(p)' = whiles[l]
    <3>1. p = h /\ l = Len(whiles)
      BY <1>6, <1>7, <2>1, <2>2
    <3>2. code'[p] = "break"
      BY <1>1, <1>9, <3>1
    <3>3. Blocks!LoopOf(p)' = whiles[l]
      <4>1. Blocks!LoopOf(h)' = whiles[l]
        BY <1>9, <1>10, <3>1
      <4> QED BY <3>1, <4>1 DEF Blocks!LoopOf, Blocks!LoopsOf
    <3> QED BY <3>2, <3>3
  <2>3. ASSUME i \in 1..Len(breaks) PROVE code'[p] = "break" /\ Blocks!LoopOf(p)' = whiles[l]
    <3>1. p = breaks[i].pc /\ l = breaks[i].level
      BY <1>8, <2>1, <2>3
    <3>2. p \in 1..(h - 1)
      <4>1. Len(code) = h - 1 /\ breaks \in Seq([level : Nat, pc : 1..Len(code)])
        BY <1>2, BlocksGrow DEF ParserTypes
      <4> DEFINE U == [level : Nat, pc : 1..Len(code)]
      <4>2. breaks \in Seq(U) /\ \A e \in U : e.pc \in 1..Len(code)
        BY <4>1
      <4> HIDE DEF U
      <4> QED BY <2>3, <3>1, <4>1, <4>2
    <3>3. code[p] = "break" /\ Blocks!LoopOf(p) = whiles[l]
      BY <1>7, <2>3, <3>1 DEF BreaksOut
    <3>4. p \in 1..h /\ code'[p] = code[p]
      BY <1>9, <3>2
    <3>5. Blocks!LoopOf(p)' = Blocks!LoopOf(p)
      BY <1>9, <3>4
    <3> QED BY <3>3, <3>4, <3>5
  <2>4. i = Len(breaks) + 1 \/ i \in 1..Len(breaks)
    <3>1. Len(breaks) \in Nat /\ i \in 1..(Len(breaks) + 1)
      BY <1>7
    <3> QED BY <3>1
  <2>5. code'[p] = "break" /\ Blocks!LoopOf(p)' = whiles[l]
    BY <2>2, <2>3, <2>4
  <2> QED BY <2>1, <2>5
<1>12. ASSUME NEW i \in DOMAIN breaks'
       PROVE  code'[breaks'[i].pc] = "break" /\ Blocks!LoopOf(breaks[i].pc)' = whiles'[breaks'[i].level]
  <2>1. PICK p, l : /\ p = breaks'[i].pc /\ l = breaks'[i].level
                    /\ code'[p] = "break" /\ Blocks!LoopOf(p)' = whiles[l]
    BY <1>11
  <2> QED BY <1>1, <2>1 DEF Blocks!LoopOf, Blocks!LoopsOf
<1>13. BreaksOut'
  BY <1>12 DEF BreaksOut
<1> QED BY <1>3, <1>4, <1>5, <1>13

LEMMA ReadContinueBlocks ==
  ASSUME ReadInv, BlockInv, NEW k \in Kinds, code' = Append(code, k), ~Misplaced(k), Continue(k)
  PROVE  BlockInv'
<1> USE DEF ReadInv, BlockInv
<1> DEFINE new == [p \in {Here} |-> [Zero EXCEPT !.onEnd = Last(whiles)]]
<1>1. /\ UNCHANGED <<stack, whiles, breaks>> /\ whiles # <<>>
      /\ jumps' = Patched(new) /\ k = "continue"
      /\ k \notin {"if", "while", "elif", "else", "endif", "endwhile"} /\ k \notin {"endif", "endwhile"}
  BY DEF Continue, Misplaced
<1>2. PICK h, B : h = Here /\ B = Blocks!Around(h + 1)'
  OBVIOUS
<1>3. AllFit' /\ Leveled' /\ Shut' /\ B = Blocks!Around(h)
  BY <1>1, <1>2, ReadBlocks
<1>4. /\ DOMAIN jumps' = DOMAIN jumps \cup {h}
      /\ jumps'[h].onEnd = Last(whiles)
      /\ \A p \in DOMAIN jumps \ {h} : jumps'[p] = jumps[p]
  <2>1. /\ DOMAIN jumps' = DOMAIN jumps \cup DOMAIN new
        /\ \A p \in DOMAIN new : jumps'[p] = new[p]
        /\ \A p \in DOMAIN jumps \ DOMAIN new : jumps'[p] = jumps[p]
    <3> HIDE DEF new
    <3> QED BY <1>1, PatchedIs
  <2>2. DOMAIN new = {h} /\ new[h].onEnd = Last(whiles)
    BY <1>2 DEF Zero
  <2> QED BY <2>1, <2>2
<1> HIDE DEF new
<1>5. Frames' /\ Chained'
  <2>1. Elements(stack)' = Elements(stack) /\ DOMAIN jumps \subseteq DOMAIN jumps'
    BY <1>1, <1>4 DEF Elements
  <2> QED BY <1>1, <2>1, SameFrames
<1>6. BreaksOut'
  BY <1>1, SameBreaks
<1>7. /\ h \in 1..h /\ code'[h] = k /\ Blocks!LoopOf(h)' = Last(whiles)
  <2>1. h \in 1..h /\ code'[h] = k
    BY <1>2, BlocksGrow
  <2>2. Blocks!LoopOf(h)' = Blocks!LoopOf(h)
    BY <1>2, <2>1, BlocksGrow
  <2>3. Blocks!LoopOf(h) = Last(whiles)
    BY <1>1, <1>2, WhileFacts
  <2> QED BY <2>1, <2>2, <2>3
<1>8. ASSUME NEW e, e = jumps'[h] PROVE Means(h, e)'
  BY <1>1, <1>4, <1>7, <1>8 DEF Means
<1>9. PICK D : D = {h}
  OBVIOUS
<1>10. ASSUME NEW p \in D, NEW e, NEW o, e = jumps'[p], o = Blocks!OpenOf(p)
       PROVE  /\ Means(p, e)'
              /\ code'[p] \in {"elif", "else"} => o \in B \/ ClosedAt(o, e.onEnd)'
  <2>1. p = h
    BY <1>9
  <2>2. Means(p, e)'
    <3>1. Means(h, e)'
      BY <1>8, <1>10, <2>1
    <3> QED BY <2>1, <3>1
  <2> QED BY <1>1, <1>7, <2>1, <2>2
<1>11. TableStep(h, B, D)
  BY <1>3, <1>4, <1>7, <1>9, <1>10 DEF TableStep
<1>12. Table'
  BY <1>2, <1>11, TableNext
<1> QED BY <1>3, <1>5, <1>6, <1>12

\* The clauses so far of a block that is open are on the stack.
LEMMA ClausesOpen ==
  ASSUME ParserTypes, Leveled, Frames, NEW h, h = Here, NEW o \in Blocks!Around(h),
         NEW j \in 1..(h - 1), ClauseOf(j, o)
  PROVE  code[j] \in {"elif", "else"} /\ j \in Elements(stack)
<1>1. /\ h \in Nat \ {0} /\ Len(code) = h - 1
      /\ \A p \in 1..(h - 1) :
              code[p] \in {"elif", "else"} /\ Blocks!Around(p) # {}
                /\ Blocks!OpenOf(p) \in Blocks!Around(h) => p \in Elements(stack)
  BY FrameFacts
<1>2. code[j] # "endif"
  <2>1. SUFFICES ASSUME code[j] = "endif" PROVE FALSE
    OBVIOUS
  <2>2. ClosedAt(o, j)
    BY <1>1, <2>1 DEF ClosedAt, ClauseOf
  <2>3. h <= j
    BY <1>1, <2>2, ClosedFacts
  <2> QED BY <1>1, <2>3
<1> QED BY <1>1, <1>2 DEF ClauseOf

\* The last frame of the innermost block, when that is an if, is a clause of it.
LEMMA LastClause ==
  ASSUME ReadInv, BlockInv, NEW h, h = Here, Blocks!Around(h) # {}, NEW o, o = Blocks!OpenOf(h),
         NEW p \in Elements(stack), code[p] \in {"if", "elif"}
  PROVE  /\ p \in 1..(h - 1)
         /\ Blocks!HeadOf(p) = o <=> p >= o
         /\ Blocks!HeadOf(p) = o => code[o] = "if" /\ (code[p] = "elif" => Blocks!OpenOf(p) = o /\ p > o)
<1> USE DEF ReadInv, BlockInv
<1>1. /\ o \in Blocks!Around(h) /\ o \in Elements(stack) /\ code[o] \in {"if", "while"}
      /\ \A q \in Elements(stack) : q = o \/ q < o \/ (q > o /\ ClauseOf(q, o))
      /\ \A q \in Elements(stack) : q > o => code[o] = "if" /\ code[q] \in {"elif", "else"}
  BY TopFacts
<1>2. /\ h \in Nat \ {0} /\ Elements(stack) \subseteq 1..(h - 1) /\ Blocks!Around(h) \subseteq Elements(stack)
      /\ \A q \in Elements(stack) :
              \/ code[q] \in {"if", "while"} /\ q \in Blocks!Around(h)
              \/ /\ code[q] \in {"elif", "else"} /\ Blocks!Around(q) # {}
                 /\ Blocks!OpenOf(q) \in Blocks!Around(h)
  BY FrameFacts
<1>3. p \in 1..(h - 1) /\ p \in Nat /\ o \in Nat
  BY <1>1, <1>2
<1>4. CASE code[p] = "if"
  <2>1. Blocks!HeadOf(p) = p
    BY <1>4 DEF Blocks!HeadOf
  <2>2. ~(p > o)
    BY <1>1, <1>4
  <2> QED BY <1>3, <1>4, <2>1, <2>2
<1>5. CASE code[p] = "elif"
  <2>1. PICK x : x = Blocks!OpenOf(p)
    OBVIOUS
  <2>2. Blocks!HeadOf(p) = x
    BY <1>5, <2>1 DEF Blocks!HeadOf
  <2>3. Blocks!Around(p) # {} /\ p # o
    BY <1>1, <1>2, <1>5
  <2>4. x \in Blocks!Around(p)
    BY <1>3, <2>1, <2>3, OpenOfFacts
  <2>5. x \in Nat /\ x < p
    BY <1>3, <2>4, AroundFacts
  <2>6. x = o => p > o
    BY <2>5
  <2>7. p > o => x = o /\ code[o] = "if"
    <3>1. SUFFICES ASSUME p > o PROVE x = o /\ code[o] = "if"
      OBVIOUS
    <3>2. ClauseOf(p, o)
      BY <1>1, <1>3, <3>1
    <3> QED BY <1>1, <2>1, <3>1, <3>2 DEF ClauseOf
  <2> QED BY <1>3, <1>5, <2>1, <2>2, <2>3, <2>6, <2>7
<1> QED BY <1>4, <1>5

LEMMA ReadClauseBlocks ==
  ASSUME ReadInv, BlockInv, NEW k \in Kinds, code' = Append(code, k), ~Misplaced(k), Clause(k)
  PROVE  BlockInv'
<1> USE DEF ReadInv, BlockInv
<1> DEFINE new == [p \in {Last(stack)} |-> [Zero EXCEPT !.onFalse = Here]]
<1>1. /\ k \in {"elif", "else"} /\ stack' = Append(stack, Here) /\ UNCHANGED <<whiles, breaks>>
      /\ jumps' = Patched(new) /\ Top \in {"if", "elif"}
      /\ k \notin {"if", "while"} /\ k \notin {"endif", "endwhile"}
  BY DEF Clause, Misplaced
<1>2. PICK h, B, o, t : h = Here /\ B = Blocks!Around(h + 1)' /\ o = Blocks!OpenOf(h) /\ t = Last(stack)
  OBVIOUS
<1>3. AllFit' /\ Leveled' /\ Shut' /\ B = Blocks!Around(h)
  BY <1>1, <1>2, ReadBlocks
<1>4. stack # <<>> /\ code[t] \in {"if", "elif"}
  BY <1>1, <1>2 DEF Top
<1>5. /\ Blocks!Around(h) # {} /\ o \in Blocks!Around(h) /\ o \in Elements(stack)
      /\ t \in Elements(stack) /\ \A p \in Elements(stack) : p <= t
      /\ \A p \in Elements(stack) : p = o \/ p < o \/ (p > o /\ ClauseOf(p, o))
      /\ \A p \in Elements(stack) : p > o => code[o] = "if" /\ code[p] \in {"elif", "else"}
  <2>1. Blocks!Around(h) # {}
    BY <1>2, <1>4, TopFacts
  <2> QED BY <1>2, <2>1, TopFacts
<1>6. /\ h \in Nat \ {0} /\ h \in 1..h /\ Len(code) = h - 1 /\ Elements(stack) \subseteq 1..(h - 1)
      /\ code'[h] = k /\ \A p \in 1..(h - 1) : code'[p] = code[p] /\ p \in 1..h
  BY <1>2, BlocksGrow, FrameFacts
<1>7. /\ t \in 1..(h - 1) /\ Blocks!HeadOf(t) = o /\ (code[t] = "elif" => Blocks!OpenOf(t) = o)
  <2>1. o <= t
    BY <1>5
  <2>2. t \in Nat /\ o \in Nat
    BY <1>5, <1>6
  <2>3. t >= o
    BY <2>1, <2>2
  <2> QED BY <1>2, <1>4, <1>5, <2>3, LastClause
<1>8. FollowedBy(t, h)'
  <2>1. ASSUME NEW j \in (t + 1)..(h - 1), ClauseOf(j, o) PROVE FALSE
    <3>1. j \in 1..(h - 1) /\ ~(j <= t)
      BY <1>6, <1>7
    <3> QED BY <1>2, <1>5, <2>1, <3>1, ClausesOpen
  <2>2. \A j \in (t + 1)..(h - 1) : ~ClauseOf(j, Blocks!HeadOf(t))
    BY <1>7, <2>1
  <2> QED BY <1>1, <1>2, <1>5, <1>7, <2>2, FollowedGrows
<1>9. /\ DOMAIN jumps' = DOMAIN jumps \cup {t}
      /\ jumps'[t].onFalse = h
      /\ \A p \in DOMAIN jumps \ {t} : jumps'[p] = jumps[p]
  <2>1. /\ DOMAIN jumps' = DOMAIN jumps \cup DOMAIN new
        /\ \A p \in DOMAIN new : jumps'[p] = new[p]
        /\ \A p \in DOMAIN jumps \ DOMAIN new : jumps'[p] = jumps[p]
    <3> HIDE DEF new
    <3> QED BY <1>1, PatchedIs
  <2>2. DOMAIN new = {t} /\ new[t].onFalse = h
    BY <1>2 DEF Zero
  <2> QED BY <2>1, <2>2
<1> HIDE DEF new
<1>10. ASSUME NEW e, e = jumps'[t] PROVE Means(t, e)'
  <2>1. code'[t] = code[t]
    BY <1>6, <1>7
  <2>2. FollowedBy(t, e.onFalse)'
    <3>1. e.onFalse = h
      BY <1>9, <1>10
    <3> QED BY <1>8, <3>1
  <2> QED BY <1>4, <2>1, <2>2 DEF Means
<1>11. PICK D : D = {t}
  OBVIOUS
<1>12. ASSUME NEW p \in D, NEW e, NEW x, e = jumps'[p], x = Blocks!OpenOf(p)
       PROVE  /\ Means(p, e)'
              /\ code'[p] \in {"elif", "else"} => x \in B \/ ClosedAt(x, e.onEnd)'
  <2>1. p = t
    BY <1>11
  <2>2. Means(p, e)'
    <3>1. Means(t, e)'
      BY <1>10, <1>12, <2>1
    <3> QED BY <2>1, <3>1
  <2>3. code'[p] \in {"elif", "else"} => x \in B
    BY <1>3, <1>4, <1>5, <1>6, <1>7, <1>12, <2>1
  <2> QED BY <2>2, <2>3
<1>13. Table'
  <2>1. D \in SUBSET (1..h)
    BY <1>6, <1>7, <1>11
  <2>2. TableStep(h, B, D)
    BY <1>3, <1>9, <1>11, <1>12, <2>1 DEF TableStep
  <2> QED BY <1>2, <2>2, TableNext
<1>14. Elements(stack)' = Elements(stack) \cup {h}
  BY <1>1, <1>2, NestedPush
<1>15. Frames'
  <2>1. \A p \in 1..(h - 1) : p \in Elements(stack) <=>
           \/ code[p] \in {"if", "while"} /\ p \in Blocks!Around(h)
           \/ code[p] \in {"elif", "else"} /\ Blocks!Around(p) # {} /\ Blocks!OpenOf(p) \in Blocks!Around(h)
    BY <1>2, <1>6 DEF Frames, Framed
  <2>2. \A p \in 1..(h - 1) : p # h
    BY <1>6
  <2>3. \A p \in 1..(h - 1) : p \in Elements(stack)' <=>
           \/ code[p] \in {"if", "while"} /\ p \in B
           \/ code[p] \in {"elif", "else"} /\ Blocks!Around(p) # {} /\ Blocks!OpenOf(p) \in B
    BY <1>3, <1>14, <2>1, <2>2
  <2>4. Elements(stack)' \subseteq 1..h /\ h \in Elements(stack)' /\ Blocks!OpenOf(h) \in B
    BY <1>2, <1>3, <1>5, <1>6, <1>14
  <2> QED BY <1>1, <1>2, <1>5, <2>3, <2>4, FramesNext
<1>16. Chained'
  <2>0. /\ \A p \in 1..(h - 1) : Blocks!HeadOf(p)' = Blocks!HeadOf(p)
        /\ \A p \in 1..h : Blocks!OpenOf(p)' = Blocks!OpenOf(p)
    BY <1>2, ClauseGrows, BlocksGrow
  <2>1. ASSUME NEW p \in Elements(stack)', NEW j \in Elements(stack)', p < j,
               code'[p] \in {"if", "elif"}, code'[j] \in {"elif", "else"},
               Blocks!OpenOf(j)' = Blocks!HeadOf(p)'
        PROVE  p \in DOMAIN jumps'
    <3>1. p \in Elements(stack) /\ p \in 1..(h - 1) /\ code[p] \in {"if", "elif"}
      <4>1. p # h
        <5>1. SUFFICES ASSUME p = h PROVE FALSE
          OBVIOUS
        <5>2. j \in 1..h
          BY <1>6, <1>14
        <5> QED BY <1>6, <2>1, <5>1, <5>2
      <4> QED BY <1>6, <1>14, <2>1, <4>1
    <3>2. CASE j \in Elements(stack)
      <4>1. j \in 1..(h - 1) /\ code[j] \in {"elif", "else"} /\ Blocks!OpenOf(j) = Blocks!HeadOf(p)
        BY <1>6, <2>0, <2>1, <3>1, <3>2
      <4> QED BY <1>9, <2>1, <3>1, <3>2, <4>1 DEF Chained
    <3>3. CASE j \notin Elements(stack)
      <4>1. j = h
        BY <1>14, <3>3
      <4>2. Blocks!OpenOf(h)' = Blocks!HeadOf(p)'
        BY <2>1, <4>1 DEF Blocks!OpenOf, Blocks!Around
      <4>3. Blocks!HeadOf(p) = o
        BY <1>2, <1>6, <2>0, <3>1, <4>2
      <4>4. p >= o
        BY <1>2, <1>5, <3>1, <4>3, LastClause
      <4>5. CASE p = t
        BY <1>9, <4>5
      <4>6. CASE p # t
        <5>1. p < t /\ t > o
          BY <1>5, <1>6, <1>7, <3>1, <4>4, <4>6
        <5>2. code[t] \in {"elif", "else"} /\ Blocks!OpenOf(t) = Blocks!HeadOf(p)
          BY <1>4, <1>5, <1>7, <4>3, <5>1
        <5> QED BY <1>5, <1>9, <3>1, <5>1, <5>2 DEF Chained
      <4> QED BY <4>5, <4>6
    <3> QED BY <3>2, <3>3
  <2> QED BY <2>1 DEF Chained
<1>17. BreaksOut'
  BY <1>1, SameBreaks
<1> QED BY <1>3, <1>13, <1>15, <1>16, <1>17

\* What endif takes off the stack.
LEMMA ChainFrames ==
  ASSUME ParserTypes, Nested, Top \in {"if", "elif", "else"}, NEW f, f = stack[FirstIf],
         NEW chain, chain = {stack[i] : i \in FirstIf..Len(stack)},
         stack' = SubSeq(stack, 1, FirstIf - 1)
  PROVE  /\ f \in Elements(stack) /\ code[f] = "if"
         /\ chain = {p \in Elements(stack) : p >= f}
         /\ \A p \in chain : p = f \/ code[p] \in {"elif", "else"}
         /\ Elements(stack)' = Elements(stack) \ chain
<1>1. /\ FirstIf \in 1..Len(stack) /\ code[stack[FirstIf]] = "if"
      /\ \A j \in (FirstIf + 1)..Len(stack) : code[stack[j]] \in {"elif", "else"}
  BY FirstIfFacts
<1>2. Len(stack) \in Nat /\ DOMAIN stack = 1..Len(stack) /\ stack \in Seq(Nat)
  BY DEF ParserTypes
<1> HIDE DEF FirstIf
<1>3. /\ FirstIf - 1 \in 0..Len(stack) /\ FirstIf..Len(stack) = {FirstIf} \cup (FirstIf + 1)..Len(stack)
      /\ (FirstIf - 1) + 1 = FirstIf /\ FirstIf..Len(stack) \subseteq 1..Len(stack)
  BY <1>1, <1>2
<1>4. f \in Elements(stack) /\ code[f] = "if"
  BY <1>1, <1>2 DEF Elements
<1>5. \A p \in chain : p = f \/ code[p] \in {"elif", "else"}
  BY <1>1, <1>3
<1>6. ASSUME NEW i \in 1..Len(stack) PROVE stack[i] >= f <=> i \in FirstIf..Len(stack)
  <2>1. i < FirstIf => stack[i] < f
    BY <1>1, <1>2 DEF Nested, Rising
  <2>2. FirstIf < i => f < stack[i]
    BY <1>1, <1>2 DEF Nested, Rising
  <2>3. stack[i] \in Nat /\ f \in Nat
    BY <1>1, <1>2
  <2> QED BY <1>1, <1>2, <2>1, <2>2, <2>3
<1>7. chain = {p \in Elements(stack) : p >= f}
  <2>1. \A p \in chain : p \in Elements(stack) /\ p >= f
    BY <1>2, <1>3, <1>6 DEF Elements
  <2>2. \A p \in Elements(stack) : p >= f => p \in chain
    BY <1>2, <1>6 DEF Elements
  <2> QED BY <2>1, <2>2
<1>8. Elements(stack)' = Elements(stack) \ chain
  <2>1. /\ Elements(SubSeq(stack, 1, FirstIf - 1)) \subseteq Elements(stack)
        /\ Elements(stack) \ Elements(SubSeq(stack, 1, FirstIf - 1))
             = {stack[i] : i \in ((FirstIf - 1) + 1)..Len(stack)}
    BY <1>2, <1>3, RisingPrefix DEF Nested
  <2>2. Elements(stack)' = Elements(SubSeq(stack, 1, FirstIf - 1))
    BY DEF Elements
  <2> QED BY <1>3, <2>1, <2>2
<1> QED BY <1>4, <1>5, <1>7, <1>8

\* The frames that remain when the innermost block is closed.
LEMMA FramesLess ==
  ASSUME ReadInv, BlockInv, NEW k \in Kinds, code' = Append(code, k), ~Misplaced(k),
         k \in {"endif", "endwhile"}, DOMAIN jumps \subseteq DOMAIN jumps',
         NEW h, h = Here, NEW o, o = Blocks!OpenOf(h),
         Elements(stack)' = {p \in Elements(stack) : p < o}
  PROVE  Frames' /\ Chained'
<1> USE DEF ReadInv, BlockInv
<1>1. PICK B : B = Blocks!Around(h + 1)'
  OBVIOUS
<1>2. B = Blocks!Around(h) \ {o} /\ Blocks!Around(h) # {}
  <2>1. B = IF k \in {"if", "while"} THEN Blocks!Around(h) \cup {h}
            ELSE IF k \in {"endif", "endwhile"} THEN Blocks!Around(h) \ {Blocks!OpenOf(h)}
            ELSE Blocks!Around(h)
    BY <1>1, ReadBlocks
  <2>2. Blocks!Around(h) # {}
    BY ReadBlocks
  <2>3. k \notin {"if", "while"}
    OBVIOUS
  <2> QED BY <2>1, <2>2, <2>3
<1>3. /\ h \in Nat \ {0} /\ Len(code) = h - 1 /\ Elements(stack) \subseteq 1..(h - 1)
      /\ \A p \in 1..(h - 1) : code'[p] = code[p] /\ p \in 1..h
      /\ \A p \in 1..h : Blocks!OpenOf(p)' = Blocks!OpenOf(p)
      /\ \A p \in 1..(h - 1) : Blocks!HeadOf(p)' = Blocks!HeadOf(p)
  BY <1>1, BlocksGrow, FrameFacts, ClauseGrows
<1>4. /\ o \in Blocks!Around(h) /\ o \in Elements(stack) /\ code[o] \in {"if", "while"}
      /\ \A q \in Elements(stack) : q = o \/ q < o \/ (q > o /\ ClauseOf(q, o))
      /\ \A q \in Elements(stack) : q > o => code[o] = "if" /\ code[q] \in {"elif", "else"}
  BY <1>2, TopFacts
<1>5. \A p \in 1..(h - 1) : p \in Elements(stack) <=>
           \/ code[p] \in {"if", "while"} /\ p \in Blocks!Around(h)
           \/ code[p] \in {"elif", "else"} /\ Blocks!Around(p) # {} /\ Blocks!OpenOf(p) \in Blocks!Around(h)
  BY <1>3 DEF Frames, Framed
<1>6. ASSUME NEW p \in 1..(h - 1)
      PROVE  p \in Elements(stack)' <=>
           \/ code[p] \in {"if", "while"} /\ p \in B
           \/ code[p] \in {"elif", "else"} /\ Blocks!Around(p) # {} /\ Blocks!OpenOf(p) \in B
  <2>1. p \in Nat /\ o \in Nat /\ o \in 1..(h - 1)
    BY <1>3, <1>4
  <2>2. PICK x : x = Blocks!OpenOf(p)
    OBVIOUS
  <2>3. Blocks!Around(p) # {} => x \in Nat /\ x < p /\ x \in Blocks!Around(p)
    <3>1. Blocks!Around(p) # {} => x \in Blocks!Around(p)
      BY <2>1, <2>2, OpenOfFacts
    <3> QED BY <2>1, <3>1, AroundFacts
  <2>4. CASE p < o
    <3>1. p # o /\ (Blocks!Around(p) # {} => x # o)
      BY <2>1, <2>3, <2>4
    <3> QED BY <1>2, <1>5, <2>2, <2>4, <3>1
  <2>5. CASE p = o
    <3>1. p \notin B /\ code[p] \notin {"elif", "else"} /\ ~(p < o)
      BY <1>2, <1>4, <2>1, <2>5
    <3> QED BY <3>1
  <2>6. CASE p > o
    <3>1. ~(p < o) /\ p # o
      BY <2>1, <2>6
    <3>2. p \notin Elements(stack) => ~(code[p] \in {"if", "while"} /\ p \in B)
      BY <1>2, <1>5
    <3>3. p \in Elements(stack) => ClauseOf(p, o) /\ code[p] \in {"elif", "else"}
      BY <1>4, <2>6, <3>1
    <3>4. p \in Elements(stack) => x = o /\ x \notin B /\ code[p] \notin {"if", "while"}
      BY <1>2, <2>2, <3>3 DEF ClauseOf
    <3>5. ~(code[p] \in {"elif", "else"} /\ Blocks!Around(p) # {} /\ x \in B)
      BY <1>2, <1>5, <2>2, <3>4
    <3>6. ~(code[p] \in {"if", "while"} /\ p \in B)
      BY <3>2, <3>4
    <3> QED BY <2>2, <3>1, <3>5, <3>6
  <2> QED BY <2>1, <2>4, <2>5, <2>6
<1>7. Frames'
  <2>1. h \notin Elements(stack)' /\ Elements(stack)' \subseteq 1..h
    BY <1>3
  <2>2. k \notin {"if", "while"} /\ k \notin {"elif", "else"}
    OBVIOUS
  <2> QED BY <1>1, <1>6, <2>1, <2>2, FramesNext
<1>8. Chained'
  <2>1. ASSUME NEW p \in Elements(stack)', NEW j \in Elements(stack)', p < j,
               code'[p] \in {"if", "elif"}, code'[j] \in {"elif", "else"},
               Blocks!OpenOf(j)' = Blocks!HeadOf(p)'
        PROVE  p \in DOMAIN jumps'
    <3>1. p \in Elements(stack) /\ j \in Elements(stack) /\ p \in 1..(h - 1) /\ j \in 1..(h - 1)
      BY <1>3
    <3>2. /\ code[p] \in {"if", "elif"} /\ code[j] \in {"elif", "else"}
          /\ Blocks!OpenOf(j) = Blocks!HeadOf(p)
      BY <1>3, <2>1, <3>1
    <3> QED BY <2>1, <3>1, <3>2 DEF Chained
  <2> QED BY <2>1 DEF Chained
<1> QED BY <1>7, <1>8

LEMMA ReadEndIfBlocks ==
  ASSUME ReadInv, BlockInv, NEW k \in Kinds, code' = Append(code, k), ~Misplaced(k), EndIf(k)
  PROVE  BlockInv'
<1> USE DEF ReadInv, BlockInv
<1>1. PICK h, B, o : h = Here /\ B = Blocks!Around(h + 1)' /\ o = Blocks!OpenOf(h)
  OBVIOUS
<1>2. PICK chain : chain = {stack[i] : i \in FirstIf..Len(stack)}
  OBVIOUS
<1>3. /\ UNCHANGED <<whiles, breaks>> /\ k = "endif" /\ Top \in {"if", "elif", "else"}
      /\ stack' = SubSeq(stack, 1, FirstIf - 1)
      /\ jumps' = Patched(ChainEnd(chain))
      /\ k \notin {"if", "while"} /\ k \in {"endif", "endwhile"}
  BY <1>2 DEF EndIf, Misplaced, FirstIf
<1>4. PICK f : f = stack[FirstIf]
  OBVIOUS
<1>5. /\ f \in Elements(stack) /\ code[f] = "if"
      /\ chain = {p \in Elements(stack) : p >= f}
      /\ \A p \in chain : p = f \/ code[p] \in {"elif", "else"}
      /\ Elements(stack)' = Elements(stack) \ chain
  BY <1>2, <1>3, <1>4, ChainFrames
<1>6. AllFit' /\ Leveled' /\ Shut' /\ B = Blocks!Around(h) \ {o} /\ Blocks!Around(h) # {} /\ code[o] = "if"
  <2>1. B = IF k \in {"if", "while"} THEN Blocks!Around(h) \cup {h}
            ELSE IF k \in {"endif", "endwhile"} THEN Blocks!Around(h) \ {Blocks!OpenOf(h)}
            ELSE Blocks!Around(h)
    BY <1>1, ReadBlocks
  <2>2. AllFit' /\ Leveled' /\ Shut' /\ Blocks!Around(h) # {} /\ code[o] = "if"
    BY <1>1, <1>3, ReadBlocks
  <2> QED BY <1>1, <1>3, <2>1, <2>2
<1>7. /\ o \in Blocks!Around(h) /\ o \in Elements(stack)
      /\ \A q \in Elements(stack) : q = o \/ q < o \/ (q > o /\ ClauseOf(q, o))
      /\ \A q \in Elements(stack) : q > o => code[o] = "if" /\ code[q] \in {"elif", "else"}
  BY <1>1, <1>6, TopFacts
<1>8. /\ h \in Nat \ {0} /\ h \in 1..h /\ Len(code) = h - 1 /\ Elements(stack) \subseteq 1..(h - 1)
      /\ code'[h] = k /\ \A p \in 1..(h - 1) : code'[p] = code[p] /\ p \in 1..h
      /\ \A p \in 1..(h - 1) :
              code[p] \in {"elif", "else"} /\ Blocks!Around(p) # {}
                /\ Blocks!OpenOf(p) \in Blocks!Around(h) => p \in Elements(stack)
  BY <1>1, BlocksGrow, FrameFacts
<1>9. f = o
  <2>1. f \in Nat /\ o \in Nat
    BY <1>5, <1>7, <1>8
  <2>2. ~(f > o)
    BY <1>5, <1>7
  <2>3. ~(f < o)
    <3>1. SUFFICES ASSUME f < o PROVE FALSE
      OBVIOUS
    <3>2. o \in chain /\ o # f
      BY <1>5, <1>7, <2>1, <3>1
    <3> QED BY <1>5, <1>6, <3>2
  <2> QED BY <2>1, <2>2, <2>3
<1>10. /\ DOMAIN jumps' = DOMAIN jumps \cup chain
       /\ \A p \in chain : /\ jumps'[p].onEnd = h
                           /\ p \in DOMAIN jumps => jumps'[p].onFalse = jumps[p].onFalse
                           /\ p \notin DOMAIN jumps /\ code[p] # "else" => jumps'[p].onFalse = h
       /\ \A p \in DOMAIN jumps \ chain : jumps'[p] = jumps[p]
  <2>1. /\ DOMAIN jumps' = DOMAIN jumps \cup DOMAIN ChainEnd(chain)
        /\ \A p \in DOMAIN ChainEnd(chain) : jumps'[p] = ChainEnd(chain)[p]
        /\ \A p \in DOMAIN jumps \ DOMAIN ChainEnd(chain) : jumps'[p] = jumps[p]
    BY <1>3, PatchedIs
  <2>2. /\ DOMAIN ChainEnd(chain) = chain
        /\ \A p \in chain : /\ ChainEnd(chain)[p].onEnd = h
                            /\ p \in DOMAIN jumps => ChainEnd(chain)[p].onFalse = jumps[p].onFalse
                            /\ p \notin DOMAIN jumps /\ code[p] # "else" => ChainEnd(chain)[p].onFalse = h
    BY <1>1 DEF ChainEnd, Entry
  <2> QED BY <2>1, <2>2
<1>11. ClosedAt(o, h)'
  BY <1>1, <1>3, <1>6, ClosedGrows
<1>12. ASSUME NEW p \in chain, NEW e, NEW x, e = jumps'[p], x = Blocks!OpenOf(p)
       PROVE  /\ Means(p, e)'
              /\ code'[p] \in {"elif", "else"} => x \in B \/ ClosedAt(x, e.onEnd)'
  <2>1. /\ p \in Elements(stack) /\ p >= o /\ p \in 1..(h - 1) /\ code'[p] = code[p]
        /\ code[p] \in {"if", "elif", "else"} /\ e.onEnd = h
    BY <1>5, <1>8, <1>9, <1>10, <1>12
  <2>2. code[p] \in {"elif", "else"} => x = o
    <3>1. SUFFICES ASSUME code[p] \in {"elif", "else"} PROVE x = o
      OBVIOUS
    <3>2. p # o /\ ~(p < o)
      BY <1>6, <1>7, <1>8, <2>1, <3>1
    <3>3. ClauseOf(p, o)
      BY <1>7, <2>1, <3>2
    <3> QED BY <1>12, <3>3 DEF ClauseOf
  <2>3. code[p] \in {"if", "elif"} => FollowedBy(p, e.onFalse)'
    <3>1. SUFFICES ASSUME code[p] \in {"if", "elif"} PROVE FollowedBy(p, e.onFalse)'
      OBVIOUS
    <3>2. CASE p \in DOMAIN jumps
      <4>1. FollowedBy(p, jumps[p].onFalse)
        BY <3>1, <3>2 DEF Table, Means
      <4>2. e.onFalse = jumps[p].onFalse
        BY <1>10, <1>12, <3>2
      <4> QED BY <1>1, <2>1, <4>1, <4>2, FollowedGrows
    <3>3. CASE p \notin DOMAIN jumps
      <4>1. e.onFalse = h
        BY <1>10, <1>12, <3>1, <3>3
      <4>2. Blocks!HeadOf(p) = o
        BY <1>1, <1>6, <2>1, <3>1, LastClause
      <4>3. ASSUME NEW j \in (p + 1)..(h - 1), ClauseOf(j, o) PROVE FALSE
        <5>1. j \in 1..(h - 1) /\ p < j
          BY <1>8, <2>1
        <5>2. code[j] \in {"elif", "else"} /\ j \in Elements(stack)
          BY <1>1, <1>7, <4>3, <5>1, ClausesOpen
        <5>3. Blocks!OpenOf(j) = Blocks!HeadOf(p)
          BY <4>2, <4>3 DEF ClauseOf
        <5> QED BY <2>1, <3>1, <3>3, <5>1, <5>2, <5>3 DEF Chained
      <4>4. \A j \in (p + 1)..(h - 1) : ~ClauseOf(j, Blocks!HeadOf(p))
        BY <4>2, <4>3
      <4>5. FollowedBy(p, h)'
        BY <1>1, <1>3, <1>6, <2>1, <4>2, <4>4, FollowedGrows
      <4> QED BY <4>1, <4>5
    <3> QED BY <3>2, <3>3
  <2>4. Means(p, e)'
    BY <2>1, <2>3 DEF Means
  <2>5. code'[p] \in {"elif", "else"} => ClosedAt(x, e.onEnd)'
    BY <1>11, <2>1, <2>2
  <2> QED BY <2>4, <2>5
<1>13. ASSUME NEW p \in DOMAIN jumps \ chain, NEW x,
              code[p] \in {"elif", "else"}, x = Blocks!OpenOf(p), x \in Blocks!Around(h)
       PROVE  x \in B
  <2>1. p \in 1..(h - 1)
    BY <1>8 DEF ParserTypes
  <2>2. Blocks!Around(p) # {}
    <3>1. Fits(p)
      BY <1>8, <2>1 DEF AllFit
    <3> QED BY <1>13, <3>1 DEF Fits
  <2>3. p \in Elements(stack) /\ ~(p >= o)
    BY <1>5, <1>8, <1>9, <1>13, <2>1, <2>2
  <2>4. x \in Nat /\ x < p
    <3>1. x \in Blocks!Around(p) /\ p \in Nat
      BY <1>13, <2>1, <2>2, OpenOfFacts
    <3> QED BY <3>1, AroundFacts
  <2>5. x # o
    <3>1. o \in Nat /\ p \in Nat
      BY <1>7, <1>8, <2>1
    <3> QED BY <2>3, <2>4, <3>1
  <2> QED BY <1>6, <1>13, <2>5
<1>14. Table'
  <2>1. chain \in SUBSET (1..h)
    BY <1>5, <1>8
  <2>2. TableStep(h, B, chain)
    <3>1. \A p \in chain : \A e, x : e = jumps'[p] /\ x = Blocks!OpenOf(p) =>
            /\ Means(p, e)'
            /\ code'[p] \in {"elif", "else"} => x \in B \/ ClosedAt(x, e.onEnd)'
      BY <1>12
    <3>2. \A p \in DOMAIN jumps \ chain : \A x :
            code[p] \in {"elif", "else"} /\ x = Blocks!OpenOf(p) /\ x \in Blocks!Around(h) => x \in B
      BY <1>13
    <3>3. /\ DOMAIN jumps' = DOMAIN jumps \cup chain
          /\ \A p \in DOMAIN jumps \ chain : jumps'[p] = jumps[p]
      BY <1>10
    <3> QED BY <2>1, <3>1, <3>2, <3>3 DEF TableStep
  <2> QED BY <1>1, <2>2, TableNext
<1>15. Frames' /\ Chained'
  <2>1. Elements(stack)' = {p \in Elements(stack) : p < o}
    <3>1. \A p \in Elements(stack) : p < o <=> ~(p >= o)
      BY <1>7, <1>8
    <3> QED BY <1>5, <1>9, <3>1
  <2> QED BY <1>1, <1>3, <1>10, <2>1, FramesLess
<1>16. BreaksOut'
  BY <1>3, SameBreaks
<1> QED BY <1>6, <1>14, <1>15, <1>16

LEMMA ReadEndWhileBlocks ==
  ASSUME ReadInv, BlockInv, NEW k \in Kinds, code' = Append(code, k), ~Misplaced(k), EndWhile(k)
  PROVE  BlockInv'
<1> USE DEF ReadInv, BlockInv
<1> DEFINE broken == {breaks[i].pc : i \in (OuterBreaks + 1)..Len(breaks)}
           D == {Last(stack), Here} \cup broken
           new == [p \in D |->
             IF p = Here THEN [Zero EXCEPT !.onEnd = Last(stack)]
             ELSE IF p = Last(stack) THEN [Entry(p) EXCEPT !.onFalse = Here]
             ELSE [Zero EXCEPT !.onEnd = Here]]
<1>1. PICK h, B, o : h = Here /\ B = Blocks!Around(h + 1)' /\ o = Blocks!OpenOf(h)
  OBVIOUS
<1>2. /\ k = "endwhile" /\ Top = "while" /\ k \in {"endif", "endwhile"} /\ k \notin {"if", "while"}
      /\ stack' = Front(stack) /\ whiles' = Front(whiles)
      /\ breaks' = SubSeq(breaks, 1, OuterBreaks) /\ jumps' = Patched(new)
  BY DEF EndWhile, LoopEnd, Misplaced
<1>3. /\ stack # <<>> /\ whiles # <<>> /\ Last(whiles) = Last(stack)
      /\ stack \in Seq(Nat) /\ whiles \in Seq(Nat)
  BY <1>2, TopWhile
<1>4. AllFit' /\ Leveled' /\ Shut' /\ B = Blocks!Around(h) \ {o} /\ Blocks!Around(h) # {} /\ code[o] = "while"
  <2>1. B = IF k \in {"if", "while"} THEN Blocks!Around(h) \cup {h}
            ELSE IF k \in {"endif", "endwhile"} THEN Blocks!Around(h) \ {Blocks!OpenOf(h)}
            ELSE Blocks!Around(h)
    BY <1>1, ReadBlocks
  <2>2. AllFit' /\ Leveled' /\ Shut' /\ Blocks!Around(h) # {} /\ code[o] = "while"
    BY <1>1, <1>2, ReadBlocks
  <2> QED BY <1>1, <1>2, <2>1, <2>2
<1>5. /\ o \in Blocks!Around(h) /\ o \in Elements(stack)
      /\ Last(stack) \in Elements(stack) /\ \A q \in Elements(stack) : q <= Last(stack)
      /\ \A q \in Elements(stack) : q = o \/ q < o \/ (q > o /\ ClauseOf(q, o))
      /\ \A q \in Elements(stack) : q > o => code[o] = "if"
  BY <1>1, <1>4, TopFacts
<1>6. /\ h \in Nat \ {0} /\ h \in 1..h /\ Len(code) = h - 1 /\ Elements(stack) \subseteq 1..(h - 1)
      /\ code'[h] = k /\ \A p \in 1..(h - 1) : code'[p] = code[p] /\ p \in 1..h
      /\ \A p \in 1..h : Blocks!LoopOf(p)' = Blocks!LoopOf(p)
  BY <1>1, BlocksGrow, FrameFacts
<1>7. Last(stack) = o
  <2>1. o <= Last(stack) /\ ~(Last(stack) > o)
    BY <1>4, <1>5
  <2>2. o \in Nat /\ Last(stack) \in Nat
    BY <1>5, <1>6
  <2> QED BY <2>1, <2>2
<1>8. o = Blocks!LoopOf(h) /\ o = whiles[Len(whiles)] /\ o \in 1..(h - 1) /\ o # h
  <2>1. o = Blocks!LoopOf(h) /\ o = whiles[Len(whiles)]
    BY <1>1, <1>3, <1>7, WhileFacts
  <2> QED BY <1>5, <1>6, <2>1
<1>9. /\ OuterBreaks \in 0..Len(breaks)
      /\ \A i \in 1..OuterBreaks : breaks[i].level \in 1..(Len(whiles) - 1)
      /\ \A i \in (OuterBreaks + 1)..Len(breaks) : breaks[i].level = Len(whiles)
  BY <1>3, OuterBreaksFacts
<1> HIDE DEF OuterBreaks
<1>10. /\ Len(breaks) \in Nat /\ OuterBreaks \in Nat /\ DOMAIN breaks = 1..Len(breaks)
       /\ DOMAIN breaks' = 1..OuterBreaks
       /\ \A i \in 1..OuterBreaks : breaks'[i] = breaks[i] /\ i \in 1..Len(breaks)
       /\ \A i \in 1..Len(breaks) : breaks[i].pc \in 1..(h - 1)
       /\ (OuterBreaks + 1)..Len(breaks) \subseteq 1..Len(breaks)
  <2> DEFINE T == [level : Nat, pc : 1..Len(code)]
  <2>1. breaks \in Seq(T) /\ \A e \in T : e.pc \in 1..(h - 1)
    BY <1>6 DEF ParserTypes
  <2> HIDE DEF T
  <2>2. /\ Len(breaks) \in Nat /\ OuterBreaks \in Nat /\ OuterBreaks <= Len(breaks)
        /\ DOMAIN breaks = 1..Len(breaks) /\ DOMAIN breaks' = 1..OuterBreaks
        /\ \A i \in 1..OuterBreaks : breaks'[i] = breaks[i] /\ i \in 1..Len(breaks)
    BY <1>2, <1>9, <2>1, PrefixFacts
  <2>3. \A i \in 1..Len(breaks) : breaks[i].pc \in 1..(h - 1)
    BY <2>1
  <2>4. (OuterBreaks + 1)..Len(breaks) \subseteq 1..Len(breaks)
    BY <2>2
  <2> QED BY <2>2, <2>3, <2>4
<1>11. ASSUME NEW p \in broken
       PROVE  p \in 1..(h - 1) /\ code[p] = "break" /\ Blocks!LoopOf(p) = o /\ p # o /\ p # h
  <2>1. PICK i \in (OuterBreaks + 1)..Len(breaks) : p = breaks[i].pc
    OBVIOUS
  <2>2. i \in DOMAIN breaks /\ breaks[i].level = Len(whiles) /\ p \in 1..(h - 1)
    BY <1>9, <1>10, <2>1
  <2>3. code[p] = "break" /\ Blocks!LoopOf(p) = o
    BY <1>8, <2>1, <2>2 DEF BreaksOut
  <2>4. p # h
    BY <1>6, <2>2
  <2> QED BY <1>4, <2>2, <2>3, <2>4
<1> HIDE DEF broken
<1>12. /\ D = {o, h} \cup broken /\ D \in SUBSET (1..h)
       /\ DOMAIN jumps' = DOMAIN jumps \cup D
       /\ \A p \in DOMAIN jumps \ D : jumps'[p] = jumps[p]
       /\ jumps'[h].onEnd = o /\ jumps'[o].onFalse = h
       /\ \A p \in broken : jumps'[p].onEnd = h
  <2>1. D = {o, h} \cup broken
    BY <1>1, <1>7
  <2>2. D \in SUBSET (1..h)
    BY <1>6, <1>8, <1>11, <2>1
  <2>3. /\ DOMAIN jumps' = DOMAIN jumps \cup DOMAIN new
        /\ \A p \in DOMAIN new : jumps'[p] = new[p]
        /\ \A p \in DOMAIN jumps \ DOMAIN new : jumps'[p] = jumps[p]
    <3> HIDE DEF new
    <3> QED BY <1>2, PatchedIs
  <2> HIDE DEF D
  <2>4. DOMAIN new = D /\ h \in D /\ o \in D /\ \A p \in broken : p \in D
    BY <2>1
  <2>5. new[h].onEnd = o
    BY <1>1, <1>7, <2>4 DEF Zero
  <2>6. new[o].onFalse = h
    BY <1>1, <1>7, <1>8, <2>4 DEF Entry, Zero, ParserTypes
  <2>7. \A p \in broken : new[p].onEnd = h
    BY <1>1, <1>7, <1>11, <2>4 DEF Zero
  <2> HIDE DEF new
  <2> QED BY <2>1, <2>2, <2>3, <2>4, <2>5, <2>6, <2>7
<1> HIDE DEF D, new
<1>13. ClosedAt(o, h)'
  BY <1>1, <1>2, <1>4, ClosedGrows
<1>14. ASSUME NEW p \in D, NEW e, e = jumps'[p] PROVE Means(p, e)' /\ code'[p] \notin {"elif", "else"}
  <2>1. CASE p = h
    <3>1. e.onEnd = o /\ code'[p] = "endwhile" /\ Blocks!LoopOf(h)' = o
      BY <1>2, <1>6, <1>8, <1>12, <1>14, <2>1
    <3>2. Blocks!LoopOf(p)' = o
      BY <2>1, <3>1 DEF Blocks!LoopOf, Blocks!LoopsOf
    <3> QED BY <3>1, <3>2 DEF Means
  <2>2. CASE p = o
    <3>1. e.onFalse = h /\ code'[p] = "while"
      BY <1>4, <1>6, <1>8, <1>12, <1>14, <2>2
    <3>2. ClosedAt(p, e.onFalse)'
      BY <1>13, <2>2, <3>1 DEF ClosedAt
    <3> QED BY <3>1, <3>2 DEF Means
  <2>3. CASE p \in broken
    <3>1. /\ p \in 1..(h - 1) /\ code'[p] = "break" /\ e.onEnd = h
      BY <1>6, <1>11, <1>12, <1>14, <2>3
    <3>2. Blocks!LoopOf(p)' = o
      BY <1>6, <1>11, <2>3, <3>1
    <3>3. ClosedAt(Blocks!LoopOf(p), e.onEnd)'
      BY <1>13, <3>1, <3>2 DEF ClosedAt
    <3> QED BY <3>1, <3>3 DEF Means
  <2> QED BY <1>12, <2>1, <2>2, <2>3
<1>15. ASSUME NEW p \in DOMAIN jumps \ D, NEW x,
              code[p] \in {"elif", "else"}, x = Blocks!OpenOf(p), x \in Blocks!Around(h)
       PROVE  x \in B
  <2>1. p \in 1..(h - 1)
    BY <1>6 DEF ParserTypes
  <2>2. Fits(p)
    BY <1>6, <2>1 DEF AllFit
  <2>3. x # o
    BY <1>4, <1>15, <2>2 DEF Fits
  <2> QED BY <1>4, <1>15, <2>3
<1>16. Table'
  <2>1. \A p \in D : \A e, x : e = jumps'[p] /\ x = Blocks!OpenOf(p) =>
          /\ Means(p, e)'
          /\ code'[p] \in {"elif", "else"} => x \in B \/ ClosedAt(x, e.onEnd)'
    BY <1>14
  <2>2. \A p \in DOMAIN jumps \ D : \A x :
          code[p] \in {"elif", "else"} /\ x = Blocks!OpenOf(p) /\ x \in Blocks!Around(h) => x \in B
    BY <1>15
  <2>3. TableStep(h, B, D)
    BY <1>12, <2>1, <2>2 DEF TableStep
  <2> QED BY <1>1, <2>3, TableNext
<1>17. Frames' /\ Chained'
  <2>1. Elements(stack') = Elements(stack) \ {o}
    BY <1>2, <1>3, <1>7, LastFacts DEF Nested
  <2>2. \A q \in Elements(stack) : q < o <=> q # o
    <3>1. \A q \in Elements(stack) : q = o \/ q < o
      BY <1>4, <1>5
    <3>2. \A q \in Elements(stack) : q \in Nat
      BY <1>6
    <3> QED BY <1>8, <3>1, <3>2
  <2>3. Elements(stack)' = {p \in Elements(stack) : p < o}
    <3>1. Elements(stack)' = Elements(stack')
      BY DEF Elements
    <3> QED BY <2>1, <2>2, <3>1
  <2> QED BY <1>1, <1>2, <1>12, <2>3, FramesLess
<1>18. BreaksOut'
  <2>1. Len(whiles) - 1 \in 0..Len(whiles)
    BY <1>3, LastFacts DEF Loops
  <2>2. \A i \in 1..(Len(whiles) - 1) : whiles'[i] = whiles[i]
    BY <1>2, <1>3, <2>1, FrontFacts
  <2>3. \A i \in DOMAIN breaks' :
           /\ i \in DOMAIN breaks /\ breaks'[i] = breaks[i]
           /\ whiles'[breaks[i].level] = whiles[breaks[i].level]
    BY <1>9, <1>10, <2>2
  <2> QED BY <2>3, KeptBreaks
<1> QED BY <1>4, <1>16, <1>17, <1>18

-----------------------------------------------------------------------------
(* The invariant of the parser, and what it leaves behind. *)

FlowBlocks ==
  /\ FlowInv
  /\ phase # "syntax" => BlockInv
  /\ phase = "reading" => pc = 1 /\ justJumped = FALSE

LEMMA InitFlowBlocks == Init => FlowBlocks
<1> SUFFICES ASSUME Init PROVE FlowBlocks
  OBVIOUS
<1>1. FlowInv
  BY InitFlowInv
<1>2. /\ code = <<>> /\ jumps = <<>> /\ stack = <<>> /\ whiles = <<>> /\ breaks = <<>>
      /\ pc = 1 /\ justJumped = FALSE
  BY DEF Init
<1>3. Len(code) = 0 /\ 1..0 = {} /\ Here = 1 /\ 1..Here = {1}
  BY <1>2 DEF Here
<1>4. DOMAIN jumps = {} /\ DOMAIN breaks = {} /\ Elements(stack) = {}
  BY <1>2 DEF Elements
<1>5. AllFit /\ Shut /\ Table /\ Chained /\ BreaksOut /\ Frames
  BY <1>3, <1>4 DEF AllFit, Shut, Table, Chained, BreaksOut, Frames
<1>6. Blocks!Around(1) = {}
  <2>1. Blocks!Around(1) \subseteq 1..(1 - 1) /\ 1..(1 - 1) = {}
    BY AroundFacts
  <2> QED BY <2>1
<1>7. Leveled
  BY <1>3, <1>6, LevelFirst DEF Leveled
<1> QED BY <1>1, <1>2, <1>5, <1>7 DEF FlowBlocks, BlockInv

LEMMA SameBlocks ==
  ASSUME BlockInv, UNCHANGED parserVars
  PROVE  BlockInv'
<1>1. UNCHANGED <<code, jumps, stack, whiles, breaks>>
  BY DEF parserVars
<1>2. \A i : /\ Blocks!Around(i)' = Blocks!Around(i) /\ Blocks!OpenOf(i)' = Blocks!OpenOf(i)
             /\ Blocks!LoopsOf(i)' = Blocks!LoopsOf(i) /\ Blocks!LoopOf(i)' = Blocks!LoopOf(i)
             /\ Blocks!HeadOf(i)' = Blocks!HeadOf(i) /\ Blocks!Level(i)' = Blocks!Level(i)
  BY <1>1 DEF Blocks!Around, Blocks!OpenOf, Blocks!LoopsOf, Blocks!LoopOf, Blocks!HeadOf, Blocks!Level
<1>3. Blocks!Around(Here)' = Blocks!Around(Here) /\ Here' = Here
  BY <1>1 DEF Here, Blocks!Around, Blocks!Level
<1>4. /\ \A i : Fits(i)' <=> Fits(i)
      /\ \A o, c : ClosedAt(o, c)' <=> ClosedAt(o, c)
      /\ \A o, c : ClauseOf(o, c)' <=> ClauseOf(o, c)
  BY <1>1, <1>2 DEF Fits, ClosedAt, ClauseOf
<1>5. \A p, n : FollowedBy(p, n)' <=> FollowedBy(p, n)
  BY <1>1, <1>2, <1>4 DEF FollowedBy
<1>6. \A p, e : Means(p, e)' <=> Means(p, e)
  BY <1>1, <1>2, <1>4, <1>5 DEF Means
<1>7. AllFit' /\ Shut'
  BY <1>1, <1>3, <1>4 DEF BlockInv, AllFit, Shut
<1>8. Leveled'
  BY <1>1, <1>2, <1>3 DEF BlockInv, Leveled
<1>9. Frames' /\ Chained' /\ BreaksOut'
  BY <1>1, <1>2, <1>3 DEF BlockInv, Frames, Framed, Elements, Chained, BreaksOut
<1>10. Table'
  BY <1>1, <1>2, <1>3, <1>4, <1>6 DEF BlockInv, Table
<1> QED BY <1>7, <1>8, <1>9, <1>10 DEF BlockInv

LEMMA ReadFlowBlocks ==
  ASSUME FlowBlocks, NEW k \in Kinds, ReadLine(k)
  PROVE  /\ ReadInv /\ BlockInv /\ code' = Append(code, k) /\ phase = "reading"
         /\ UNCHANGED <<pc, justJumped>>
         /\ IF Misplaced(k) THEN phase' = "syntax" ELSE phase' = "reading" /\ BlockInv'
<1>1. phase = "reading" /\ code' = Append(code, k) /\ UNCHANGED <<pc, justJumped>>
  BY DEF ReadLine
<1>2. ReadInv /\ BlockInv
  BY <1>1 DEF FlowBlocks, FlowInv, ReadInv
<1>3. ASSUME Misplaced(k) PROVE phase' = "syntax"
  BY <1>3 DEF ReadLine, Reject
<1>4. ASSUME ~Misplaced(k) PROVE phase' = "reading" /\ BlockInv'
  <2>1. /\ phase' = "reading"
        /\ Plain(k) \/ Open(k) \/ Clause(k) \/ EndIf(k) \/ EndWhile(k) \/ Break(k) \/ Continue(k)
    BY <1>1, <1>4 DEF ReadLine, Reject
  <2> QED BY <1>1, <1>2, <1>4, <2>1, ReadPlainBlocks, ReadOpenBlocks, ReadClauseBlocks,
            ReadEndIfBlocks, ReadEndWhileBlocks, ReadBreakBlocks, ReadContinueBlocks
<1> QED BY <1>1, <1>2, <1>3, <1>4

LEMMA NextFlowBlocks == FlowBlocks /\ [Next]_vars => FlowBlocks'
<1> SUFFICES ASSUME FlowBlocks, [Next]_vars PROVE FlowBlocks'
  OBVIOUS
<1>1. FlowInv'
  BY NextFlowInv DEF FlowBlocks
<1>2. ASSUME NEW k \in Kinds, ReadLine(k) PROVE FlowBlocks'
  BY <1>1, <1>2, ReadFlowBlocks DEF FlowBlocks
<1>3. ASSUME UNCHANGED parserVars, phase' # "syntax" => phase # "syntax", phase' = "reading" => phase = "reading" /\ UNCHANGED <<pc, justJumped>>
      PROVE  FlowBlocks'
  BY <1>1, <1>3, SameBlocks DEF FlowBlocks
<1>4. ASSUME Evaluate PROVE phase = "running" /\ phase' # "reading" /\ UNCHANGED parserVars
  <2>1. phase = "running" /\ phase' # "reading"
    BY <1>4 DEF Evaluate, PassOver, WalkOn, Leap, Condition, Command, Exit, Finish, Abort, Executes, GoTo, Return
  <2> QED BY <1>4, <2>1 DEF Evaluate
<1>5. CASE Evaluate
  BY <1>3, <1>4, <1>5
<1>6. CASE EndOfScript
  BY <1>3, <1>6 DEF EndOfScript
<1>7. CASE Cancel
  BY <1>3, <1>7 DEF Cancel
<1>8. CASE UNCHANGED vars
  BY <1>3, <1>8 DEF vars
<1> QED BY <1>2, <1>5, <1>6, <1>7, <1>8 DEF Next, Returned

\* The level counts the blocks around an instruction, so that it is never below 0.
LEMMA LevelNotNegative ==
  ASSUME ParserTypes, Leveled, NEW i \in 1..Here
  PROVE  Blocks!Level(i) >= 0 /\ Blocks!Level(i) \in Int
<1> DEFINE T == {n \in 1..Here : ~(Blocks!Level(n) >= 0)}
<1>1. Here \in Nat /\ T \in SUBSET Nat /\ \A n \in 1..Here : n \in Nat \ {0}
  BY DEF ParserTypes, Here
<1>2. ASSUME T # {} PROVE FALSE
  <2>1. PICK x \in T : \A y \in T : x <= y
    BY <1>1, <1>2, LeastElement
  <2>2. x \in 1..Here /\ x \in Nat \ {0} /\ ~(Blocks!Level(x) >= 0) /\ Blocks!Level(x) \in Int
    BY <1>1, <2>1, LevelStep
  <2>3. Blocks!Around(x) # {} /\ Blocks!Level(Blocks!OpenOf(x)) = Blocks!Level(x) - 1
    BY <2>2 DEF Leveled
  <2>4. PICK o : o = Blocks!OpenOf(x)
    OBVIOUS
  <2>5. o \in 1..Here /\ o < x
    <3>1. o \in Blocks!Around(x) /\ x \in Nat
      BY <2>2, <2>3, <2>4, OpenOfFacts
    <3>2. o \in Nat \ {0} /\ o < x
      BY <3>1, AroundFacts
    <3> QED BY <1>1, <2>2, <3>2
  <2>6. ~(Blocks!Level(o) >= 0)
    BY <2>2, <2>3, <2>4
  <2>7. o \in T /\ ~(x <= o)
    BY <1>1, <2>2, <2>5, <2>6
  <2> QED BY <2>1, <2>7
<1>3. i \in Nat \ {0} /\ ~(i \in T)
  BY <1>1, <1>2
<1> QED BY <1>3, LevelStep

\* A script that was read is well-formed when no block is open.
LEMMA CompleteIs ==
  ASSUME ReadInv, BlockInv
  PROVE  Blocks!WellFormed <=> stack = <<>>
<1> USE DEF ReadInv, BlockInv
<1>1. PICK h : h = Here
  OBVIOUS
<1>2. h \in Nat \ {0} /\ h \in 1..h /\ h = Len(code) + 1
  BY <1>1 DEF ParserTypes, Here
<1>3. Blocks!Completable
  BY FitsSound DEF AllFit, Blocks!Completable, Blocks!Positions
<1>4. stack = <<>> <=> Blocks!Around(h) = {}
  BY <1>1, TopFacts
<1>5. Blocks!Around(h) = {} => Blocks!Level(h) = 0
  BY <1>1, <1>2 DEF Leveled
<1>6. ASSUME Blocks!Around(h) # {} PROVE Blocks!Level(h) # 0
  <2>1. PICK o : o = Blocks!OpenOf(h)
    OBVIOUS
  <2>2. Blocks!Level(o) = Blocks!Level(h) - 1 /\ Blocks!Level(h) \in Int
    BY <1>1, <1>2, <1>6, <2>1, LevelStep DEF Leveled
  <2>3. o \in Blocks!Around(h)
    BY <1>2, <1>6, <2>1, OpenOfFacts
  <2>4. o \in 1..h
    BY <1>2, <2>3, AroundFacts
  <2>5. Blocks!Level(o) >= 0
    BY <1>1, <2>4, LevelNotNegative
  <2> QED BY <2>2, <2>5
<1> QED BY <1>2, <1>3, <1>4, <1>5, <1>6 DEF Blocks!WellFormed

-----------------------------------------------------------------------------
(* Where control settles. *)

\* A function defined by looking further ahead exists.
Ahead(b, V, N) == \A i \in V : b[i] \in (i + 1)..N
Chased(f, b, s, V, N) == f = [i \in 1..N |-> IF i \in V THEN f[b[i]] ELSE s[i]]

LEMMA LooksAhead ==
  ASSUME NEW N \in Nat, NEW V \in SUBSET (1..N), NEW b, NEW s, Ahead(b, V, N)
  PROVE  \E f : Chased(f, b, s, V, N)
<1> DEFINE From(f, n) == f = [i \in 1..N |-> IF i > n /\ i \in V THEN f[b[i]] ELSE s[i]]
           T == {n \in 0..N : \E f : From(f, n)}
<1>1. N \in T
  <2>1. \A i \in 1..N : ~(i > N)
    OBVIOUS
  <2>2. PICK f : f = [i \in 1..N |-> s[i]]
    OBVIOUS
  <2>3. From(f, N)
    BY <2>1, <2>2
  <2> QED BY <2>3
<1>2. PICK t \in T : \A n \in T : t <= n
  <2>1. T \in SUBSET Nat /\ T # {}
    BY <1>1
  <2> HIDE DEF T
  <2> QED BY <2>1, LeastElement
<1>3. t \in 0..N
  BY <1>2
<1>4. PICK f : From(f, t)
  BY <1>2
<1>5. ASSUME t # 0 PROVE FALSE
  <2>1. t \in 1..N /\ t - 1 \in 0..N /\ ~(t <= t - 1)
    BY <1>3, <1>5
  <2>2. PICK g : g = [i \in 1..N |-> IF i = t THEN (IF t \in V THEN f[b[t]] ELSE s[t]) ELSE f[i]]
    OBVIOUS
  <2>3. ASSUME NEW i \in V, i >= t PROVE g[b[i]] = f[b[i]]
    <3>1. b[i] \in 1..N /\ b[i] # t
      <4>1. b[i] \in (i + 1)..N /\ i \in 1..N
        BY <2>3 DEF Ahead
      <4> QED BY <2>1, <2>3, <4>1
    <3> QED BY <2>2, <3>1
  <2>4. ASSUME NEW i \in 1..N PROVE g[i] = IF i > t - 1 /\ i \in V THEN g[b[i]] ELSE s[i]
    <3>1. CASE i = t
      <4>1. i > t - 1 /\ g[i] = IF t \in V THEN f[b[t]] ELSE s[t]
        BY <2>1, <2>2, <3>1
      <4>2. i \in V => g[b[i]] = f[b[i]]
        BY <2>1, <2>3, <3>1
      <4> QED BY <3>1, <4>1, <4>2
    <3>2. CASE i > t
      <4>1. i > t - 1 /\ g[i] = f[i] /\ i >= t
        BY <2>1, <2>2, <3>2
      <4>2. f[i] = IF i \in V THEN f[b[i]] ELSE s[i]
        BY <1>4, <3>2
      <4>3. i \in V => g[b[i]] = f[b[i]]
        BY <2>3, <4>1
      <4> QED BY <4>1, <4>2, <4>3
    <3>3. CASE i < t
      <4>1. ~(i > t - 1) /\ ~(i > t) /\ g[i] = f[i]
        BY <2>1, <2>2, <3>3
      <4>2. f[i] = s[i]
        BY <1>4, <4>1
      <4> QED BY <4>1, <4>2
    <3> QED BY <2>1, <3>1, <3>2, <3>3
  <2>5. From(g, t - 1)
    <3>1. g = [i \in 1..N |-> g[i]]
      BY <2>2
    <3> QED BY <2>4, <3>1
  <2>6. t - 1 \in T
    BY <2>1, <2>5
  <2> QED BY <1>2, <2>1, <2>6
<1>6. ASSUME NEW i \in 1..N PROVE i > 0
  OBVIOUS
<1> QED BY <1>4, <1>5, <1>6 DEF Chased

\* A script with no open block, where each part of a block is found.
Parsed == ReadInv /\ BlockInv /\ stack = <<>>

LEMMA ClosedAll ==
  ASSUME Parsed, NEW o \in 1..Len(code), code[o] \in {"if", "while"}
  PROVE  \E c \in 1..Len(code) : ClosedAt(o, c) /\ Blocks!CloseOf(o) = c
<1> USE DEF Parsed, ReadInv, BlockInv
<1>1. Blocks!Around(Here) = {}
  BY TopFacts
<1>2. PICK c \in 1..Len(code) : ClosedAt(o, c)
  BY <1>1 DEF Shut
<1> QED BY <1>2, ClosedIs

\* Around an instruction whose block is closed at c, and before it.
LEMMA ClosedBehind ==
  ASSUME Parsed, NEW i \in 1..Len(code), NEW o \in Blocks!Around(i),
         code[i] \notin {"endif", "endwhile"}
  PROVE  /\ o \in 1..Len(code) /\ code[o] \in {"if", "while"}
         /\ \E c \in 1..Len(code) : ClosedAt(o, c) /\ Blocks!CloseOf(o) = c /\ i < c
<1> USE DEF Parsed, ReadInv, BlockInv
<1>1. Len(code) \in Nat /\ i \in Nat
  BY DEF ParserTypes
<1>2. o \in 1..Len(code) /\ code[o] \in {"if", "while"}
  <2>1. o \in Nat \ {0} /\ o < i /\ code[o] \in {"if", "while"}
    BY <1>1, AroundFacts
  <2> QED BY <1>1, <2>1
<1>3. PICK c \in 1..Len(code) : ClosedAt(o, c) /\ Blocks!CloseOf(o) = c
  BY <1>2, ClosedAll
<1>4. i <= c /\ c \in Nat
  BY <1>1, <1>3, ClosedFacts
<1>5. i # c
  BY <1>3 DEF ClosedAt
<1> QED BY <1>1, <1>2, <1>3, <1>4, <1>5

\* What the table holds for the instruction at i, and where that is.
LEMMA JumpFacts ==
  ASSUME Parsed, NEW i \in 1..Len(code)
  PROVE  /\ code[i] \in {"elif", "else"} =>
              LET c == Blocks!CloseOf(Blocks!OpenOf(i))
              IN  jumps[i].onEnd = c /\ c \in (i + 1)..Len(code)
         /\ code[i] \in {"if", "elif"} =>
              LET n == Blocks!NextClause(i)
              IN  jumps[i].onFalse = n /\ n \in (i + 1)..Len(code)
         /\ code[i] = "while" =>
              LET c == Blocks!CloseOf(i)
              IN  jumps[i].onFalse = c /\ c \in (i + 1)..Len(code) /\ code[c] = "endwhile"
         /\ code[i] = "break" =>
              LET c == Blocks!CloseOf(Blocks!LoopOf(i))
              IN  jumps[i].onEnd = c /\ c \in (i + 1)..Len(code) /\ code[c] = "endwhile"
         /\ code[i] \in {"endwhile", "continue"} =>
              LET o == Blocks!LoopOf(i)
              IN  jumps[i].onEnd = o /\ o \in 1..Len(code) /\ code[o] = "while"
<1> USE DEF Parsed, ReadInv, BlockInv
<1>1. /\ Len(code) \in Nat /\ i \in Nat /\ Fits(i)
      /\ code[i] \notin NoEntry => i \in DOMAIN jumps
  BY AllClosed DEF AllFit
<1>2. Blocks!Around(Here) = {}
  BY TopFacts
<1>3. ASSUME NEW o, NEW c, ClosedAt(o, c)
      PROVE  /\ c \in 1..Len(code) /\ Blocks!CloseOf(o) = c /\ o < c
             /\ code[o] = "while" => code[c] = "endwhile"
  <2>1. c \in 1..Len(code) /\ code[c] \in {"endif", "endwhile"} /\ Blocks!OpenOf(c) = o
    BY <1>3 DEF ClosedAt
  <2>2. Fits(c)
    BY <2>1 DEF AllFit
  <2>3. o < c
    BY <1>3, ClosedFacts
  <2> QED BY <1>3, <2>1, <2>2, <2>3, ClosedIs DEF Fits
<1>4. ASSUME code[i] \in {"elif", "else"}
      PROVE  \E c : /\ Blocks!CloseOf(Blocks!OpenOf(i)) = c /\ jumps[i].onEnd = c
                    /\ c \in (i + 1)..Len(code)
  <2>1. PICK o : o = Blocks!OpenOf(i)
    OBVIOUS
  <2>2. i \in DOMAIN jumps /\ Blocks!Around(i) # {}
    BY <1>1, <1>4 DEF NoEntry, Fits
  <2>3. ClosedAt(o, jumps[i].onEnd)
    BY <1>2, <1>4, <2>1, <2>2 DEF Table
  <2>4. o \in Blocks!Around(i) /\ code[i] \notin {"endif", "endwhile"}
    BY <1>1, <1>4, <2>1, <2>2, OpenOfFacts
  <2>5. PICK c \in 1..Len(code) : ClosedAt(o, c) /\ Blocks!CloseOf(o) = c /\ i < c
    BY <2>4, ClosedBehind
  <2>6. jumps[i].onEnd = c
    BY <1>3, <2>3, <2>5
  <2> QED BY <1>1, <2>1, <2>5, <2>6
<1>5. ASSUME code[i] \in {"if", "elif"}
      PROVE  \E n : Blocks!NextClause(i) = n /\ jumps[i].onFalse = n /\ n \in (i + 1)..Len(code)
  <2>1. FollowedBy(i, jumps[i].onFalse)
    BY <1>1, <1>5 DEF NoEntry, Table, Means
  <2>2. PICK n : n = jumps[i].onFalse
    OBVIOUS
  <2>3. Blocks!NextClause(i) = n /\ n \in 1..Len(code) /\ i < n
    BY <1>1, <2>1, <2>2, FollowedIs DEF FollowedBy
  <2> QED BY <1>1, <2>2, <2>3
<1>6. ASSUME code[i] = "while"
      PROVE  \E c : /\ Blocks!CloseOf(i) = c /\ jumps[i].onFalse = c /\ c \in (i + 1)..Len(code)
                    /\ code[c] = "endwhile"
  <2>1. ClosedAt(i, jumps[i].onFalse)
    BY <1>1, <1>6 DEF NoEntry, Table, Means
  <2>2. PICK c : c = jumps[i].onFalse
    OBVIOUS
  <2>3. Blocks!CloseOf(i) = c /\ c \in 1..Len(code) /\ i < c /\ code[c] = "endwhile"
    BY <1>3, <1>6, <2>1, <2>2
  <2> QED BY <1>1, <2>2, <2>3
<1>7. ASSUME code[i] = "break"
      PROVE  \E c : /\ Blocks!CloseOf(Blocks!LoopOf(i)) = c /\ jumps[i].onEnd = c
                    /\ c \in (i + 1)..Len(code) /\ code[c] = "endwhile"
  <2>1. PICK o : o = Blocks!LoopOf(i)
    OBVIOUS
  <2>2. i \in DOMAIN jumps /\ Blocks!LoopsOf(i) # {} /\ code[i] \notin {"endif", "endwhile"}
    BY <1>1, <1>7 DEF NoEntry, Fits
  <2>3. ClosedAt(o, jumps[i].onEnd)
    BY <1>7, <2>1, <2>2 DEF Table, Means
  <2>4. o \in Blocks!Around(i) /\ code[o] = "while"
    BY <1>1, <2>1, <2>2, LoopOfFacts
  <2>5. PICK c \in 1..Len(code) : ClosedAt(o, c) /\ Blocks!CloseOf(o) = c /\ i < c
    BY <2>2, <2>4, ClosedBehind
  <2>6. jumps[i].onEnd = c /\ code[c] = "endwhile"
    BY <1>3, <2>3, <2>4, <2>5
  <2> QED BY <1>1, <2>1, <2>5, <2>6
<1>8. ASSUME code[i] \in {"endwhile", "continue"}
      PROVE  \E o : /\ Blocks!LoopOf(i) = o /\ jumps[i].onEnd = o
                    /\ o \in 1..Len(code) /\ code[o] = "while"
  <2>1. PICK o : o = Blocks!LoopOf(i)
    OBVIOUS
  <2>2. Blocks!LoopsOf(i) # {}
    <3>1. CASE code[i] = "continue"
      BY <1>1, <3>1 DEF Fits
    <3>2. CASE code[i] = "endwhile"
      <4>1. Blocks!Around(i) # {} /\ code[Blocks!OpenOf(i)] = "while"
        BY <1>1, <3>2 DEF Fits
      <4>2. Blocks!OpenOf(i) \in Blocks!Around(i)
        BY <1>1, <4>1, OpenOfFacts
      <4> QED BY <4>1, <4>2 DEF Blocks!LoopsOf
    <3> QED BY <1>8, <3>1, <3>2
  <2>3. o \in Blocks!Around(i) /\ code[o] = "while"
    BY <1>1, <2>1, <2>2, LoopOfFacts
  <2>4. o \in 1..Len(code)
    <3>1. o \in Nat \ {0} /\ o < i
      BY <1>1, <2>3, AroundFacts
    <3> QED BY <1>1, <3>1
  <2>5. jumps[i].onEnd = o
    BY <1>1, <1>8, <2>1 DEF NoEntry, Table, Means
  <2> QED BY <2>1, <2>3, <2>4, <2>5
<1> QED BY <1>4, <1>5, <1>6, <1>7, <1>8

\* Control that goes on from an instruction of these kinds does so further down.
GoesOn == {"elif", "else", "endif", "break"}

LEMMA BeyondIs ==
  ASSUME Parsed, NEW i \in 1..Len(code), code[i] \in GoesOn
  PROVE  Blocks!Beyond(i) \in (i + 1)..(Len(code) + 1)
<1>1. Len(code) \in Nat
  BY DEF Parsed, ReadInv, ParserTypes
<1>2. CASE code[i] \in {"elif", "else"}
  <2>1. Blocks!Beyond(i) = Blocks!CloseOf(Blocks!OpenOf(i))
    BY <1>2 DEF Blocks!Beyond
  <2>2. Blocks!CloseOf(Blocks!OpenOf(i)) \in (i + 1)..Len(code)
    BY <1>2, JumpFacts
  <2> QED BY <1>1, <2>1, <2>2
<1>3. CASE code[i] = "break"
  <2>1. Blocks!Beyond(i) = Blocks!CloseOf(Blocks!LoopOf(i)) + 1
    BY <1>3 DEF Blocks!Beyond
  <2>2. Blocks!CloseOf(Blocks!LoopOf(i)) \in (i + 1)..Len(code)
    BY <1>3, JumpFacts
  <2> QED BY <1>1, <2>1, <2>2
<1>4. CASE code[i] = "endif"
  <2>1. Blocks!Beyond(i) = i + 1
    BY <1>4 DEF Blocks!Beyond
  <2> QED BY <1>1, <2>1
<1> QED BY <1>2, <1>3, <1>4 DEF GoesOn

LEMMA ReachesIs ==
  ASSUME Parsed, NEW i \in 1..(Len(code) + 1)
  PROVE  Blocks!Reaches[i] =
    IF i \in 1..Len(code) /\ code[i] \in GoesOn THEN Blocks!Reaches[Blocks!Beyond(i)]
    ELSE IF i \in 1..Len(code) /\ code[i] \in {"endwhile", "continue"} THEN Blocks!LoopOf(i)
    ELSE i
<1>1. Len(code) \in Nat
  BY DEF Parsed, ReadInv, ParserTypes
<1>2. PICK N : N = Len(code) + 1 /\ N \in Nat
  BY <1>1
<1>3. PICK V : V = {n \in 1..N : n \in 1..Len(code) /\ code[n] \in GoesOn}
  OBVIOUS
<1>4. PICK b : b = [n \in 1..N |-> Blocks!Beyond(n)]
  OBVIOUS
<1>5. PICK s : s = [n \in 1..N |->
                IF n \in 1..Len(code) /\ code[n] \in {"endwhile", "continue"} THEN Blocks!LoopOf(n) ELSE n]
  OBVIOUS
<1>6. V \in SUBSET (1..N) /\ Ahead(b, V, N)
  <2>1. \A n \in V : n \in 1..N /\ n \in 1..Len(code) /\ code[n] \in GoesOn
    BY <1>3
  <2>2. ASSUME NEW n \in V PROVE b[n] \in (n + 1)..N
    <3>1. b[n] = Blocks!Beyond(n)
      BY <1>4, <2>1
    <3>2. Blocks!Beyond(n) \in (n + 1)..(Len(code) + 1)
      BY <2>1, BeyondIs
    <3> QED BY <1>2, <3>1, <3>2
  <2> QED BY <2>1, <2>2 DEF Ahead
<1>7. \E f : Chased(f, b, s, V, N)
  BY <1>2, <1>6, LooksAhead
<1>8. ASSUME NEW f, NEW n \in 1..N
      PROVE  (IF n \in V THEN f[b[n]] ELSE s[n]) =
               IF n \in 1..Len(code) /\ code[n] \in GoesOn THEN f[Blocks!Beyond(n)]
               ELSE IF n \in 1..Len(code) /\ code[n] \in {"endwhile", "continue"} THEN Blocks!LoopOf(n)
               ELSE n
  BY <1>3, <1>4, <1>5
<1>9. \E f : f = [n \in 1..N |->
               IF n \in 1..Len(code) /\ code[n] \in GoesOn THEN f[Blocks!Beyond(n)]
               ELSE IF n \in 1..Len(code) /\ code[n] \in {"endwhile", "continue"} THEN Blocks!LoopOf(n)
               ELSE n]
  <2>1. PICK f : f = [n \in 1..N |-> IF n \in V THEN f[b[n]] ELSE s[n]]
    BY <1>7 DEF Chased
  <2>2. [n \in 1..N |-> IF n \in V THEN f[b[n]] ELSE s[n]] =
          [n \in 1..N |->
               IF n \in 1..Len(code) /\ code[n] \in GoesOn THEN f[Blocks!Beyond(n)]
               ELSE IF n \in 1..Len(code) /\ code[n] \in {"endwhile", "continue"} THEN Blocks!LoopOf(n)
               ELSE n]
    BY <1>8
  <2> QED BY <2>1, <2>2
<1>10. Blocks!Reaches = [n \in 1..N |->
               IF n \in 1..Len(code) /\ code[n] \in GoesOn THEN Blocks!Reaches[Blocks!Beyond(n)]
               ELSE IF n \in 1..Len(code) /\ code[n] \in {"endwhile", "continue"} THEN Blocks!LoopOf(n)
               ELSE n]
  BY <1>2, <1>9 DEF Blocks!Reaches, Blocks!Positions, GoesOn
<1> HIDE DEF GoesOn
<1>11. i \in 1..N
  BY <1>2
<1> QED BY <1>10, <1>11

\* Control settles where it stands, passes on, or is taken back to a loop.
LEMMA SettleFacts ==
  ASSUME Parsed, NEW i \in 1..(Len(code) + 1)
  PROVE  /\ i \in 1..Len(code) /\ code[i] \in {"if", "while", "cmd", "exit"} =>
              \A l \in BOOLEAN : Blocks!Settle(i, l) = i
         /\ i \in 1..Len(code) /\ code[i] = "elif" => Blocks!Settle(i, TRUE) = i
         /\ i = Len(code) + 1 => \A l \in BOOLEAN : Blocks!Settle(i, l) = i
         /\ i \in 1..Len(code) /\ code[i] \in {"elif", "else"} =>
              Blocks!Settle(i, FALSE) = Blocks!Settle(Blocks!CloseOf(Blocks!OpenOf(i)), FALSE)
         /\ i \in 1..Len(code) /\ code[i] = "endif" =>
              \A l \in BOOLEAN : Blocks!Settle(i, l) = Blocks!Settle(i + 1, FALSE)
         /\ i \in 1..Len(code) /\ code[i] \in {"else", "endwhile"} =>
              Blocks!Settle(i, TRUE) = Blocks!Settle(i + 1, FALSE)
         /\ i \in 1..Len(code) /\ code[i] = "endwhile" => Blocks!Settle(i, FALSE) = Blocks!LoopOf(i)
         /\ i \in 1..Len(code) /\ code[i] = "continue" =>
              \A l \in BOOLEAN : Blocks!Settle(i, l) = Blocks!LoopOf(i)
         /\ i \in 1..Len(code) /\ code[i] = "break" =>
              \A l \in BOOLEAN :
                Blocks!Settle(i, l) = Blocks!Settle(Blocks!CloseOf(Blocks!LoopOf(i)) + 1, FALSE)
<1>1. Len(code) \in Nat /\ (i = Len(code) + 1 => i \notin 1..Len(code))
  BY DEF Parsed, ReadInv, ParserTypes
<1>2. \A n : Blocks!Settle(n, FALSE) = Blocks!Reaches[n]
  BY DEF Blocks!Settle
<1>3. /\ i \in 1..Len(code) /\ code[i] = "elif" => Blocks!Settle(i, TRUE) = i
      /\ i \in 1..Len(code) /\ code[i] \in {"else", "endwhile"} => Blocks!Settle(i, TRUE) = Blocks!Reaches[i + 1]
      /\ ~(i \in 1..Len(code) /\ code[i] \in {"elif", "else", "endwhile"}) =>
           \A l \in BOOLEAN : Blocks!Settle(i, l) = Blocks!Reaches[i]
  BY DEF Blocks!Settle, Blocks!Positions
<1>4. Blocks!Reaches[i] =
    IF i \in 1..Len(code) /\ code[i] \in GoesOn THEN Blocks!Reaches[Blocks!Beyond(i)]
    ELSE IF i \in 1..Len(code) /\ code[i] \in {"endwhile", "continue"} THEN Blocks!LoopOf(i)
    ELSE i
  BY ReachesIs
<1>5. /\ code[i] \in {"elif", "else"} => Blocks!Beyond(i) = Blocks!CloseOf(Blocks!OpenOf(i))
      /\ code[i] = "break" => Blocks!Beyond(i) = Blocks!CloseOf(Blocks!LoopOf(i)) + 1
      /\ code[i] = "endif" => Blocks!Beyond(i) = i + 1
  BY DEF Blocks!Beyond
<1> QED BY <1>1, <1>2, <1>3, <1>4, <1>5 DEF GoesOn

-----------------------------------------------------------------------------
(* Every step is a step of the blocks, or none. *)

\* The next instruction with an effect, as Structured reads it.
At == IF phase \in {"reading", "syntax"} THEN 0 ELSE Reached!Settle(pc, justJumped)

LEMMA SameSettle ==
  \A i, l : Reached!Settle(i, l) = Blocks!Settle(i, l)
<1>1. \A S : Reached!Least(S) = Blocks!Least(S) /\ Reached!Greatest(S) = Blocks!Greatest(S)
  BY DEF Reached!Least, Blocks!Least, Reached!Greatest, Blocks!Greatest
<1>2. Reached!Opens = Blocks!Opens /\ Reached!Closes = Blocks!Closes /\ Reached!Positions = Blocks!Positions
  BY DEF Reached!Opens, Blocks!Opens, Reached!Closes, Blocks!Closes, Reached!Positions, Blocks!Positions
<1>3. Reached!Reaches = Blocks!Reaches
  BY Zenon DEF Blocks!Reaches, Blocks!Beyond, Blocks!LoopOf, Blocks!LoopsOf, Blocks!CloseOf,
     Blocks!OpenOf, Blocks!Greatest, Blocks!Least, Blocks!Around, Blocks!Level, Blocks!Positions,
     Blocks!Opens, Blocks!Closes, Blocks!Cardinality,
     Reached!Reaches, Reached!Beyond, Reached!LoopOf, Reached!LoopsOf, Reached!CloseOf,
     Reached!OpenOf, Reached!Greatest, Reached!Least, Reached!Around, Reached!Level, Reached!Positions,
     Reached!Opens, Reached!Closes, Reached!Cardinality
<1> QED BY <1>2, <1>3 DEF Reached!Settle, Blocks!Settle

LEMMA SettleStays ==
  ASSUME code' = code, NEW n, NEW l, n = pc', l = justJumped'
  PROVE  Reached!Settle(pc, justJumped)' = Blocks!Settle(n, l)
<1>1. Reached!Reaches' = Reached!Reaches
  BY SMT DEF Reached!Reaches, Reached!Beyond, Reached!LoopOf, Reached!LoopsOf, Reached!CloseOf,
     Reached!OpenOf, Reached!Greatest, Reached!Least, Reached!Around, Reached!Level, Reached!Positions,
     Reached!Opens, Reached!Closes
<1>2. Reached!Settle(pc, justJumped)' = Reached!Settle(n, l)
  BY <1>1 DEF Reached!Settle, Reached!Positions
<1> QED BY <1>2, SameSettle

\* Where the next iteration settles tells what the blocks see of this one.
LEMMA RunsOn ==
  ASSUME FlowBlocks, phase = "running", phase' = "running", code' = code, NEW n, NEW l, n = pc', l = justJumped'
  PROVE  At = Blocks!Settle(pc, justJumped) /\ At' = Blocks!Settle(n, l)
BY SettleStays, SameSettle DEF At

LEMMA PlainStep ==
  ASSUME FlowBlocks, Executes("if") \/ Executes("while") \/ Executes("cmd") \/ Executes("exit") \/ (Executes("elif") /\ justJumped)
  PROVE  At = pc /\ phase = "running" /\ pc \in 1..Len(code)
<1>1. phase = "running" /\ pc <= Len(code)
  BY DEF Executes
<1>2. Parsed /\ pc \in 1..(Len(code) + 1) /\ justJumped \in BOOLEAN
  BY <1>1 DEF FlowBlocks, FlowInv, Parsed, ReadInv
<1>3. pc \in 1..Len(code)
  BY <1>1, <1>2 DEF Parsed, ReadInv, ParserTypes
<1>4. At = Blocks!Settle(pc, justJumped)
  BY <1>1, SameSettle DEF At
<1>5. Blocks!Settle(pc, justJumped) = pc
  BY <1>2, <1>3, SettleFacts DEF Executes
<1> QED BY <1>1, <1>3, <1>4, <1>5

\* Control that passes an instruction has not moved, as the blocks see it.
LEMMA StutterSteps ==
  ASSUME FlowBlocks, PassOver \/ WalkOn \/ Leap, UNCHANGED parserVars
  PROVE  phase' = phase /\ code' = code /\ At' = At
<1>1. PICK p, n, l, m : p = pc /\ n = pc' /\ l = justJumped /\ m = justJumped'
  OBVIOUS
<1>2. /\ phase = "running" /\ phase' = "running" /\ code' = code /\ jumps' = jumps
      /\ p <= Len(code)
  BY <1>1 DEF PassOver, WalkOn, Leap, Executes, GoTo, parserVars
<1>3. Parsed /\ p \in 1..Len(code) /\ p \in 1..(Len(code) + 1) /\ l \in BOOLEAN /\ Len(code) \in Nat
  BY <1>1, <1>2 DEF FlowBlocks, FlowInv, Parsed, ReadInv, ParserTypes
<1>4. At = Blocks!Settle(p, l) /\ At' = Blocks!Settle(n, m)
  BY <1>1, <1>2, RunsOn
<1>5. CASE PassOver
  <2>1. /\ code[p] \in {"elif", "else", "endwhile"} /\ l = FALSE /\ m = FALSE /\ n = jumps[p].onEnd
    BY <1>1, <1>3, <1>5 DEF PassOver, Passed, Executes, GoTo
  <2>2. CASE code[p] \in {"elif", "else"}
    <3>1. Blocks!Settle(p, FALSE) = Blocks!Settle(Blocks!CloseOf(Blocks!OpenOf(p)), FALSE)
      BY <1>3, <2>2, SettleFacts
    <3>2. jumps[p].onEnd = Blocks!CloseOf(Blocks!OpenOf(p))
      BY <1>3, <2>2, JumpFacts
    <3> QED BY <1>2, <1>4, <2>1, <3>1, <3>2
  <2>3. CASE code[p] = "endwhile"
    <3>1. Blocks!Settle(p, FALSE) = Blocks!LoopOf(p)
      BY <1>3, <2>3, SettleFacts
    <3>2. n = Blocks!LoopOf(p) /\ n \in 1..Len(code) /\ code[n] = "while"
      BY <1>3, <2>1, <2>3, JumpFacts
    <3>3. n \in 1..(Len(code) + 1)
      BY <1>3, <3>2
    <3>4. Blocks!Settle(n, m) = n
      BY <1>3, <2>1, <3>2, <3>3, SettleFacts
    <3> QED BY <1>2, <1>4, <2>1, <3>1, <3>2, <3>4
  <2> QED BY <2>1, <2>2, <2>3
<1>6. CASE WalkOn
  <2>1. /\ m = FALSE /\ n = p + 1
        /\ code[p] = "endif" \/ (code[p] \in {"else", "endwhile"} /\ l = TRUE)
    BY <1>1, <1>3, <1>6 DEF WalkOn, Passed, Executes, GoTo
  <2>2. Blocks!Settle(p, l) = Blocks!Settle(p + 1, FALSE)
    BY <1>3, <2>1, SettleFacts
  <2> QED BY <1>2, <1>4, <2>1, <2>2
<1>7. CASE Leap
  <2>1. /\ code[p] \in {"break", "continue"} /\ m = TRUE /\ n = jumps[p].onEnd
    BY <1>1, <1>7 DEF Leap, Executes, GoTo
  <2>2. CASE code[p] = "break"
    <3>1. Blocks!Settle(p, l) = Blocks!Settle(Blocks!CloseOf(Blocks!LoopOf(p)) + 1, FALSE)
      BY <1>3, <2>2, SettleFacts
    <3>2. n = Blocks!CloseOf(Blocks!LoopOf(p)) /\ n \in (p + 1)..Len(code) /\ code[n] = "endwhile"
      BY <1>3, <2>1, <2>2, JumpFacts
    <3>3. n \in 1..Len(code) /\ n \in 1..(Len(code) + 1)
      BY <1>3, <3>2
    <3>4. Blocks!Settle(n, m) = Blocks!Settle(n + 1, FALSE)
      BY <1>3, <2>1, <3>2, <3>3, SettleFacts
    <3> QED BY <1>2, <1>4, <3>1, <3>2, <3>4
  <2>3. CASE code[p] = "continue"
    <3>1. Blocks!Settle(p, l) = Blocks!LoopOf(p)
      BY <1>3, <2>3, SettleFacts
    <3>2. n = Blocks!LoopOf(p) /\ n \in 1..Len(code) /\ code[n] = "while"
      BY <1>3, <2>1, <2>3, JumpFacts
    <3>3. n \in 1..(Len(code) + 1)
      BY <1>3, <3>2
    <3>4. Blocks!Settle(n, m) = n
      BY <1>3, <2>1, <3>2, <3>3, SettleFacts
    <3> QED BY <1>2, <1>4, <3>1, <3>2, <3>4
  <2> QED BY <2>1, <2>2, <2>3
<1> QED BY <1>2, <1>5, <1>6, <1>7

\* A condition goes on behind it, or where the blocks say when it fails.
LEMMA ConditionSteps ==
  ASSUME FlowBlocks, Condition, UNCHANGED parserVars
  PROVE  Blocks!Run \/ Blocks!Stop
<1>1. PICK p, n, m : p = pc /\ n = pc' /\ m = justJumped'
  OBVIOUS
<1>2. /\ phase = "running" /\ code' = code /\ code[p] \in {"if", "elif", "while"}
      /\ \/ n = p + 1 /\ m = FALSE /\ phase' = "running"
         \/ n = jumps[p].onFalse /\ m = TRUE /\ phase' = "running"
         \/ phase' = "failed" /\ UNCHANGED <<pc, justJumped>>
  BY <1>1 DEF Condition, Executes, GoTo, Return, parserVars
<1>3. At = p /\ p \in 1..Len(code)
  <2>1. Executes("if") \/ Executes("while") \/ (Executes("elif") /\ justJumped)
    <3>1. justJumped \in BOOLEAN
      BY DEF FlowBlocks, FlowInv
    <3> QED BY <3>1 DEF Condition, Executes, Passed
  <2> QED BY <1>1, <2>1, PlainStep
<1>4. Parsed /\ Len(code) \in Nat /\ p <= Len(code)
  BY <1>2, <1>3 DEF FlowBlocks, FlowInv, Parsed, ReadInv, ParserTypes
<1>5. phase' = "running" => At' = Blocks!Settle(n, m)
  BY <1>1, <1>2, RunsOn
<1>6. ASSUME n = jumps[p].onFalse, m = TRUE, phase' = "running"
      PROVE  At' = IF code[p] = "while" THEN Blocks!Settle(Blocks!CloseOf(p) + 1, FALSE)
                   ELSE Blocks!Settle(Blocks!NextClause(p), TRUE)
  <2>1. ASSUME code[p] = "while" PROVE Blocks!Settle(n, m) = Blocks!Settle(Blocks!CloseOf(p) + 1, FALSE)
    <3>1. n = Blocks!CloseOf(p) /\ n \in (p + 1)..Len(code) /\ code[n] = "endwhile"
      BY <1>3, <1>4, <1>6, <2>1, JumpFacts
    <3>2. n \in 1..Len(code) /\ n \in 1..(Len(code) + 1)
      BY <1>3, <1>4, <3>1
    <3>3. Blocks!Settle(n, TRUE) = Blocks!Settle(n + 1, FALSE)
      BY <1>4, <3>1, <3>2, SettleFacts
    <3> QED BY <1>6, <3>1, <3>3
  <2>2. ASSUME code[p] # "while" PROVE n = Blocks!NextClause(p)
    BY <1>2, <1>3, <1>4, <1>6, <2>2, JumpFacts
  <2> QED BY <1>5, <1>6, <2>1, <2>2
<1>7. ASSUME phase' = "running" PROVE Blocks!Run
  <2>1. \/ At' = Blocks!Settle(p + 1, FALSE)
        \/ At' = IF code[p] = "while" THEN Blocks!Settle(Blocks!CloseOf(p) + 1, FALSE)
                 ELSE Blocks!Settle(Blocks!NextClause(p), TRUE)
    BY <1>2, <1>5, <1>6, <1>7
  <2> QED BY <1>2, <1>3, <1>4, <1>7, <2>1 DEF At, Blocks!Run, Blocks!Condition
<1>8. ASSUME phase' = "failed", UNCHANGED <<pc, justJumped>> PROVE Blocks!Stop
  <2>1. At' = At
    BY <1>1, <1>2, <1>8, SettleStays, SameSettle DEF At
  <2>2. code[p] # "exit"
    BY <1>2
  <2> QED BY <1>2, <1>3, <1>4, <1>8, <2>1, <2>2 DEF At, Blocks!Stop
<1> QED BY <1>2, <1>7, <1>8

\* The same for a command, and the ways a script ends.
LEMMA StopSteps ==
  ASSUME FlowBlocks, phase = "running", UNCHANGED <<parserVars, pc, justJumped>>,
         phase' \in {"ok", "falsy", "failed", "cancelled"},
         phase' = "ok" => At > Len(code) \/ code[At] = "exit",
         phase' = "falsy" => At <= Len(code) /\ code[At] = "cmd",
         phase' = "failed" => At <= Len(code) /\ code[At] # "exit"
  PROVE  Blocks!Stop
<1>1. code' = code
  BY DEF parserVars
<1>2. At' = At
  BY <1>1, SettleStays, SameSettle DEF At
<1> QED BY <1>1, <1>2 DEF At, Blocks!Stop

LEMMA CommandSteps ==
  ASSUME FlowBlocks, Command, UNCHANGED parserVars
  PROVE  Blocks!Run \/ Blocks!Stop
<1>1. PICK p, n, m : p = pc /\ n = pc' /\ m = justJumped'
  OBVIOUS
<1>2. /\ phase = "running" /\ code' = code /\ code[p] = "cmd"
      /\ \/ n = p + 1 /\ m = FALSE /\ phase' = "running"
         \/ phase' \in {"falsy", "failed"} /\ UNCHANGED <<pc, justJumped>>
  BY <1>1 DEF Command, Executes, GoTo, Return, parserVars
<1>3. At = p /\ p \in 1..Len(code)
  BY <1>1, PlainStep DEF Command
<1>4. Len(code) \in Nat /\ p <= Len(code)
  BY <1>3 DEF FlowBlocks, FlowInv, ParserTypes
<1>5. ASSUME n = p + 1, m = FALSE, phase' = "running" PROVE Blocks!Run
  <2>1. At' = Blocks!Settle(p + 1, FALSE)
    BY <1>1, <1>2, <1>5, RunsOn
  <2> QED BY <1>2, <1>3, <1>4, <1>5, <2>1 DEF At, Blocks!Run, Blocks!Command
<1>6. ASSUME phase' \in {"falsy", "failed"}, UNCHANGED <<pc, justJumped>> PROVE Blocks!Stop
  <2>1. /\ phase' \in {"ok", "falsy", "failed", "cancelled"} /\ phase' # "ok"
        /\ At <= Len(code) /\ code[At] = "cmd" /\ code[At] # "exit"
    BY <1>2, <1>3, <1>4, <1>6
  <2> QED BY <1>2, <1>6, <2>1, StopSteps
<1> QED BY <1>2, <1>5, <1>6

LEMMA EndSteps ==
  ASSUME FlowBlocks, Exit \/ Finish \/ Abort, UNCHANGED parserVars
  PROVE  Blocks!Stop
<1>1. phase = "running" /\ UNCHANGED <<pc, justJumped>> /\ phase' \in {"ok", "cancelled"}
  BY DEF Exit, Finish, Abort, Executes, Return
<1>2. CASE Exit
  <2>1. phase' = "ok" /\ code[pc] = "exit"
    BY <1>2 DEF Exit, Executes, Return
  <2>2. At = pc
    BY <1>2, PlainStep DEF Exit
  <2> QED BY <1>1, <2>1, <2>2, StopSteps
<1>3. CASE Finish
  <2>1. Parsed /\ pc \in 1..(Len(code) + 1) /\ justJumped \in BOOLEAN
    BY <1>1 DEF FlowBlocks, FlowInv, Parsed, ReadInv
  <2>2. pc = Len(code) + 1 /\ Len(code) \in Nat
    BY <1>3, <2>1 DEF Finish, Parsed, ReadInv, ParserTypes
  <2>3. At = pc
    BY <1>1, <2>1, <2>2, SettleFacts, SameSettle DEF At
  <2>4. At > Len(code) /\ phase' = "ok"
    BY <1>3, <2>2, <2>3 DEF Finish, Return
  <2> QED BY <1>1, <2>4, StopSteps
<1>4. CASE Abort
  <2>1. phase' = "cancelled"
    BY <1>4 DEF Abort, Return
  <2> QED BY <1>1, <2>1, StopSteps
<1> QED BY <1>2, <1>3, <1>4

\* A line is refused where it is out of place, whatever comes after it.
LEMMA ReadSteps ==
  ASSUME FlowBlocks, NEW k \in Kinds, ReadLine(k)
  PROVE  Blocks!Read
<1>1. /\ ReadInv /\ BlockInv /\ code' = Append(code, k) /\ phase = "reading"
      /\ IF Misplaced(k) THEN phase' = "syntax" ELSE phase' = "reading"
  BY ReadFlowBlocks
<1>2. PICK h : h = Here
  OBVIOUS
<1>3. /\ h \in Nat \ {0} /\ h \in 1..h /\ Len(code) = h - 1 /\ Len(code') = h
  BY <1>1, <1>2, BlocksGrow DEF ReadInv
<1>4. Fits(h)' <=> ~Misplaced(k)
  BY <1>1, <1>2, MisplacedFits DEF ReadInv, BlockInv
<1>5. \A i \in 1..(h - 1) : Fits(i)'
  BY <1>1, <1>2, <1>3, FitsGrows DEF ReadInv, BlockInv, AllFit
<1>6. (\A i \in 1..h : Fits(i)') <=> ~Misplaced(k)
  <2>1. \A i \in 1..h : i \in 1..(h - 1) \/ i = h
    BY <1>3
  <2>2. ASSUME ~Misplaced(k), NEW i \in 1..h PROVE Fits(i)'
    <3>1. CASE i = h
      <4>1. PICK j : j = i /\ Fits(j)'
        BY <1>4, <2>2, <3>1
      <4> QED BY <4>1
    <3> QED BY <1>5, <2>1, <3>1
  <2>3. ASSUME \A i \in 1..h : Fits(i)' PROVE ~Misplaced(k)
    <3>1. Fits(h)'
      BY <1>3, <2>3
    <3> QED BY <1>4, <3>1
  <2> QED BY <2>2, <2>3
<1>7. Blocks!Completable' <=> \A i \in 1..h : Fits(i)'
  BY <1>3, FitsSound DEF Blocks!Completable, Blocks!Positions
<1>8. phase' = IF Blocks!Completable' THEN "reading" ELSE "syntax"
  BY <1>1, <1>6, <1>7
<1>9. At = 0 /\ At' = 0
  BY <1>1 DEF At
<1> QED BY <1>1, <1>8, <1>9 DEF At, Blocks!Read

LEMMA LoadSteps ==
  ASSUME FlowBlocks, EndOfScript
  PROVE  Blocks!Load
<1>1. /\ phase = "reading" /\ phase' = IF stack = <<>> THEN "running" ELSE "syntax"
      /\ UNCHANGED <<code, pc, justJumped>> /\ pc = 1 /\ justJumped = FALSE
      /\ ReadInv /\ BlockInv
  BY DEF EndOfScript, parserVars, FlowBlocks, FlowInv, ReadInv
<1>2. Blocks!WellFormed <=> stack = <<>>
  BY <1>1, CompleteIs
<1>3. Reached!Settle(pc, justJumped)' = Blocks!Settle(1, FALSE)
  BY <1>1, SettleStays
<1>4. At = 0 /\ IF Blocks!WellFormed THEN At' = Blocks!Settle(1, FALSE) ELSE At' = 0
  BY <1>1, <1>2, <1>3 DEF At
<1> QED BY <1>1, <1>2, <1>4 DEF At, Blocks!Load

LEMMA StepsAreBlockSteps ==
  FlowBlocks /\ [Next]_vars => Blocks!Next \/ UNCHANGED <<phase, code, At>>
<1> SUFFICES ASSUME FlowBlocks, [Next]_vars PROVE Blocks!Next \/ UNCHANGED <<phase, code, At>>
  OBVIOUS
<1>1. ASSUME NEW k \in Kinds, ReadLine(k) PROVE Blocks!Next
  BY <1>1, ReadSteps DEF Blocks!Next
<1>2. CASE EndOfScript
  BY <1>2, LoadSteps DEF Blocks!Next
<1>3. CASE Evaluate
  <2>1. UNCHANGED parserVars
    BY <1>3 DEF Evaluate
  <2>2. CASE PassOver \/ WalkOn \/ Leap
    BY <2>1, <2>2, StutterSteps
  <2>3. CASE Condition
    BY <2>1, <2>3, ConditionSteps DEF Blocks!Next
  <2>4. CASE Command
    BY <2>1, <2>4, CommandSteps DEF Blocks!Next
  <2>5. CASE Exit \/ Finish \/ Abort
    BY <2>1, <2>5, EndSteps DEF Blocks!Next
  <2> QED BY <1>3, <2>2, <2>3, <2>4, <2>5 DEF Evaluate
<1>4. ASSUME UNCHANGED <<phase, code, pc, justJumped>> PROVE UNCHANGED <<phase, code, At>>
  BY <1>4, SettleStays, SameSettle DEF At
<1>5. CASE Cancel
  BY <1>4, <1>5 DEF Cancel, parserVars
<1>6. CASE UNCHANGED vars
  BY <1>4, <1>6 DEF vars, parserVars
<1> QED BY <1>1, <1>2, <1>3, <1>5, <1>6 DEF Next, Returned

\* parseJumpTable and EvalBatch do what the help text of pkg/executor promises
\* of nested blocks: the scripts that compile are those whose blocks close, and
\* whatever is jumped over, broken or continued, each condition and command
\* that runs is the one whose turn it is.  BlockFlow has no jump table: it
\* finds blocks by counting.
THEOREM ImplementsBlocks == Spec => Structured
<1>1. Init => Blocks!Init
  BY DEF Init, Blocks!Init
<1>2. FlowBlocks /\ [Next]_vars => [Blocks!Next]_<<phase, code, At>>
  BY StepsAreBlockSteps
<1> QED BY <1>1, <1>2, InitFlowBlocks, NextFlowBlocks, PTL DEF Spec, Structured, Blocks!Spec, At
=============================================================================
