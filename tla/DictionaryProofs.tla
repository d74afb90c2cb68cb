--------------------------- MODULE DictionaryProofs ---------------------------
(***************************************************************************)
(* Proofs about Dictionary, for any dictionary that is well formed and any *)
(* message: strict validation accepts the language of the specification    *)
(* and nothing else, basic validation accepts it, and templates are in it. *)
(***************************************************************************)
EXTENDS Dictionary, SequenceTheorems, WellFoundedInduction, TLAPS

\* A non-empty set of naturals has a least element.
LEMMA LeastElement ==
  ASSUME NEW S \in SUBSET Nat, S # {}
  PROVE  \E x \in S : \A y \in S : x <= y
<1> DEFINE R == OpToRel(<, Nat)
<1>1. IsWellFoundedOn(R, Nat)
  BY NatLessThanWellFounded
<1>2. \A x, y \in Nat : y < x => <<y, x>> \in R
  BY DEF OpToRel
<1> HIDE DEF R
<1>3. PICK x \in S : \A y \in S : ~(<<y, x>> \in R)
  BY <1>1, WFMin
<1>4. \A y \in S : ~(y < x)
  BY <1>2, <1>3
<1> QED BY <1>4

\* What holds of 0, and of each number up to n after one it holds of, holds of
\* all of them.
LEMMA CountingUp ==
  ASSUME NEW n \in Nat, NEW S, 0 \in S, \A i \in 1..n : i - 1 \in S => i \in S
  PROVE  \A i \in 0..n : i \in S
<1> DEFINE T == {i \in 0..n : i \notin S}
<1> SUFFICES ASSUME T # {} PROVE FALSE
  OBVIOUS
<1>1. PICK t \in T : \A i \in T : t <= i
  <2>1. T \in SUBSET Nat
    OBVIOUS
  <2> HIDE DEF T
  <2> QED BY <2>1, LeastElement
<1>2. t # 0 /\ t \in 1..n /\ t - 1 \notin T
  BY <1>1
<1>3. t - 1 \in S
  BY <1>2
<1> QED BY <1>1, <1>2, <1>3

\* What holds of a number if it holds of the smaller ones holds of all.
LEMMA FromSmaller ==
  ASSUME NEW S, \A n \in Nat : (\A k \in Nat : k < n => k \in S) => n \in S
  PROVE  \A n \in Nat : n \in S
<1> DEFINE T == {i \in Nat : i \notin S}
<1> SUFFICES ASSUME T # {} PROVE FALSE
  OBVIOUS
<1>1. PICK t \in T : \A i \in T : t <= i
  <2>1. T \in SUBSET Nat
    OBVIOUS
  <2> HIDE DEF T
  <2> QED BY <2>1, LeastElement
<1>2. \A k \in Nat : k < t => k \notin T
  BY <1>1
<1>3. \A k \in Nat : k < t => k \in S
  BY <1>2
<1> QED BY <1>1, <1>3

-----------------------------------------------------------------------------
(* Recursion, once for all.  A loop has a value after each turn, and a       *)
(* function whose rule looks only at arguments of a lower rank exists and is *)
(* the only one.                                                             *)

LoopOf(f, n, a, turn) == f = [i \in 0..n |-> IF i = 0 THEN a ELSE turn[<<i, f[i - 1]>>]]

LEMMA Loops ==
  ASSUME NEW n \in Nat, NEW V, NEW a \in V, NEW turn \in [(1..n) \X V -> V]
  PROVE  \E f : LoopOf(f, n, a, turn) /\ f \in [0..n -> V]
<1> DEFINE Upto(k, f) == /\ f \in [0..k -> V] /\ f[0] = a
                         /\ \A i \in 1..k : f[i] = turn[<<i, f[i - 1]>>]
           S == {k \in 0..n : \E f : Upto(k, f)}
<1>1. 0 \in S
  <2> DEFINE f == [i \in 0..0 |-> a]
  <2>1. Upto(0, f)
    OBVIOUS
  <2> HIDE DEF f
  <2> QED BY <2>1
<1>2. ASSUME NEW k \in 1..n, k - 1 \in S PROVE k \in S
  <2>1. PICK f : Upto(k - 1, f)
    BY <1>2
  <2> DEFINE g == [i \in 0..k |-> IF i = k THEN turn[<<k, f[k - 1]>>] ELSE f[i]]
  <2>2. f[k - 1] \in V
    BY <2>1
  <2>3. \A i \in 0..k - 1 : g[i] = f[i] /\ f[i] \in V
    BY <2>1
  <2>4. g[k] = turn[<<k, f[k - 1]>>] /\ g[k] \in V
    BY <2>2
  <2>5. g \in [0..k -> V]
    <3>1. ASSUME NEW i \in 0..k PROVE g[i] \in V
      <4>1. i = k \/ i \in 0..k - 1
        OBVIOUS
      <4>2. i \in 0..k - 1 => g[i] \in V
        BY <2>3
      <4> HIDE DEF g
      <4> QED BY <2>4, <4>1, <4>2
    <3>2. g = [i \in 0..k |-> g[i]]
      OBVIOUS
    <3> HIDE DEF g
    <3> QED BY <3>1, <3>2
  <2>6. Upto(k, g)
    <3> HIDE DEF g
    <3>1. g[0] = a
      BY <2>1, <2>3
    <3>2. \A i \in 1..k : g[i] = turn[<<i, g[i - 1]>>]
      BY <2>1, <2>3, <2>4
    <3> QED BY <2>5, <3>1, <3>2
  <2> HIDE DEF Upto, g
  <2> QED BY <2>6
<1>3. n \in S
  <2> HIDE DEF S
  <2>1. \A i \in 0..n : i \in S
    BY <1>1, <1>2, CountingUp
  <2> QED BY <2>1
<1>4. PICK f : Upto(n, f)
  BY <1>3
<1>5. f = [i \in 0..n |-> IF i = 0 THEN a ELSE turn[<<i, f[i - 1]>>]]
  <2>1. f = [i \in 0..n |-> f[i]]
    BY <1>4
  <2>2. \A i \in 0..n : f[i] = IF i = 0 THEN a ELSE turn[<<i, f[i - 1]>>]
    BY <1>4
  <2> QED BY <2>1, <2>2
<1> QED BY <1>4, <1>5 DEF LoopOf

\* The functions on D whose values are good.
Within(good, D) == {f \in [D -> UNION {good[c] : c \in D}] : \A c \in D : f[c] \in good[c]}

\* f and g are the same below a rank.
SameBelow(f, g, D, rank, n) == \A c \in D : rank[c] < n => f[c] = g[c]

\* A rule gives good values, looks at lower ranks only, and is what f keeps.
RuleIsGood(rule, good, D) == \A f \in Within(good, D) : \A c \in D : rule[<<f, c>>] \in good[c]
RuleIsLocal(rule, good, D, rank) ==
  \A f, g \in Within(good, D) : \A c \in D :
    SameBelow(f, g, D, rank, rank[c]) => rule[<<f, c>>] = rule[<<g, c>>]
Keeps(f, rule, D) == \A c \in D : f[c] = rule[<<f, c>>]

LEMMA Recursions ==
  ASSUME NEW D, NEW rank \in [D -> Nat], NEW top \in Nat, \A c \in D : rank[c] <= top,
         NEW good, \A c \in D : good[c] # {},
         NEW rule, RuleIsGood(rule, good, D), RuleIsLocal(rule, good, D, rank)
  PROVE  \E f \in Within(good, D) : Keeps(f, rule, D)
<1> DEFINE Upto(n, f) == f \in Within(good, D) /\ \A c \in D : rank[c] < n => f[c] = rule[<<f, c>>]
           S == {n \in 0..top + 1 : \E f : Upto(n, f)}
<1>1. 0 \in S
  <2> DEFINE f == [c \in D |-> CHOOSE x \in good[c] : TRUE]
  <2>1. \A c \in D : f[c] \in good[c]
    OBVIOUS
  <2>2. f \in Within(good, D)
    BY <2>1 DEF Within
  <2>3. \A c \in D : ~(rank[c] < 0)
    OBVIOUS
  <2> HIDE DEF f
  <2>4. Upto(0, f)
    BY <2>2, <2>3
  <2> HIDE DEF Upto
  <2> QED BY <2>4
<1>2. ASSUME NEW n \in 1..top + 1, n - 1 \in S PROVE n \in S
  <2>1. PICK f : Upto(n - 1, f)
    BY <1>2
  <2> DEFINE g == [c \in D |-> IF rank[c] = n - 1 THEN rule[<<f, c>>] ELSE f[c]]
  <2>2. f \in Within(good, D) /\ (\A c \in D : f[c] \in good[c])
    BY <2>1 DEF Within
  <2>3. \A c \in D : g[c] \in good[c]
    BY <2>2 DEF RuleIsGood
  <2>4. g \in Within(good, D)
    BY <2>3 DEF Within
  <2>5. SameBelow(f, g, D, rank, n - 1)
    BY DEF SameBelow
  <2>6. ASSUME NEW c \in D, rank[c] < n PROVE g[c] = rule[<<g, c>>]
    <3>1. SameBelow(f, g, D, rank, rank[c])
      <4>1. \A d \in D : rank[d] < rank[c] => rank[d] < n - 1
        BY <2>6
      <4> HIDE DEF g
      <4> QED BY <2>5, <4>1 DEF SameBelow
    <3>2. rule[<<f, c>>] = rule[<<g, c>>]
      <4> HIDE DEF g
      <4> QED BY <2>2, <2>4, <3>1 DEF RuleIsLocal
    <3>3. g[c] = rule[<<f, c>>]
      <4>1. rank[c] = n - 1 \/ rank[c] < n - 1
        BY <2>6
      <4> QED BY <2>1, <4>1
    <3> HIDE DEF g
    <3> QED BY <3>2, <3>3
  <2> HIDE DEF g
  <2>7. Upto(n, g)
    BY <2>4, <2>6
  <2> HIDE DEF Upto
  <2> QED BY <2>7
<1>3. top + 1 \in S
  <2> HIDE DEF S
  <2>1. \A n \in 0..top + 1 : n \in S
    BY <1>1, <1>2, CountingUp
  <2> QED BY <2>1
<1>4. PICK f : Upto(top + 1, f)
  BY <1>3
<1>5. \A c \in D : rank[c] < top + 1
  OBVIOUS
<1> QED BY <1>4, <1>5 DEF Keeps

\* Two functions are the same if they are the same wherever they are below.
LEMMA Unique ==
  ASSUME NEW D, NEW rank \in [D -> Nat], NEW f, NEW g,
         \A c \in D : SameBelow(f, g, D, rank, rank[c]) => f[c] = g[c]
  PROVE  \A c \in D : f[c] = g[c]
<1> DEFINE S == {n \in Nat : \A c \in D : rank[c] = n => f[c] = g[c]}
<1>1. ASSUME NEW n \in Nat, \A k \in Nat : k < n => k \in S PROVE n \in S
  <2>1. ASSUME NEW c \in D, rank[c] = n PROVE f[c] = g[c]
    <3>1. SameBelow(f, g, D, rank, n)
      BY <1>1 DEF SameBelow
    <3> QED BY <2>1, <3>1
  <2> QED BY <2>1
<1>2. \A n \in Nat : n \in S
  <2> HIDE DEF S
  <2> QED BY <1>1, FromSmaller
<1> QED BY <1>2

-----------------------------------------------------------------------------
(* Entries: what nests in an entry is an entry, and less deep. *)

EntriesOver(S) == [tag : Nat, required : BOOLEAN, isGroup : BOOLEAN, entries : Seq(S)]

LEMMA LevelsAre ==
  /\ EntriesUpTo[0] = {}
  /\ \A d \in 1..MaxDepth : EntriesUpTo[d] = EntriesOver(EntriesUpTo[d - 1])
<1> DEFINE Upto(n, f) == f = [d \in 0..n |-> IF d = 0 THEN {} ELSE EntriesOver(f[d - 1])]
           S == {n \in 0..MaxDepth : \E f : Upto(n, f)}
<1>0. MaxDepth \in Nat
  BY BoundsAssumption
<1>1. 0 \in S
  <2> DEFINE f == [d \in 0..0 |-> {}]
  <2>1. Upto(0, f)
    OBVIOUS
  <2> HIDE DEF f, Upto
  <2> QED BY <1>0, <2>1
<1>2. ASSUME NEW n \in 1..MaxDepth, n - 1 \in S PROVE n \in S
  <2>1. PICK f : Upto(n - 1, f)
    BY <1>2
  <2> DEFINE g == [d \in 0..n |-> IF d = n THEN EntriesOver(f[n - 1]) ELSE f[d]]
  <2>2. \A d \in 0..n - 1 : g[d] = f[d]
    BY <1>0
  <2>3. g[n] = EntriesOver(g[n - 1])
    BY <1>0, <2>2
  <2>4. ASSUME NEW d \in 0..n PROVE g[d] = IF d = 0 THEN {} ELSE EntriesOver(g[d - 1])
    <3>1. CASE d = n
      BY <1>0, <2>3, <3>1
    <3>2. CASE d # n
      <4>1. d \in 0..n - 1 /\ (d # 0 => d - 1 \in 0..n - 1)
        BY <1>0, <3>2
      <4>2. f[d] = IF d = 0 THEN {} ELSE EntriesOver(f[d - 1])
        BY <2>1, <4>1
      <4> HIDE DEF g
      <4> QED BY <2>2, <4>1, <4>2
    <3> QED BY <3>1, <3>2
  <2>5. g = [d \in 0..n |-> g[d]]
    OBVIOUS
  <2> HIDE DEF g
  <2>6. Upto(n, g)
    BY <2>4, <2>5
  <2> HIDE DEF Upto
  <2> QED BY <1>0, <2>6
<1>3. PICK f : Upto(MaxDepth, f)
  <2> HIDE DEF S
  <2>1. \A n \in 0..MaxDepth : n \in S
    BY <1>0, <1>1, <1>2, CountingUp
  <2>2. MaxDepth \in S
    BY <1>0, <2>1
  <2> USE DEF S
  <2> QED BY <2>2
<1>4. Upto(MaxDepth, EntriesUpTo)
  BY <1>3 DEF EntriesUpTo, EntriesOver
<1>5. /\ EntriesUpTo[0] = {}
      /\ \A d \in 1..MaxDepth : d \in 0..MaxDepth /\ d # 0 /\ EntriesUpTo[d] = EntriesOver(EntriesUpTo[d - 1])
  <2>1. \A d \in 0..MaxDepth :
          EntriesUpTo[d] = IF d = 0 THEN {} ELSE EntriesOver(EntriesUpTo[d - 1])
    BY <1>4
  <2> QED BY <1>0, <2>1
<1> HIDE DEF S
<1> QED BY <1>5

\* A list of entries of one level is one of the next.
LEMMA LevelsGrow == \A d \in 0..MaxDepth : Seq(EntriesUpTo[d]) \subseteq Seq(Entries)
<1>0. MaxDepth \in Nat
  BY BoundsAssumption
<1> DEFINE S == {d \in 0..MaxDepth : d > 0 => EntriesUpTo[d - 1] \subseteq EntriesUpTo[d]}
<1>1. 0 \in S
  BY <1>0
<1>2. ASSUME NEW d \in 1..MaxDepth, d - 1 \in S PROVE d \in S
  <2>1. CASE d = 1
    BY <1>0, <2>1, LevelsAre
  <2>2. CASE d > 1
    <3>1. d - 1 \in 1..MaxDepth /\ d \in 1..MaxDepth
      BY <1>0, <2>2
    <3> DEFINE lower == EntriesUpTo[(d - 1) - 1]
               upper == EntriesUpTo[d - 1]
    <3>2. EntriesUpTo[d - 1] = EntriesOver(lower) /\ EntriesUpTo[d] = EntriesOver(upper)
      BY <3>1, LevelsAre
    <3>3. lower \subseteq upper
      BY <1>2, <2>2
    <3> HIDE DEF lower, upper
    <3>4. EntriesOver(lower) \subseteq EntriesOver(upper)
      <4>1. Seq(lower) \subseteq Seq(upper)
        BY <3>3
      <4> QED BY <4>1 DEF EntriesOver
    <3> QED BY <3>2, <3>4
  <2> QED BY <1>0, <2>1, <2>2
<1>3. \A d \in 0..MaxDepth : d \in S
  <2> HIDE DEF S
  <2> QED BY <1>0, <1>1, <1>2, CountingUp
<1> DEFINE U == {k \in 0..MaxDepth : EntriesUpTo[MaxDepth - k] \subseteq Entries}
<1>4. 0 \in U
  BY <1>0 DEF Entries
<1>5. ASSUME NEW k \in 1..MaxDepth, k - 1 \in U PROVE k \in U
  <2>1. MaxDepth - (k - 1) \in 0..MaxDepth /\ MaxDepth - (k - 1) > 0 /\ MaxDepth - k = (MaxDepth - (k - 1)) - 1
    BY <1>0
  <2>2. EntriesUpTo[MaxDepth - k] \subseteq EntriesUpTo[MaxDepth - (k - 1)]
    BY <1>3, <2>1
  <2> QED BY <1>0, <1>5, <2>2
<1>6. \A k \in 0..MaxDepth : k \in U
  <2> HIDE DEF U
  <2> QED BY <1>0, <1>4, <1>5, CountingUp
<1>7. ASSUME NEW d \in 0..MaxDepth PROVE EntriesUpTo[d] \subseteq Entries
  <2>1. MaxDepth - d \in 0..MaxDepth /\ MaxDepth - (MaxDepth - d) = d
    BY <1>0
  <2> QED BY <1>6, <2>1
<1> QED BY <1>7

LEMMA EntryParts ==
  ASSUME NEW e \in Entries
  PROVE  /\ e.tag \in Nat /\ e.required \in BOOLEAN /\ e.isGroup \in BOOLEAN /\ e.entries \in Seq(Entries)
<1>1. MaxDepth \in Nat /\ MaxDepth # 0
  BY BoundsAssumption, LevelsAre DEF Entries
<1>2. MaxDepth \in 1..MaxDepth /\ MaxDepth - 1 \in 0..MaxDepth
  BY <1>1
<1>3. e \in EntriesOver(EntriesUpTo[MaxDepth - 1])
  BY <1>2, LevelsAre DEF Entries
<1>4. e.entries \in Seq(EntriesUpTo[MaxDepth - 1]) /\ e.tag \in Nat /\ e.required \in BOOLEAN /\ e.isGroup \in BOOLEAN
  BY <1>3 DEF EntriesOver
<1> QED BY <1>2, <1>4, LevelsGrow

\* How deep the groups of a list go.
Depth(list) ==
  CHOOSE d \in 0..MaxDepth :
    list \in Seq(EntriesUpTo[d]) /\ \A k \in 0..MaxDepth : list \in Seq(EntriesUpTo[k]) => d <= k

LEMMA DepthIs ==
  ASSUME NEW list \in Seq(Entries)
  PROVE  /\ Depth(list) \in 0..MaxDepth /\ list \in Seq(EntriesUpTo[Depth(list)])
         /\ \A k \in 0..MaxDepth : list \in Seq(EntriesUpTo[k]) => Depth(list) <= k
<1> DEFINE S == {d \in 0..MaxDepth : list \in Seq(EntriesUpTo[d])}
<1>1. S \in SUBSET Nat /\ MaxDepth \in S
  BY BoundsAssumption DEF Entries
<1>2. \E d \in S : \A k \in S : d <= k
  <2> HIDE DEF S
  <2> QED BY <1>1, LeastElement
<1> QED BY <1>2 DEF Depth

LEMMA DepthFalls ==
  ASSUME NEW list \in Seq(Entries), NEW i \in DOMAIN list
  PROVE  /\ list[i] \in Entries /\ list[i].entries \in Seq(Entries)
         /\ Depth(list) \in Nat /\ Depth(list[i].entries) \in Nat
         /\ Depth(list[i].entries) < Depth(list)
<1> DEFINE d == Depth(list)
           e == list[i]
<1>1. d \in 0..MaxDepth /\ list \in Seq(EntriesUpTo[d]) /\ MaxDepth \in Nat
  BY DepthIs, BoundsAssumption
<1>2. e \in EntriesUpTo[d] /\ e \in Entries
  BY <1>1
<1>3. d \in 1..MaxDepth /\ d - 1 \in 0..MaxDepth
  BY <1>1, <1>2, LevelsAre
<1>4. e \in EntriesOver(EntriesUpTo[d - 1])
  BY <1>2, <1>3, LevelsAre
<1>5. e.entries \in Seq(EntriesUpTo[d - 1]) /\ e.entries \in Seq(Entries)
  BY <1>2, <1>4, EntryParts DEF EntriesOver
<1>6. Depth(e.entries) \in 0..MaxDepth /\ Depth(e.entries) <= d - 1
  BY <1>3, <1>5, DepthIs
<1> QED BY <1>1, <1>2, <1>5, <1>6

\* Position finds an entry with the tag, the last one.
LEMMA LookupFinds ==
  ASSUME NEW list \in Seq(Entries), NEW tag \in Tags(list)
  PROVE  /\ Position(list, tag) \in DOMAIN list /\ list[Position(list, tag)].tag = tag
         /\ EntryFor(list, tag) \in Entries /\ EntryFor(list, tag).tag = tag
<1>0. Len(list) \in Nat /\ DOMAIN list = 1..Len(list)
  OBVIOUS
<1> DEFINE S == {k \in 0..Len(list) : \E i \in DOMAIN list : list[i].tag = tag /\ k = Len(list) - i}
<1>1. S \in SUBSET Nat /\ S # {}
  <2>1. PICK i \in DOMAIN list : list[i].tag = tag
    BY DEF Tags
  <2>2. Len(list) - i \in S
    BY <1>0, <2>1
  <2> QED BY <1>0, <2>2
<1>2. PICK k \in S : \A l \in S : k <= l
  <2> HIDE DEF S
  <2> QED BY <1>1, LeastElement
<1>3. PICK i \in DOMAIN list : list[i].tag = tag /\ k = Len(list) - i
  BY <1>2
<1>4. ASSUME NEW j \in i + 1..Len(list) PROVE list[j].tag # tag
  <2>1. Len(list) - j < k /\ Len(list) - j \in 0..Len(list) /\ j \in DOMAIN list
    BY <1>0, <1>3
  <2> QED BY <1>2, <2>1
<1>5. /\ Position(list, tag) \in DOMAIN list /\ list[Position(list, tag)].tag = tag
  BY <1>3, <1>4 DEF Position
<1> QED BY <1>5 DEF EntryFor

LEMMA TagsAreNumbers == ASSUME NEW list \in Seq(Entries) PROVE Tags(list) \subseteq Nat
BY EntryParts DEF Tags

-----------------------------------------------------------------------------
(* Walk is what its rule says: it only ever goes on, so the recursion ends. *)

MsgFields == [tag : Nat, n : Nat, ok : BOOLEAN]
IsMessage(m) == m \in Seq(MsgFields)

Kinds ==
  {"missing", "empty", "delimiter", "size", "order", "count", "truncated", "datatype", "unknown", "unexpected"}
Notes == SUBSET (Kinds \X Nat)
Results(m) == [at : Spots(m), obs : Notes, failed : BOOLEAN]
Onward(r, m, at) == r \in Results(m) /\ r.at >= at

GoesBeyond(f, m, n) == \A c \in Contexts(m) : c.at > n => Onward(f[c], m, c.at)
SameBeyond(f, g, m, n) == \A c \in Contexts(m) : c.at > n => f[c] = g[c]

LEMMA FieldParts ==
  ASSUME NEW m, IsMessage(m), NEW i \in DOMAIN m
  PROVE  m[i].tag \in Nat /\ m[i].n \in Nat /\ m[i].ok \in BOOLEAN
<1>1. m[i] \in MsgFields
  BY DEF IsMessage
<1> QED BY <1>1 DEF MsgFields

LEMMA SpotsAre ==
  ASSUME NEW m, IsMessage(m)
  PROVE  /\ Len(m) \in Nat /\ DOMAIN m = 1..Len(m) /\ Spots(m) \subseteq Nat
         /\ \A i : i \in Spots(m) <=> i \in Nat /\ 1 <= i /\ i <= Len(m) + 1
BY DEF IsMessage, Spots

LEMMA WalkedGoes ==
  ASSUME NEW m, NEW at \in Spots(m), NEW from \in Nat, at >= from, NEW obs \in Notes
  PROVE  /\ Onward(Walked(at, obs, TRUE), m, from)
         /\ Onward(Walked(at, obs, FALSE), m, from)
BY DEF Walked, Results, Onward

LEMMA NotedIs ==
  ASSUME NEW m, NEW obs \in Notes, NEW r \in Results(m)
  PROVE  /\ Noted(obs, r) \in Results(m)
         /\ Noted(obs, r).at = r.at /\ Noted(obs, r).obs = obs \cup r.obs
         /\ Noted(obs, r).failed = r.failed
<1>1. r.at \in Spots(m) /\ r.obs \in Notes /\ r.failed \in BOOLEAN
  BY DEF Results
<1>2. obs \cup r.obs \in Notes
  BY <1>1 DEF Notes
<1> QED BY <1>1, <1>2 DEF Noted, Results

LEMMA ContextParts ==
  ASSUME NEW m, NEW c \in Contexts(m)
  PROVE  /\ c.entries \in Seq(Entries) /\ c.isGroup \in BOOLEAN /\ c.ends \in SUBSET Nat
         /\ c.left \in SUBSET Entries /\ c.at \in Spots(m)
BY DEF Contexts

LEMMA ContextMoves ==
  ASSUME NEW m, NEW c \in Contexts(m), NEW at \in Spots(m)
  PROVE  [c EXCEPT !.at = at] \in Contexts(m) /\ [c EXCEPT !.at = at].at = at
BY DEF Contexts

Moved(c, left, at) == [c EXCEPT !.left = left, !.at = at]

LEMMA ContextGoesOn ==
  ASSUME NEW m, NEW c \in Contexts(m), NEW at \in Spots(m), NEW left \in SUBSET Entries
  PROVE  /\ Moved(c, left, at) \in Contexts(m) /\ Moved(c, left, at).at = at
         /\ Moved(c, left, at).left = left /\ Moved(c, left, at).entries = c.entries
         /\ Moved(c, left, at).isGroup = c.isGroup /\ Moved(c, left, at).ends = c.ends
BY DEF Contexts, Moved

LEMMA NoteIs ==
  ASSUME NEW what \in Kinds, NEW k \in Nat
  PROVE  {<<what, k>>} \in Notes
<1>1. <<what, k>> \in Kinds \X Nat
  OBVIOUS
<1> QED BY <1>1 DEF Notes

LEMMA LookupIsOfEntries == ASSUME NEW entries \in Seq(Entries) PROVE Lookup(entries) \in SUBSET Entries
BY LookupFinds DEF Lookup

\* The context of a group, and that of header, body or trailer.
LEMMA GroupContext ==
  ASSUME NEW m, NEW entries \in Seq(Entries), NEW ends \in SUBSET Nat, NEW at \in Spots(m)
  PROVE  Context(entries, TRUE, ends, at) \in Contexts(m) /\ Context(entries, TRUE, ends, at).at = at
BY LookupIsOfEntries DEF Context, Contexts

LEMMA ListContext ==
  ASSUME NEW m, NEW entries \in Seq(Entries), NEW ends \in SUBSET Nat, NEW at \in Spots(m)
  PROVE  Context(entries, FALSE, ends, at) \in Contexts(m) /\ Context(entries, FALSE, ends, at).at = at
BY LookupIsOfEntries DEF Context, Contexts

\* The loop over the instances of a group.
LoopStates(m, from) ==
  {s \in [at : Spots(m), obs : Notes, failed : BOOLEAN, size : Int] : s.at >= from}
LoopStart(c) == [at |-> c.at, obs |-> {}, failed |-> FALSE, size |-> -1]

LEMMA InstanceAgrees ==
  ASSUME NEW m, IsMessage(m), NEW mode, NEW c \in Contexts(m), NEW n \in Nat, c.at > n,
         NEW f, NEW g, GoesBeyond(f, m, n), SameBeyond(f, g, m, n),
         NEW done \in LoopStates(m, c.at)
  PROVE  /\ Instance(f, m, mode, c, done) \in LoopStates(m, c.at)
         /\ Instance(g, m, mode, c, done) = Instance(f, m, mode, c, done)
<1> DEFINE here == [c EXCEPT !.at = done.at]
           r == f[here]
           got == r.at - done.at
           first == done.size = -1
           anchored == Position(c.entries, m[c.at].tag) = 1
           other == {k \in 0..got - 1 : m[c.at + k].tag # m[done.at + k].tag}
           said == IF first /\ got = 0 THEN {<<"empty", c.at>>}
                   ELSE IF first THEN (IF anchored THEN {} ELSE {<<"delimiter", c.at>>})
                   ELSE InStrict(mode, IF got # done.size THEN {<<"size", done.at>>}
                                       ELSE IF other # {} THEN {<<"order", done.at>>} ELSE {})
<1>1. /\ done.at \in Spots(m) /\ done.obs \in Notes /\ done.failed \in BOOLEAN /\ done.size \in Int
      /\ done.at >= c.at /\ c.at \in Spots(m) /\ c.at \in Nat /\ done.at \in Nat
  BY SpotsAre, ContextParts DEF LoopStates
<1>2. here \in Contexts(m) /\ here.at = done.at /\ here.at > n
  <2>1. here \in Contexts(m) /\ here.at = done.at
    BY <1>1, ContextMoves
  <2> HIDE DEF here
  <2> QED BY <1>1, <2>1
<1>3. Onward(r, m, done.at) /\ g[here] = r
  BY <1>2 DEF GoesBeyond, SameBeyond
<1>4. r.at \in Spots(m) /\ r.at >= c.at /\ got \in Int /\ r.obs \in Notes /\ r.failed \in BOOLEAN
  BY <1>1, <1>3, SpotsAre DEF Onward, Results
<1>5. said \in Notes
  <2>1. /\ {} \in Notes /\ {<<"empty", c.at>>} \in Notes /\ {<<"delimiter", c.at>>} \in Notes
        /\ {<<"size", done.at>>} \in Notes /\ {<<"order", done.at>>} \in Notes
    <3>1. {} \in Notes
      BY DEF Notes
    <3>2. {<<"empty", c.at>>} \in Notes
      BY <1>1, NoteIs DEF Kinds
    <3>3. {<<"delimiter", c.at>>} \in Notes
      BY <1>1, NoteIs DEF Kinds
    <3>4. {<<"size", done.at>>} \in Notes
      BY <1>1, NoteIs DEF Kinds
    <3>5. {<<"order", done.at>>} \in Notes
      BY <1>1, NoteIs DEF Kinds
    <3> QED BY <3>1, <3>2, <3>3, <3>4, <3>5
  <2> HIDE DEF first, got, anchored, other
  <2>2. (IF got # done.size THEN {<<"size", done.at>>}
         ELSE IF other # {} THEN {<<"order", done.at>>} ELSE {}) \in Notes
    BY <2>1
  <2> QED BY <2>1, <2>2 DEF InStrict
<1>6. Instance(g, m, mode, c, done) = Instance(f, m, mode, c, done)
  BY <1>3 DEF Instance
<1>7. Instance(f, m, mode, c, done) =
        IF done.failed \/ done.size = 0 THEN done
        ELSE IF r.failed THEN [done EXCEPT !.at = r.at, !.obs = @ \cup r.obs, !.failed = TRUE]
        ELSE [done EXCEPT !.at = r.at, !.obs = @ \cup r.obs \cup said, !.size = IF first THEN got ELSE @]
  BY DEF Instance
<1> HIDE DEF r, got, said, here
<1>8. done.obs \cup r.obs \in Notes /\ done.obs \cup r.obs \cup said \in Notes
  BY <1>1, <1>4, <1>5 DEF Notes
<1>9. CASE done.failed \/ done.size = 0
  BY <1>6, <1>7, <1>9
<1>10. CASE ~(done.failed \/ done.size = 0) /\ r.failed
  <2>1. [done EXCEPT !.at = r.at, !.obs = @ \cup r.obs, !.failed = TRUE] \in LoopStates(m, c.at)
    BY <1>1, <1>4, <1>8 DEF LoopStates
  <2> QED BY <1>6, <1>7, <1>10, <2>1
<1>11. CASE ~(done.failed \/ done.size = 0) /\ ~r.failed
  <2>1. [done EXCEPT !.at = r.at, !.obs = @ \cup r.obs \cup said, !.size = IF first THEN got ELSE @]
          \in LoopStates(m, c.at)
    BY <1>1, <1>4, <1>8 DEF LoopStates
  <2> QED BY <1>6, <1>7, <1>11, <2>1
<1> QED BY <1>9, <1>10, <1>11

LoopsWell(f, m, mode, c, times) ==
  LET all == Instances(f, m, mode, c, times) IN
  /\ all[0] = LoopStart(c)
  /\ \A k \in 0..times : all[k] \in LoopStates(m, c.at)
  /\ \A k \in 1..times : all[k] = Instance(f, m, mode, c, all[k - 1])

LEMMA InstancesAre ==
  ASSUME NEW m, IsMessage(m), NEW mode, NEW c \in Contexts(m), NEW n \in Nat, c.at > n,
         NEW f, GoesBeyond(f, m, n), NEW times \in Nat
  PROVE  LoopsWell(f, m, mode, c, times)
<1> DEFINE V == LoopStates(m, c.at)
           turn == [p \in (1..times) \X V |-> Instance(f, m, mode, c, p[2])]
           Loop(d) == d = [k \in 0..times |-> IF k = 0 THEN LoopStart(c) ELSE Instance(f, m, mode, c, d[k - 1])]
           all == Instances(f, m, mode, c, times)
<1>1. LoopStart(c) \in V
  <2>1. c.at \in Spots(m) /\ c.at >= c.at /\ {} \in Notes
    BY ContextParts, SpotsAre DEF Notes
  <2> QED BY <2>1 DEF LoopStates, LoopStart
<1>2. SameBeyond(f, f, m, n)
  BY DEF SameBeyond
<1>3. \A d \in V : Instance(f, m, mode, c, d) \in V
  BY <1>2, InstanceAgrees
<1> HIDE DEF V
<1>4. turn \in [(1..times) \X V -> V]
  BY <1>3
<1>5. \A i \in 1..times : \A d \in V : turn[<<i, d>>] = Instance(f, m, mode, c, d)
  OBVIOUS
<1> HIDE DEF turn
<1>6. PICK d : LoopOf(d, times, LoopStart(c), turn) /\ d \in [0..times -> V]
  BY <1>1, <1>4, Loops
<1>7. Loop(d)
  <2>1. ASSUME NEW k \in 0..times
        PROVE  d[k] = IF k = 0 THEN LoopStart(c) ELSE Instance(f, m, mode, c, d[k - 1])
    <3>1. CASE k = 0
      BY <1>6, <3>1 DEF LoopOf
    <3>2. CASE k # 0
      <4>1. k \in 1..times /\ k - 1 \in 0..times
        BY <3>2
      <4>2. d[k] = turn[<<k, d[k - 1]>>] /\ d[k - 1] \in V
        BY <1>6, <3>2, <4>1 DEF LoopOf
      <4> QED BY <1>5, <3>2, <4>1, <4>2
    <3> QED BY <3>1, <3>2
  <2>2. d = [k \in 0..times |-> d[k]]
    BY <1>6
  <2> QED BY <2>1, <2>2
<1>8. Loop(all)
  BY <1>7 DEF Instances, LoopStart
<1> HIDE DEF all
<1>9. all[0] = LoopStart(c) /\ \A k \in 1..times : all[k] = Instance(f, m, mode, c, all[k - 1])
  <2>1. \A k \in 0..times : all[k] = IF k = 0 THEN LoopStart(c) ELSE Instance(f, m, mode, c, all[k - 1])
    BY <1>8
  <2>2. 0 \in 0..times /\ \A k \in 1..times : k \in 0..times /\ k # 0
    OBVIOUS
  <2> QED BY <2>1, <2>2
<1> DEFINE S == {k \in 0..times : all[k] \in V}
<1>10. \A k \in 0..times : k \in S
  <2>1. 0 \in S
    BY <1>1, <1>9
  <2>2. ASSUME NEW k \in 1..times, k - 1 \in S PROVE k \in S
    BY <1>3, <1>9, <2>2
  <2> HIDE DEF S
  <2> QED BY <2>1, <2>2, CountingUp
<1> QED BY <1>9, <1>10 DEF V, all, LoopsWell

LEMMA InstancesAgree ==
  ASSUME NEW m, IsMessage(m), NEW mode, NEW c \in Contexts(m), NEW n \in Nat, c.at > n,
         NEW f, NEW g, GoesBeyond(f, m, n), SameBeyond(f, g, m, n), NEW times \in Nat
  PROVE  Instances(f, m, mode, c, times)[times] = Instances(g, m, mode, c, times)[times]
<1> DEFINE a == Instances(f, m, mode, c, times)
           b == Instances(g, m, mode, c, times)
           S == {k \in 0..times : a[k] = b[k]}
<1>1. GoesBeyond(g, m, n)
  BY DEF GoesBeyond, SameBeyond
<1>0. LoopsWell(f, m, mode, c, times) /\ LoopsWell(g, m, mode, c, times)
  BY <1>1, InstancesAre
<1>2. a[0] = b[0]
  BY <1>0 DEF LoopsWell
<1>3. ASSUME NEW k \in 1..times, k - 1 \in S PROVE k \in S
  <2>1. k - 1 \in 0..times /\ a[k - 1] = b[k - 1]
    BY <1>3
  <2>2. a[k - 1] \in LoopStates(m, c.at) /\ a[k] = Instance(f, m, mode, c, a[k - 1])
    BY <1>0, <2>1 DEF LoopsWell
  <2>3. b[k] = Instance(g, m, mode, c, b[k - 1])
    BY <1>0 DEF LoopsWell
  <2>4. Instance(g, m, mode, c, a[k - 1]) = Instance(f, m, mode, c, a[k - 1])
    <3> HIDE DEF a
    <3> QED BY <2>2, InstanceAgrees
  <2> HIDE DEF a, b
  <2> QED BY <2>1, <2>2, <2>3, <2>4
<1> HIDE DEF a, b
<1>4. 0 \in S
  BY <1>2
<1>5. \A k \in 0..times : k \in S
  <2> HIDE DEF S
  <2> QED BY <1>3, <1>4, CountingUp
<1> QED BY <1>5 DEF a, b

\* What walkSpec does from a field on is settled by what it does further on.
LEMMA MissingIs == ASSUME NEW m, NEW c \in Contexts(m) PROVE MissingTags(c) \in Notes
<1>1. \A e \in c.left : e.tag \in Nat
  BY ContextParts, EntryParts
<1> QED BY <1>1 DEF MissingTags, Notes, Kinds

RuleKept(f, g, m, mode, c) ==
  Onward(WalkSpec(f, m, mode, c), m, c.at) /\ WalkSpec(g, m, mode, c) = WalkSpec(f, m, mode, c)

LEMMA GroupAgrees ==
  ASSUME NEW m, IsMessage(m), NEW mode, NEW c \in Contexts(m), c.at <= Len(m),
         NEW entry \in c.left, NEW typed \in Notes,
         NEW f, NEW g, GoesBeyond(f, m, c.at), SameBeyond(f, g, m, c.at)
  PROVE  /\ Onward(WalkGroup(f, m, mode, c, entry, typed), m, c.at)
         /\ WalkGroup(g, m, mode, c, entry, typed) = WalkGroup(f, m, mode, c, entry, typed)
<1> DEFINE field == m[c.at]
           ends == GroupEnds(m[c.at + 1].tag, c.ends, TagsOf(c.left \ {entry}))
           inner == Context(entry.entries, TRUE, ends, c.at + 1)
           group == Instances(f, m, mode, inner, field.n)[field.n]
           next == [c EXCEPT !.left = @ \ {entry}, !.at = group.at]
<1>1. /\ c.at \in Nat /\ c.at \in DOMAIN m /\ c.at \in Spots(m) /\ c.at + 1 \in Spots(m) /\ Len(m) \in Nat
      /\ c.ends \in SUBSET Nat /\ c.left \in SUBSET Entries /\ entry \in Entries
      /\ c.at # Len(m) => c.at + 1 \in DOMAIN m
      /\ c.at >= c.at /\ c.at + 1 >= c.at
  BY SpotsAre, ContextParts
<1>2. field.tag \in Nat /\ field.n \in Nat /\ field.ok \in BOOLEAN
  BY <1>1, FieldParts
<1>3. CASE ~field.ok
  <2>1. typed \cup {<<"count", field.tag>>} \in Notes
    <3>1. {<<"count", field.tag>>} \in Notes
      BY <1>2, NoteIs DEF Kinds
    <3> QED BY <3>1 DEF Notes
  <2>2. Onward(Walked(c.at, typed \cup {<<"count", field.tag>>}, TRUE), m, c.at)
    BY <1>1, <2>1, WalkedGoes
  <2> QED BY <1>3, <2>2 DEF WalkGroup
<1>4. CASE field.ok /\ c.at = Len(m)
  <2>1. typed \cup {<<"truncated", field.tag>>} \in Notes
    <3>1. {<<"truncated", field.tag>>} \in Notes
      BY <1>2, NoteIs DEF Kinds
    <3> QED BY <3>1 DEF Notes
  <2>2. Onward(Walked(c.at + 1, typed \cup {<<"truncated", field.tag>>}, FALSE), m, c.at)
    BY <1>1, <2>1, WalkedGoes
  <2> QED BY <1>4, <2>2 DEF WalkGroup
<1>5. CASE field.ok /\ c.at # Len(m)
  <2>1. m[c.at + 1].tag \in Nat
    BY <1>1, <1>5, FieldParts
  <2>2. ends \in SUBSET Nat
    <3>1. \A e \in c.left : e.tag \in Nat
      BY <1>1, EntryParts
    <3> QED BY <1>1, <2>1, <3>1 DEF GroupEnds, TagsOf
  <2>3. entry.entries \in Seq(Entries)
    BY <1>1, EntryParts
  <2> HIDE DEF ends
  <2>4. inner \in Contexts(m) /\ inner.at = c.at + 1
    BY <1>1, <2>2, <2>3, GroupContext DEF Context
  <2> HIDE DEF inner
  <2>5. inner.at > c.at
    BY <1>1, <2>4
  <2>6. LoopsWell(f, m, mode, inner, field.n)
    BY <1>1, <1>2, <2>4, <2>5, InstancesAre
  <2>7. group = Instances(g, m, mode, inner, field.n)[field.n]
    BY <1>1, <1>2, <2>4, <2>5, InstancesAgree
  <2>8. group \in LoopStates(m, inner.at)
    <3>1. field.n \in 0..field.n
      BY <1>2
    <3> HIDE DEF field
    <3> QED BY <2>6, <3>1 DEF LoopsWell
  <2>9. /\ WalkGroup(f, m, mode, c, entry, typed) =
             IF group.failed THEN Walked(group.at, typed \cup group.obs, TRUE)
             ELSE Noted(typed \cup group.obs, f[next])
        /\ WalkGroup(g, m, mode, c, entry, typed) =
             IF group.failed THEN Walked(group.at, typed \cup group.obs, TRUE)
             ELSE Noted(typed \cup group.obs, g[next])
    BY <1>5, <2>7 DEF WalkGroup, inner, ends
  <2> HIDE DEF group, field
  <2>10. /\ group.at \in Spots(m) /\ group.at \in Nat /\ group.at > c.at /\ group.at >= c.at /\ group.failed \in BOOLEAN
         /\ group.obs \in Notes /\ typed \cup group.obs \in Notes
    <3>1. group.at \in Spots(m) /\ group.obs \in Notes /\ group.failed \in BOOLEAN /\ group.at >= inner.at
      BY <2>8 DEF LoopStates
    <3> QED BY <1>1, <2>4, <3>1, SpotsAre DEF Notes
  <2>11. next \in Contexts(m) /\ next.at = group.at
    <3>1. c.left \ {entry} \in SUBSET Entries
      BY <1>1
    <3>2. next = Moved(c, c.left \ {entry}, group.at)
      BY DEF Moved
    <3> HIDE DEF next
    <3> QED BY <2>10, <3>1, <3>2, ContextGoesOn
  <2> HIDE DEF next
  <2>12. Onward(f[next], m, group.at) /\ g[next] = f[next]
    BY <2>10, <2>11 DEF GoesBeyond, SameBeyond
  <2>13. f[next] \in Results(m) /\ f[next].at \in Nat /\ f[next].at >= c.at
    <3>1. f[next] \in Results(m) /\ f[next].at >= group.at
      BY <2>12 DEF Onward
    <3>2. f[next].at \in Nat
      BY <3>1, SpotsAre DEF Results
    <3> QED BY <1>1, <2>10, <3>1, <3>2
  <2>14. Onward(Noted(typed \cup group.obs, f[next]), m, c.at)
    BY <2>10, <2>13, NotedIs DEF Onward
  <2>15. Onward(Walked(group.at, typed \cup group.obs, TRUE), m, c.at)
    BY <1>1, <2>10, WalkedGoes
  <2> QED BY <2>9, <2>10, <2>12, <2>14, <2>15
<1> QED BY <1>2, <1>3, <1>4, <1>5

LEMMA RuleAgrees ==
  ASSUME NEW m, IsMessage(m), NEW mode, NEW c \in Contexts(m),
         NEW f, NEW g, GoesBeyond(f, m, c.at), SameBeyond(f, g, m, c.at)
  PROVE  RuleKept(f, g, m, mode, c)
<1> DEFINE field == m[c.at]
           entry == CHOOSE e \in c.left : e.tag = field.tag
           expected == field.tag \in TagsOf(c.left)
           known == field.tag \in raw.fields
           stops == (c.isGroup /\ mode = "strict") \/ field.tag \in c.ends
           typed == InStrict(mode, IF field.ok THEN {} ELSE {<<"datatype", field.tag>>})
           stray == InStrict(mode, {<<IF known THEN "unexpected" ELSE "unknown", field.tag>>})
           beyond == [c EXCEPT !.at = @ + 1]
           after == [c EXCEPT !.left = @ \ {entry}, !.at = @ + 1]
           Spec(w) == IF c.at > Len(m) \/ (~expected /\ known /\ stops) THEN Walked(c.at, MissingTags(c), FALSE)
                      ELSE IF ~expected THEN Noted(stray, w[beyond])
                      ELSE IF entry.isGroup THEN WalkGroup(w, m, mode, c, entry, typed)
                      ELSE Noted(typed, w[after])
<1>1. WalkSpec(f, m, mode, c) = Spec(f) /\ WalkSpec(g, m, mode, c) = Spec(g)
  BY DEF WalkSpec
<1>2. c.at \in Spots(m) /\ c.at \in Nat /\ Len(m) \in Nat /\ c.left \in SUBSET Entries /\ c.at >= c.at
  BY SpotsAre, ContextParts
<1>3. CASE c.at > Len(m) \/ (~expected /\ known /\ stops)
  <2>1. Onward(Walked(c.at, MissingTags(c), FALSE), m, c.at)
    BY <1>2, MissingIs, WalkedGoes
  <2> HIDE DEF expected, known, stops, entry, typed, stray, beyond, after
  <2> QED BY <1>1, <1>3, <2>1 DEF RuleKept
<1>4. CASE c.at <= Len(m)
  <2>1. /\ field.tag \in Nat /\ field.ok \in BOOLEAN /\ c.at + 1 \in Spots(m) /\ c.at + 1 > c.at
        /\ c.at \in DOMAIN m
    BY <1>2, <1>4, SpotsAre, FieldParts
  <2>2. typed \in Notes /\ stray \in Notes
    <3>1. {<<"datatype", field.tag>>} \in Notes
      BY <2>1, NoteIs DEF Kinds
    <3>2. {<<"unexpected", field.tag>>} \in Notes
      BY <2>1, NoteIs DEF Kinds
    <3>3. {<<"unknown", field.tag>>} \in Notes
      BY <2>1, NoteIs DEF Kinds
    <3>4. {} \in Notes
      BY DEF Notes
    <3> HIDE DEF known, field
    <3> QED BY <3>1, <3>2, <3>3, <3>4 DEF InStrict
  <2>3. ASSUME NEW d \in Contexts(m), d.at = c.at + 1, NEW obs \in Notes
        PROVE  Onward(Noted(obs, f[d]), m, c.at) /\ g[d] = f[d]
    <3>1. Onward(f[d], m, d.at) /\ g[d] = f[d]
      BY <1>2, <2>1, <2>3 DEF GoesBeyond, SameBeyond
    <3>2. f[d] \in Results(m) /\ f[d].at >= c.at + 1 /\ f[d].at \in Nat
      BY <2>3, <3>1, SpotsAre DEF Onward, Results
    <3>3. f[d].at >= c.at
      BY <1>2, <3>2
    <3> QED BY <3>1, <3>2, <3>3, NotedIs DEF Onward
  <2>4. beyond \in Contexts(m) /\ beyond.at = c.at + 1
    BY <2>1, ContextMoves
  <2>5. after \in Contexts(m) /\ after.at = c.at + 1
    <3>1. c.left \ {entry} \in SUBSET Entries
      BY <1>2
    <3>2. after = Moved(c, c.left \ {entry}, c.at + 1)
      BY DEF Moved
    <3> HIDE DEF entry, after
    <3> QED BY <2>1, <3>1, <3>2, ContextGoesOn
  <2>6. expected => entry \in c.left
    BY DEF TagsOf
  <2> HIDE DEF beyond, after, entry, typed, stray, expected, known, stops
  <2>7. expected => /\ Onward(WalkGroup(f, m, mode, c, entry, typed), m, c.at)
                    /\ WalkGroup(g, m, mode, c, entry, typed) = WalkGroup(f, m, mode, c, entry, typed)
    BY <1>4, <2>2, <2>6, GroupAgrees
  <2>8. Onward(Noted(stray, f[beyond]), m, c.at) /\ g[beyond] = f[beyond]
    BY <2>2, <2>3, <2>4
  <2>9. Onward(Noted(typed, f[after]), m, c.at) /\ g[after] = f[after]
    BY <2>2, <2>3, <2>5
  <2>10. CASE c.at > Len(m) \/ (~expected /\ known /\ stops)
    BY <1>3, <2>10
  <2>11. CASE ~(c.at > Len(m) \/ (~expected /\ known /\ stops)) /\ ~expected
    <3>1. Spec(f) = Noted(stray, f[beyond]) /\ Spec(g) = Noted(stray, g[beyond])
      BY <2>11
    <3> HIDE DEF Spec
    <3> QED BY <1>1, <2>8, <3>1 DEF RuleKept
  <2>12. CASE ~(c.at > Len(m) \/ (~expected /\ known /\ stops)) /\ expected /\ entry.isGroup
    <3>1. /\ Spec(f) = WalkGroup(f, m, mode, c, entry, typed)
          /\ Spec(g) = WalkGroup(g, m, mode, c, entry, typed)
      BY <2>12
    <3> QED BY <1>1, <2>7, <2>12, <3>1 DEF RuleKept
  <2>13. CASE ~(c.at > Len(m) \/ (~expected /\ known /\ stops)) /\ expected /\ ~entry.isGroup
    <3>1. Spec(f) = Noted(typed, f[after]) /\ Spec(g) = Noted(typed, g[after])
      BY <2>13
    <3> HIDE DEF Spec
    <3> QED BY <1>1, <2>9, <3>1 DEF RuleKept
  <2> HIDE DEF Spec
  <2> QED BY <2>10, <2>11, <2>12, <2>13
<1> QED BY <1>2, <1>3, <1>4

LEMMA WalkIs ==
  ASSUME NEW m, IsMessage(m), NEW mode
  PROVE  \A c \in Contexts(m) : /\ Walk(m, mode)[c] = WalkSpec(Walk(m, mode), m, mode, c)
                                /\ Onward(Walk(m, mode)[c], m, c.at)
<1> DEFINE D == Contexts(m)
           rank == [c \in D |-> Len(m) + 1 - c.at]
           good == [c \in D |-> {r \in Results(m) : r.at >= c.at}]
           W == Within(good, D)
           rule == [p \in W \X D |-> WalkSpec(p[1], m, mode, p[2])]
<1>0. Len(m) \in Nat /\ \A c \in D : c.at \in Spots(m) /\ c.at \in Nat /\ 1 <= c.at /\ c.at <= Len(m) + 1 /\ c.at >= c.at
  BY SpotsAre, ContextParts
<1>1. rank \in [D -> Nat] /\ \A c \in D : rank[c] <= Len(m) + 1
  <2>1. \A c \in D : Len(m) + 1 - c.at \in Nat /\ Len(m) + 1 - c.at <= Len(m) + 1
    BY <1>0
  <2> HIDE DEF D
  <2> QED BY <2>1
<1>2. \A c \in D : good[c] # {}
  <2>1. ASSUME NEW c \in D PROVE good[c] # {}
    <3>1. {} \in Notes
      BY DEF Notes
    <3>2. Onward(Walked(c.at, {}, FALSE), m, c.at)
      BY <1>0, <3>1, WalkedGoes
    <3> QED BY <3>2 DEF Onward
  <2> QED BY <2>1
<1>3. \A f \in W : GoesBeyond(f, m, 0) /\ f \in [D -> UNION {good[c] : c \in D}]
  BY DEF Within, GoesBeyond, Onward
<1>4. ASSUME NEW f, NEW g, NEW c \in D, SameBelow(f, g, D, rank, rank[c])
      PROVE  SameBeyond(f, g, m, c.at)
  <2>1. ASSUME NEW d \in D, d.at > c.at PROVE f[d] = g[d]
    <3>1. rank[d] < rank[c]
      <4>1. rank[d] = Len(m) + 1 - d.at /\ rank[c] = Len(m) + 1 - c.at
        OBVIOUS
      <4> HIDE DEF rank
      <4> QED BY <1>0, <2>1, <4>1
    <3> QED BY <1>4, <3>1 DEF SameBelow
  <2> QED BY <2>1 DEF SameBeyond
<1>5. ASSUME NEW f \in W, NEW c \in D PROVE GoesBeyond(f, m, c.at)
  <2>1. \A d \in D : d.at > c.at => d.at > 0
    BY <1>0
  <2> HIDE DEF D, W
  <2> QED BY <1>3, <2>1 DEF D, GoesBeyond
<1> HIDE DEF rank
<1>6. \A f \in W : \A c \in D : rule[<<f, c>>] = WalkSpec(f, m, mode, c)
  BY DEF W
<1>7. RuleIsGood(rule, good, D)
  <2>1. ASSUME NEW f \in W, NEW c \in D PROVE rule[<<f, c>>] \in good[c]
    <3>1. SameBeyond(f, f, m, c.at)
      BY DEF SameBeyond
    <3>2. RuleKept(f, f, m, mode, c)
      BY <1>5, <3>1, RuleAgrees
    <3>3. WalkSpec(f, m, mode, c) \in good[c]
      BY <3>2 DEF RuleKept, Onward
    <3> HIDE DEF rule, good, W
    <3> QED BY <1>6, <3>3
  <2> HIDE DEF rule, good, D
  <2> QED BY <2>1 DEF RuleIsGood
<1>8. RuleIsLocal(rule, good, D, rank)
  <2>1. ASSUME NEW f \in W, NEW g \in W, NEW c \in D, SameBelow(f, g, D, rank, rank[c])
        PROVE  rule[<<f, c>>] = rule[<<g, c>>]
    <3>1. RuleKept(f, g, m, mode, c)
      BY <1>4, <1>5, <2>1, RuleAgrees
    <3> HIDE DEF rule, W
    <3> QED BY <1>6, <3>1 DEF RuleKept
  <2> HIDE DEF rule, good, D
  <2> QED BY <2>1 DEF RuleIsLocal
<1>9. PICK f \in W : Keeps(f, rule, D)
  <2>1. Len(m) + 1 \in Nat
    BY <1>0
  <2> USE DEF W
  <2> HIDE DEF rule, good, D
  <2> QED BY <1>1, <1>2, <1>7, <1>8, <2>1, Recursions
<1> HIDE DEF rule, good
<1>10. f = [c \in D |-> WalkSpec(f, m, mode, c)]
  <2>1. f = [c \in D |-> f[c]]
    BY <1>3
  <2>2. \A c \in D : f[c] = WalkSpec(f, m, mode, c)
    BY <1>6, <1>9 DEF Keeps
  <2> HIDE DEF D, W
  <2> QED BY <2>1, <2>2
<1>11. Walk(m, mode) = [c \in D |-> WalkSpec(Walk(m, mode), m, mode, c)]
  BY <1>10 DEF Walk
<1> HIDE DEF W
<1>12. \A c \in D : f[c] = Walk(m, mode)[c]
  <2>1. ASSUME NEW c \in D, SameBelow(f, Walk(m, mode), D, rank, rank[c])
        PROVE  f[c] = Walk(m, mode)[c]
    <3>1. RuleKept(f, Walk(m, mode), m, mode, c)
      BY <1>4, <1>5, <2>1, RuleAgrees
    <3> QED BY <1>6, <1>9, <1>11, <3>1 DEF RuleKept, Keeps
  <2> HIDE DEF D
  <2> QED BY <1>1, <2>1, Unique
<1>13. \A c \in D : Onward(f[c], m, c.at)
  BY <1>0, <1>3 DEF GoesBeyond
<1> QED BY <1>11, <1>12, <1>13

-----------------------------------------------------------------------------
(* Blocks is what its rule says: its spans get shorter. *)

Spans(m) == (SUBSET Entries) \X Spots(m) \X Spots(m)

\* An instance before the n-th ends no later than the n-th starts.
LEMMA StartsGrow ==
  ASSUME NEW n \in Nat, NEW k \in 0..n - 1, NEW size \in Nat
  PROVE  k * size \in Nat /\ n * size \in Nat /\ k * size + size <= n * size
<1>1. \A a, b \in Nat : a * b \in Nat
  OBVIOUS
<1>2. n - k - 1 \in Nat /\ k \in Nat
  OBVIOUS
<1>3. (n - k - 1) * size \in Nat /\ n * size \in Nat /\ k * size \in Nat
  BY <1>1, <1>2
<1>4. n * size = k * size + size + (n - k - 1) * size
  OBVIOUS
<1> QED BY <1>3, <1>4

\* A block looks at shorter spans only.
ShorterSame(f, g, m, n) == \A s \in Spans(m) : s[3] - s[2] < n => f[s] = g[s]

LEMMA GroupLooks ==
  ASSUME NEW m, IsMessage(m), NEW e \in Entries, NEW from \in Spots(m), NEW to \in Spots(m), from < to,
         NEW n \in Nat, to - from <= n, NEW f, NEW g, ShorterSame(f, g, m, n)
  PROVE  Group(f, m, e, from, to) = Group(g, m, e, from, to)
<1>1. /\ from \in Nat /\ to \in Nat /\ 1 <= from /\ to <= Len(m) + 1 /\ from \in DOMAIN m /\ Len(m) \in Nat
  BY SpotsAre
<1>2. m[from].n \in Nat
  BY <1>1, FieldParts
<1> DEFINE times == m[from].n
<1>3. ASSUME NEW size \in 1..to - from - 1, to = from + 1 + times * size, NEW k \in 0..times - 1
      PROVE  Alike(f, m, e, from + 1, from + 1 + k * size, size) = Alike(g, m, e, from + 1, from + 1 + k * size, size)
  <2> DEFINE at == from + 1 + k * size
  <2>1. times \in Nat /\ size \in Nat /\ size < to - from
    BY <1>1, <1>2
  <2> HIDE DEF times
  <2>2. k * size \in Nat /\ times * size \in Nat /\ k * size + size <= times * size
    BY <2>1, StartsGrow
  <2>3. at \in Nat /\ 1 <= at /\ at + size \in Nat /\ at + size <= to /\ at + size - at = size
    BY <1>1, <1>3, <2>1, <2>2
  <2> HIDE DEF at
  <2>4. at \in Spots(m) /\ at + size \in Spots(m)
    BY <1>1, <2>1, <2>3, SpotsAre
  <2>5. Elements(e.entries) \in SUBSET Entries
    BY EntryParts DEF Elements
  <2>6. <<Elements(e.entries), at, at + size>> \in Spans(m)
    BY <2>4, <2>5 DEF Spans
  <2>7. f[<<Elements(e.entries), at, at + size>>] = g[<<Elements(e.entries), at, at + size>>]
    <3>1. size < n
      BY <1>1, <2>1
    <3> QED BY <2>3, <2>6, <3>1 DEF ShorterSame
  <2> QED BY <2>7 DEF Alike, at
<1> QED BY <1>3 DEF Group

LEMMA BlockLooks ==
  ASSUME NEW m, IsMessage(m), NEW s \in Spans(m), NEW f, NEW g, ShorterSame(f, g, m, s[3] - s[2])
  PROVE  Block(f, m, s[1], s[2], s[3]) = Block(g, m, s[1], s[2], s[3])
<1> DEFINE entries == s[1]
           from == s[2]
           to == s[3]
<1>1. /\ entries \in SUBSET Entries /\ from \in Spots(m) /\ to \in Spots(m)
      /\ from \in Nat /\ to \in Nat
  BY SpotsAre DEF Spans
<1> HIDE DEF entries, from, to
<1>2. ASSUME NEW e \in entries, NEW next \in from + 1..to
      PROVE  /\ Group(f, m, e, from, next) = Group(g, m, e, from, next)
             /\ f[<<entries \ {e}, next, to>>] = g[<<entries \ {e}, next, to>>]
  <2>1. /\ next \in Nat /\ next \in Spots(m) /\ e \in Entries /\ to - next < to - from /\ from < next
        /\ to - from \in Nat /\ next - from <= to - from
    BY <1>1, SpotsAre
  <2>2. ShorterSame(f, g, m, to - from)
    BY DEF from, to
  <2>3. Group(f, m, e, from, next) = Group(g, m, e, from, next)
    BY <1>1, <2>1, <2>2, GroupLooks
  <2>4. <<entries \ {e}, next, to>> \in Spans(m)
    BY <1>1, <2>1 DEF Spans
  <2> QED BY <2>1, <2>2, <2>3, <2>4 DEF ShorterSame
<1>3. Block(f, m, entries, from, to) = Block(g, m, entries, from, to)
  BY <1>2 DEF Block
<1> QED BY <1>3 DEF entries, from, to

LEMMA BlocksAre ==
  ASSUME NEW m, IsMessage(m)
  PROVE  \A s \in Spans(m) : Blocks(m)[s] = Block(Blocks(m), m, s[1], s[2], s[3])
<1> DEFINE D == Spans(m)
           rank == [s \in D |-> IF s[2] <= s[3] THEN s[3] - s[2] ELSE 0]
           good == [s \in D |-> BOOLEAN]
           W == Within(good, D)
           rule == [p \in W \X D |-> Block(p[1], m, p[2][1], p[2][2], p[2][3])]
<1>0. Len(m) \in Nat /\ \A s \in D : s[2] \in Nat /\ s[3] \in Nat /\ 1 <= s[2] /\ s[3] <= Len(m) + 1
  BY SpotsAre DEF Spans
<1>1. rank \in [D -> Nat] /\ \A s \in D : rank[s] <= Len(m) + 1 /\ s[3] - s[2] <= rank[s]
  BY <1>0
<1>2. \A s \in D : good[s] # {}
  OBVIOUS
<1>3. ASSUME NEW f, NEW g, NEW s \in D, SameBelow(f, g, D, rank, rank[s])
      PROVE  Block(f, m, s[1], s[2], s[3]) = Block(g, m, s[1], s[2], s[3])
  <2>1. CASE s[2] < s[3]
    <3>1. ShorterSame(f, g, m, s[3] - s[2])
      <4>1. \A d \in D : d[3] - d[2] < s[3] - s[2] => rank[d] < rank[s]
        <5>1. \A d \in D : rank[d] = IF d[2] <= d[3] THEN d[3] - d[2] ELSE 0
          OBVIOUS
        <5> HIDE DEF rank, D
        <5> QED BY <1>0, <2>1, <5>1
      <4> HIDE DEF rank
      <4> QED BY <1>3, <4>1 DEF SameBelow, ShorterSame
    <3> QED BY <3>1, BlockLooks
  <2>2. CASE s[2] >= s[3]
    <3>1. \A e : \A next : next \notin s[2] + 1..s[3]
      BY <1>0, <2>2
    <3> QED BY <3>1 DEF Block
  <2> QED BY <1>0, <2>1, <2>2
<1> HIDE DEF rank
<1>4. \A f \in W : \A s \in D : rule[<<f, s>>] = Block(f, m, s[1], s[2], s[3])
  <2> HIDE DEF W, D
  <2> QED OBVIOUS
<1>5. \A f, s : Block(f, m, s[1], s[2], s[3]) \in BOOLEAN
  BY DEF Block
<1>6. RuleIsGood(rule, good, D)
  <2> HIDE DEF rule
  <2>1. \A f \in W : \A s \in D : rule[<<f, s>>] \in good[s]
    BY <1>4, <1>5
  <2> QED BY <2>1 DEF RuleIsGood
<1>7. RuleIsLocal(rule, good, D, rank)
  <2> HIDE DEF rule
  <2>1. ASSUME NEW f \in W, NEW g \in W, NEW s \in D, SameBelow(f, g, D, rank, rank[s])
        PROVE  rule[<<f, s>>] = rule[<<g, s>>]
    <3> HIDE DEF W, D
    <3> QED BY <1>3, <1>4, <2>1
  <2> HIDE DEF good, D
  <2> QED BY <2>1 DEF RuleIsLocal
<1>8. PICK f \in W : Keeps(f, rule, D)
  <2>1. Len(m) + 1 \in Nat
    BY <1>0
  <2> HIDE DEF rule, good, D
  <2> QED BY <1>1, <1>2, <1>6, <1>7, <2>1, Recursions
<1> HIDE DEF rule
<1>9. f = [s \in D |-> Block(f, m, s[1], s[2], s[3])]
  <2>1. f = [s \in D |-> f[s]]
    BY DEF Within
  <2>2. \A s \in D : f[s] = Block(f, m, s[1], s[2], s[3])
    BY <1>4, <1>8 DEF Keeps
  <2> HIDE DEF D, W
  <2> QED BY <2>1, <2>2
<1>10. Blocks(m) = [s \in D |-> Block(Blocks(m), m, s[1], s[2], s[3])]
  BY <1>9 DEF Blocks, Spans
<1> QED BY <1>10

Stands(m, entries, from, to) == Blocks(m)[<<entries, from, to>>]

LEMMA StandsIs ==
  ASSUME NEW m, IsMessage(m), NEW entries \in SUBSET Entries, NEW from \in Spots(m), NEW to \in Spots(m)
  PROVE  /\ Stands(m, entries, from, to) = Block(Blocks(m), m, entries, from, to)
         /\ Stands(m, entries, from, to) \in BOOLEAN
<1> DEFINE s == <<entries, from, to>>
<1>1. s \in Spans(m) /\ s[1] = entries /\ s[2] = from /\ s[3] = to
  BY DEF Spans
<1> HIDE DEF s
<1>2. Blocks(m)[s] = Block(Blocks(m), m, s[1], s[2], s[3])
  BY <1>1, BlocksAre
<1>3. Block(Blocks(m), m, entries, from, to) \in BOOLEAN
  BY DEF Block
<1> QED BY <1>1, <1>2, <1>3 DEF Stands, s

-----------------------------------------------------------------------------
(* Separate is what its rule says, too. *)

SeparateList(separate, c) ==
  /\ Tags(c[1]) \subseteq c[2]
  /\ \A i, j \in DOMAIN c[1] : c[1][i].tag = c[1][j].tag => i = j
  /\ \A i \in DOMAIN c[1] : c[1][i].isGroup =>
       /\ c[1][i].tag \notin Mandatory /\ c[1][i].entries # <<>>
       /\ separate[<<c[1][i].entries, c[2] \ Tags(c[1])>>]

Lists == Seq(Entries) \X SUBSET Nat

LEMMA SeparateIs == \A c \in Lists : Separate[c] = SeparateList(Separate, c)
<1> DEFINE D == Lists
           rank == [c \in D |-> Depth(c[1])]
           good == [c \in D |-> BOOLEAN]
           W == Within(good, D)
           rule == [p \in W \X D |-> SeparateList(p[1], p[2])]
<1>0. MaxDepth \in Nat
  BY BoundsAssumption
<1>1. rank \in [D -> Nat] /\ \A c \in D : rank[c] <= MaxDepth
  <2>1. \A c \in D : Depth(c[1]) \in 0..MaxDepth
    BY DepthIs DEF Lists
  <2> QED BY <1>0, <2>1
<1>2. \A c \in D : good[c] # {}
  OBVIOUS
<1>3. ASSUME NEW f, NEW g, NEW c \in D, SameBelow(f, g, D, rank, rank[c])
      PROVE  SeparateList(f, c) = SeparateList(g, c)
  <2>1. ASSUME NEW i \in DOMAIN c[1]
        PROVE  f[<<c[1][i].entries, c[2] \ Tags(c[1])>>] = g[<<c[1][i].entries, c[2] \ Tags(c[1])>>]
    <3> DEFINE d == <<c[1][i].entries, c[2] \ Tags(c[1])>>
    <3>1. c[1] \in Seq(Entries) /\ c[2] \in SUBSET Nat
      BY DEF Lists
    <3>2. d \in D /\ d[1] = c[1][i].entries
      BY <3>1, DepthFalls DEF Lists
    <3>3. rank[d] < rank[c]
      <4>1. rank[d] = Depth(c[1][i].entries) /\ rank[c] = Depth(c[1])
        BY <3>2
      <4> HIDE DEF rank, d, D
      <4> QED BY <3>1, <4>1, DepthFalls
    <3> HIDE DEF d, D, rank
    <3> QED BY <1>3, <3>2, <3>3 DEF SameBelow, d
  <2> QED BY <2>1 DEF SeparateList
<1> HIDE DEF rank
<1>4. \A f \in W : \A c \in D : rule[<<f, c>>] = SeparateList(f, c)
  <2> HIDE DEF W, D
  <2> QED OBVIOUS
<1>5. \A f, c : SeparateList(f, c) \in BOOLEAN
  BY DEF SeparateList
<1>6. RuleIsGood(rule, good, D)
  <2> HIDE DEF rule
  <2>1. \A f \in W : \A c \in D : rule[<<f, c>>] \in good[c]
    BY <1>4, <1>5
  <2> QED BY <2>1 DEF RuleIsGood
<1>7. RuleIsLocal(rule, good, D, rank)
  <2> HIDE DEF rule
  <2>1. ASSUME NEW f \in W, NEW g \in W, NEW c \in D, SameBelow(f, g, D, rank, rank[c])
        PROVE  rule[<<f, c>>] = rule[<<g, c>>]
    <3> HIDE DEF W, D
    <3> QED BY <1>3, <1>4, <2>1
  <2> HIDE DEF good, D
  <2> QED BY <2>1 DEF RuleIsLocal
<1>8. PICK f \in W : Keeps(f, rule, D)
  <2> HIDE DEF rule, good, D
  <2> QED BY <1>0, <1>1, <1>2, <1>6, <1>7, Recursions
<1> HIDE DEF rule
<1>9. f = [c \in D |-> SeparateList(f, c)]
  <2>1. f = [c \in D |-> f[c]]
    BY DEF Within
  <2>2. \A c \in D : f[c] = SeparateList(f, c)
    BY <1>4, <1>8 DEF Keeps
  <2> HIDE DEF D, W
  <2> QED BY <2>1, <2>2
<1>10. Separate = [c \in D |-> SeparateList(Separate, c)]
  BY <1>9 DEF Separate, SeparateList, Lists
<1> QED BY <1>10

\* A list that can be told from what is around it, which has no known tags but
\* those in avail.
Apart(list, avail) == list \in Seq(Entries) /\ avail \in SUBSET Nat /\ Separate[<<list, avail>>]

LEMMA ApartIs ==
  ASSUME NEW list, NEW avail, Apart(list, avail)
  PROVE  /\ Tags(list) \subseteq avail
         /\ \A i, j \in DOMAIN list : list[i].tag = list[j].tag => i = j
         /\ \A i \in DOMAIN list : list[i].isGroup =>
              /\ list[i].tag \notin Mandatory /\ list[i].entries # <<>>
              /\ Apart(list[i].entries, avail \ Tags(list))
<1> DEFINE c == <<list, avail>>
<1>1. c \in Lists /\ c[1] = list /\ c[2] = avail /\ list \in Seq(Entries) /\ avail \in SUBSET Nat
  BY DEF Lists, Apart
<1> HIDE DEF c
<1>2. SeparateList(Separate, c)
  BY <1>1, SeparateIs DEF Apart, c
<1>3. \A i \in DOMAIN list : list[i].entries \in Seq(Entries) /\ avail \ Tags(list) \in SUBSET Nat
  <2>1. \A i \in DOMAIN list : list[i] \in Entries
    BY <1>1
  <2> QED BY <1>1, <2>1, EntryParts
<1> QED BY <1>1, <1>2, <1>3 DEF SeparateList, Apart

\* Where tags are not repeated the lookup of a list is its elements.
LEMMA LookupIsElements ==
  ASSUME NEW list, NEW avail, Apart(list, avail)
  PROVE  /\ Lookup(list) = Elements(list)
         /\ Elements(list) \in SUBSET Entries
         /\ \A e, d \in Elements(list) : e.tag = d.tag => e = d
         /\ \A t : Position(list, t) = 1 => list # <<>> /\ list[1].tag = t
<1>1. list \in Seq(Entries)
  BY DEF Apart
<1>2. \A i, j \in DOMAIN list : list[i].tag = list[j].tag => i = j
  BY ApartIs
<1>3. \A i \in DOMAIN list : EntryFor(list, list[i].tag) = list[i]
  <2>1. \A i \in DOMAIN list : list[i].tag \in Tags(list)
    BY DEF Tags
  <2>2. \A i \in DOMAIN list :
          /\ Position(list, list[i].tag) \in DOMAIN list
          /\ list[Position(list, list[i].tag)].tag = list[i].tag
    BY <1>1, <2>1, LookupFinds
  <2> QED BY <1>2, <2>2 DEF EntryFor
<1>4. Lookup(list) = Elements(list)
  BY <1>3 DEF Lookup, Elements, Tags
<1>5. Elements(list) \in SUBSET Entries
  BY <1>1 DEF Elements
<1>6. \A e, d \in Elements(list) : e.tag = d.tag => e = d
  BY <1>2 DEF Elements
<1>7. \A t : Position(list, t) = 1 => list # <<>> /\ list[1].tag = t
  <2>1. ASSUME NEW t, Position(list, t) = 1 PROVE list # <<>> /\ list[1].tag = t
    <3>1. t \in Tags(list)
      BY <2>1 DEF Position
    <3>2. 1 \in DOMAIN list /\ list[1].tag = t
      BY <1>1, <2>1, <3>1, LookupFinds
    <3> QED BY <1>1, <3>2
  <2> QED BY <2>1
<1> QED BY <1>4, <1>5, <1>6, <1>7

-----------------------------------------------------------------------------
(* Soundness: what strict validation has nothing to say about is a block.   *)
(* By induction on what is left of the message.                             *)

\* The field of a context is in a list that its entries are left of.
Placed(c) == c.left \subseteq Elements(c.entries) /\ \E avail : Apart(c.entries, avail)

AllOk(m, from, to) == \A i \in from..to - 1 : m[i].ok

Accepted(m, c, r) ==
  r.obs = {} => ~r.failed /\ Stands(m, c.left, c.at, r.at) /\ AllOk(m, c.at, r.at)

StrictWalk(m) == Walk(m, "strict")
AcceptedBeyond(m, at) == \A c \in Contexts(m) : c.at > at /\ Placed(c) => Accepted(m, c, StrictWalk(m)[c])

\* What is known of the loop over the instances of the group e, whose count is
\* at from, when it has nothing to say after k of them.
LoopTold(m, e, from, k, s) ==
  s.obs = {} =>
    /\ ~s.failed /\ AllOk(m, from + 1, s.at)
    /\ k = 0 => s.at = from + 1 /\ s.size = -1
    /\ k > 0 => /\ s.size \in Nat /\ s.size > 0 /\ s.at = from + 1 + k * s.size
                /\ \A j \in 0..k - 1 : Alike(Blocks(m), m, e, from + 1, from + 1 + j * s.size, s.size)

LEMMA InstanceTold ==
  ASSUME NEW m, IsMessage(m), NEW from \in Nat, AcceptedBeyond(m, from),
         NEW e \in Entries, NEW avail, Apart(e.entries, avail),
         NEW c \in Contexts(m), c.at = from + 1, c.entries = e.entries, c.left = Elements(e.entries),
         NEW k \in Nat, k > 0, NEW done \in LoopStates(m, from + 1), LoopTold(m, e, from, k - 1, done)
  PROVE  LoopTold(m, e, from, k, Instance(StrictWalk(m), m, "strict", c, done))
<1> DEFINE here == [c EXCEPT !.at = done.at]
           r == StrictWalk(m)[here]
           got == r.at - done.at
           first == done.size = -1
           anchored == Position(c.entries, m[c.at].tag) = 1
           other == {i \in 0..got - 1 : m[c.at + i].tag # m[done.at + i].tag}
           said == IF first /\ got = 0 THEN {<<"empty", c.at>>}
                   ELSE IF first THEN (IF anchored THEN {} ELSE {<<"delimiter", c.at>>})
                   ELSE InStrict("strict", IF got # done.size THEN {<<"size", done.at>>}
                                           ELSE IF other # {} THEN {<<"order", done.at>>} ELSE {})
           s == Instance(StrictWalk(m), m, "strict", c, done)
<1>1. /\ done.at \in Spots(m) /\ done.at \in Nat /\ done.at >= from + 1 /\ done.obs \in Notes
      /\ done.failed \in BOOLEAN /\ done.size \in Int
  BY SpotsAre DEF LoopStates
<1>2. /\ here \in Contexts(m) /\ here.at = done.at /\ here.at > from
      /\ here.left = Elements(e.entries) /\ here.entries = e.entries
  <2>1. here \in Contexts(m) /\ here.at = done.at
    BY <1>1, ContextMoves
  <2>2. here.left = c.left /\ here.entries = c.entries
    BY DEF Contexts
  <2> HIDE DEF here
  <2> QED BY <1>1, <2>1, <2>2
<1>3. Accepted(m, here, r) /\ Onward(r, m, done.at)
  <2>1. Placed(here)
    BY <1>2 DEF Placed
  <2>2. Accepted(m, here, r)
    <3> HIDE DEF here
    <3> QED BY <1>2, <2>1 DEF AcceptedBeyond
  <2>3. Onward(r, m, here.at)
    <3> HIDE DEF here
    <3> QED BY <1>2, WalkIs DEF StrictWalk
  <2> HIDE DEF here
  <2> QED BY <1>2, <2>2, <2>3
<1>4. r.at \in Nat /\ r.at >= done.at /\ got \in Nat /\ r.failed \in BOOLEAN /\ done.at + got = r.at
  <2>1. r.at \in Spots(m) /\ r.at >= done.at /\ r.failed \in BOOLEAN
    BY <1>3 DEF Onward, Results
  <2>2. r.at \in Nat
    BY <2>1, SpotsAre
  <2> QED BY <1>1, <2>1, <2>2
<1>5. s = IF done.failed \/ done.size = 0 THEN done
          ELSE IF r.failed THEN [done EXCEPT !.at = r.at, !.obs = @ \cup r.obs, !.failed = TRUE]
          ELSE [done EXCEPT !.at = r.at, !.obs = @ \cup r.obs \cup said, !.size = IF first THEN got ELSE @]
  BY DEF Instance
<1> HIDE DEF s, said, r, here, got
<1>6. SUFFICES ASSUME s.obs = {}
               PROVE  /\ ~s.failed /\ AllOk(m, from + 1, s.at)
                      /\ s.size \in Nat /\ s.size > 0 /\ s.at = from + 1 + k * s.size
                      /\ \A j \in 0..k - 1 :
                           Alike(Blocks(m), m, e, from + 1, from + 1 + j * s.size, s.size)
  BY DEF LoopTold, s
<1>7. done.obs = {}
  <2>1. CASE done.failed \/ done.size = 0
    BY <1>5, <1>6, <2>1
  <2>2. CASE ~(done.failed \/ done.size = 0) /\ r.failed
    <3>1. s.obs = done.obs \cup r.obs
      BY <1>5, <2>2 DEF LoopStates
    <3> QED BY <1>6, <3>1
  <2>3. CASE ~(done.failed \/ done.size = 0) /\ ~r.failed
    <3>1. s.obs = done.obs \cup r.obs \cup said
      BY <1>5, <2>3 DEF LoopStates
    <3> QED BY <1>6, <3>1
  <2> QED BY <2>1, <2>2, <2>3
<1>8. /\ ~done.failed /\ AllOk(m, from + 1, done.at)
      /\ k - 1 = 0 => done.at = from + 1 /\ done.size = -1
      /\ k - 1 > 0 => /\ done.size \in Nat /\ done.size > 0 /\ done.at = from + 1 + (k - 1) * done.size
                      /\ \A j \in 0..(k - 1) - 1 :
                           Alike(Blocks(m), m, e, from + 1, from + 1 + j * done.size, done.size)
  BY <1>7 DEF LoopTold
<1>9. ~(done.failed \/ done.size = 0) /\ ~r.failed
  <2>1. done.size # 0
    BY <1>8
  <2>2. ASSUME r.failed PROVE FALSE
    <3>1. s.obs = done.obs \cup r.obs
      BY <1>5, <1>8, <2>1, <2>2 DEF LoopStates
    <3> QED BY <1>3, <1>6, <2>2, <3>1 DEF Accepted
  <2> QED BY <1>8, <2>1, <2>2
<1>10. /\ s.at = r.at /\ s.obs = done.obs \cup r.obs \cup said /\ s.failed = FALSE
       /\ s.size = IF first THEN got ELSE done.size
  BY <1>5, <1>8, <1>9 DEF LoopStates
<1>11. r.obs = {} /\ said = {}
  BY <1>6, <1>10
<1>12. Stands(m, Elements(e.entries), done.at, done.at + got) /\ AllOk(m, done.at, r.at)
  BY <1>2, <1>3, <1>4, <1>11 DEF Accepted
<1>13. AllOk(m, from + 1, s.at)
  BY <1>1, <1>4, <1>8, <1>10, <1>12 DEF AllOk
<1>14. CASE k = 1
  <2>1. first /\ done.at = from + 1 /\ s.size = got
    BY <1>8, <1>10, <1>14
  <2>2. got # 0 /\ anchored
    BY <1>11, <2>1 DEF said
  <2>3. e.entries[1].tag = m[from + 1].tag
    BY <2>2, LookupIsElements
  <2>4. Alike(Blocks(m), m, e, from + 1, from + 1, got)
    BY <1>12, <2>1, <2>3 DEF Alike, Stands
  <2>5. \A j \in 0..k - 1 : from + 1 + j * got = from + 1 /\ from + 1 + k * got = from + 1 + got
    BY <1>4, <1>14
  <2>6. \A j \in 0..k - 1 : Alike(Blocks(m), m, e, from + 1, from + 1 + j * s.size, s.size)
    BY <2>1, <2>4, <2>5
  <2>7. s.size > 0 /\ s.at = from + 1 + k * s.size
    BY <1>4, <1>10, <1>14, <2>1, <2>2
  <2> QED BY <1>4, <1>10, <1>13, <2>1, <2>6, <2>7
<1>15. CASE k > 1
  <2> DEFINE size == done.size
  <2>1. /\ ~first /\ s.size = size /\ size \in Nat /\ size > 0 /\ done.at = from + 1 + (k - 1) * size
        /\ \A j \in 0..(k - 1) - 1 : Alike(Blocks(m), m, e, from + 1, from + 1 + j * size, size)
    BY <1>8, <1>10, <1>15
  <2>2. got = size /\ other = {}
    BY <1>11, <2>1 DEF said, InStrict
  <2>3. \A i \in 0..size - 1 : m[from + 1 + i].tag = m[done.at + i].tag
    BY <2>2
  <2>4. m[done.at].tag = e.entries[1].tag
    <3>1. Alike(Blocks(m), m, e, from + 1, from + 1 + 0 * size, size)
      BY <1>15, <2>1
    <3>2. m[from + 1].tag = e.entries[1].tag
      BY <2>1, <3>1 DEF Alike
    <3>3. m[from + 1 + 0].tag = m[done.at + 0].tag
      BY <2>1, <2>3
    <3> QED BY <1>1, <3>2, <3>3
  <2>5. Alike(Blocks(m), m, e, from + 1, done.at, size)
    BY <1>12, <2>2, <2>3, <2>4 DEF Alike, Stands
  <2>6. ASSUME NEW j \in 0..k - 1
        PROVE  Alike(Blocks(m), m, e, from + 1, from + 1 + j * size, size)
    <3>1. j = k - 1 \/ j \in 0..(k - 1) - 1
      OBVIOUS
    <3>2. CASE j = k - 1
      BY <2>1, <2>5, <3>2
    <3> QED BY <2>1, <3>1, <3>2
  <2>7. s.at = from + 1 + k * size
    <3>1. (k - 1) * size + size = k * size
      BY <2>1
    <3> HIDE DEF size
    <3> QED BY <1>1, <1>4, <1>10, <2>1, <2>2, <3>1
  <2> HIDE DEF size
  <2> QED BY <1>10, <1>13, <2>1, <2>6, <2>7
<1> QED BY <1>14, <1>15

LEMMA LoopIsGroup ==
  ASSUME NEW m, NEW e, NEW from \in Nat, NEW n \in Nat, n = m[from].n,
         NEW s \in LoopStates(m, from + 1), LoopTold(m, e, from, n, s), s.obs = {}
  PROVE  Group(Blocks(m), m, e, from, s.at)
<1>1. CASE n = 0
  BY <1>1 DEF Group, LoopTold
<1>2. CASE n > 0
  <2> DEFINE size == s.size
  <2>1. /\ size \in Nat /\ size > 0 /\ s.at = from + 1 + n * size
        /\ \A j \in 0..n - 1 : Alike(Blocks(m), m, e, from + 1, from + 1 + j * size, size)
    BY <1>2 DEF LoopTold
  <2>2. (n - 1) * size \in Nat /\ n * size \in Nat /\ (n - 1) * size + size <= n * size
    <3>1. n - 1 \in 0..n - 1
      BY <1>2
    <3> HIDE DEF size
    <3> QED BY <2>1, <3>1, StartsGrow
  <2> HIDE DEF size
  <2>3. size \in 1..s.at - from - 1
    <3> DEFINE a == n * size
               b == (n - 1) * size
    <3>1. a \in Nat /\ b \in Nat /\ b + size <= a /\ s.at = from + 1 + a
      BY <2>1, <2>2
    <3> HIDE DEF a, b
    <3> QED BY <2>1, <3>1
  <2> QED BY <1>2, <2>1, <2>3 DEF Group
<1> QED BY <1>1, <1>2

\* The block that starts with the field or the group of an entry.
LEMMA BlockStarts ==
  ASSUME NEW m, IsMessage(m), NEW left \in SUBSET Entries, NEW e \in left,
         NEW from \in Spots(m), NEW next \in Spots(m), NEW to \in Spots(m), from < next, next <= to,
         e.tag = m[from].tag,
         IF e.isGroup THEN Group(Blocks(m), m, e, from, next) ELSE next = from + 1,
         Stands(m, left \ {e}, next, to)
  PROVE  Stands(m, left, from, to)
<1>1. from \in Nat /\ next \in Nat /\ to \in Nat /\ from # to /\ next \in from + 1..to
  BY SpotsAre
<1>2. Block(Blocks(m), m, left, from, to)
  BY <1>1 DEF Block, Stands
<1> QED BY <1>2, StandsIs

LEMMA GroupTold ==
  ASSUME NEW m, IsMessage(m), NEW c \in Contexts(m), c.at <= Len(m), Placed(c), AcceptedBeyond(m, c.at),
         NEW entry \in c.left, entry.isGroup, entry.tag = m[c.at].tag,
         NEW typed \in Notes
  PROVE  Accepted(m, c, WalkGroup(StrictWalk(m), m, "strict", c, entry, typed))
<1> DEFINE field == m[c.at]
           ends == GroupEnds(m[c.at + 1].tag, c.ends, TagsOf(c.left \ {entry}))
           inner == Context(entry.entries, TRUE, ends, c.at + 1)
           all == Instances(StrictWalk(m), m, "strict", inner, field.n)
           group == all[field.n]
           next == [c EXCEPT !.left = @ \ {entry}, !.at = group.at]
           r == WalkGroup(StrictWalk(m), m, "strict", c, entry, typed)
<1>1. /\ c.at \in Nat /\ c.at \in DOMAIN m /\ c.at \in Spots(m) /\ c.at + 1 \in Spots(m) /\ Len(m) \in Nat
      /\ c.ends \in SUBSET Nat /\ c.left \in SUBSET Entries /\ entry \in Entries
      /\ c.at # Len(m) => c.at + 1 \in DOMAIN m
  BY SpotsAre, ContextParts
<1>2. field.tag \in Nat /\ field.n \in Nat /\ field.ok \in BOOLEAN
  BY <1>1, FieldParts
<1>3. /\ ~field.ok => r.obs # {}
      /\ field.ok /\ c.at = Len(m) => r.obs # {}
  BY DEF WalkGroup, Walked
<1>4. CASE field.ok /\ c.at # Len(m)
  <2>1. m[c.at + 1].tag \in Nat
    BY <1>1, <1>4, FieldParts
  <2>2. ends \in SUBSET Nat
    <3>1. \A e \in c.left : e.tag \in Nat
      BY <1>1, EntryParts
    <3> QED BY <1>1, <2>1, <3>1 DEF GroupEnds, TagsOf
  <2>3. PICK avail : Apart(entry.entries, avail)
    <3>1. PICK around : Apart(c.entries, around)
      BY DEF Placed
    <3>2. PICK i \in DOMAIN c.entries : entry = c.entries[i]
      BY DEF Placed, Elements
    <3> QED BY <3>1, <3>2, ApartIs
  <2>4. entry.entries \in Seq(Entries)
    BY <2>3 DEF Apart
  <2> HIDE DEF ends
  <2>5. /\ inner \in Contexts(m) /\ inner.at = c.at + 1
        /\ inner.entries = entry.entries /\ inner.left = Elements(entry.entries)
    BY <1>1, <2>2, <2>3, <2>4, GroupContext, LookupIsElements DEF Context
  <2>6. LoopsWell(StrictWalk(m), m, "strict", inner, field.n)
    <3>1. GoesBeyond(StrictWalk(m), m, c.at)
      BY WalkIs DEF StrictWalk, GoesBeyond
    <3> HIDE DEF inner
    <3>2. inner.at > c.at
      BY <1>1, <2>5
    <3> QED BY <1>1, <1>2, <2>5, <3>1, <3>2, InstancesAre
  <2>7. r = IF group.failed THEN Walked(group.at, typed \cup group.obs, TRUE)
            ELSE Noted(typed \cup group.obs, StrictWalk(m)[next])
    BY <1>4 DEF WalkGroup, ends
  <2> HIDE DEF inner, r
  <2>8. /\ all[0] = LoopStart(inner)
        /\ \A k \in 0..field.n : all[k] \in LoopStates(m, c.at + 1)
        /\ \A k \in 1..field.n : all[k] = Instance(StrictWalk(m), m, "strict", inner, all[k - 1])
    BY <2>5, <2>6 DEF LoopsWell
  <2> HIDE DEF all
  <2>9. LoopTold(m, entry, c.at, field.n, group)
    <3> DEFINE S == {k \in 0..field.n : LoopTold(m, entry, c.at, k, all[k])}
    <3>1. 0 \in S
      <4>1. LoopTold(m, entry, c.at, 0, LoopStart(inner))
        BY <1>1, <2>5 DEF LoopTold, LoopStart, AllOk
      <4> QED BY <1>2, <2>8, <4>1
    <3>2. ASSUME NEW k \in 1..field.n, k - 1 \in S PROVE k \in S
      <4>1. LoopTold(m, entry, c.at, k - 1, all[k - 1]) /\ all[k - 1] \in LoopStates(m, c.at + 1)
        BY <1>2, <2>8, <3>2
      <4>2. all[k] = Instance(StrictWalk(m), m, "strict", inner, all[k - 1])
        BY <2>8
      <4>3. k \in Nat /\ k > 0 /\ k \in 0..field.n
        BY <1>2
      <4>4. LoopTold(m, entry, c.at, k, Instance(StrictWalk(m), m, "strict", inner, all[k - 1]))
        BY <1>1, <2>3, <2>5, <4>1, <4>3, InstanceTold
      <4> QED BY <4>2, <4>3, <4>4
    <3> HIDE DEF S
    <3>3. \A k \in 0..field.n : k \in S
      BY <1>2, <3>1, <3>2, CountingUp
    <3>4. field.n \in S
      BY <1>2, <3>3
    <3> QED BY <3>4 DEF S
  <2>10. group \in LoopStates(m, c.at + 1)
    BY <1>2, <2>8
  <2> HIDE DEF group
  <2>11. group.at \in Spots(m) /\ group.at \in Nat /\ group.at > c.at /\ group.obs \in Notes
    BY <1>1, <2>10, SpotsAre DEF LoopStates
  <2>12. next \in Contexts(m) /\ next.at = group.at /\ next.left = c.left \ {entry} /\ next.entries = c.entries
    <3>1. c.left \ {entry} \in SUBSET Entries
      BY <1>1
    <3>2. next = Moved(c, c.left \ {entry}, group.at)
      BY DEF Moved
    <3> HIDE DEF next
    <3> QED BY <2>11, <3>1, <3>2, ContextGoesOn
  <2> HIDE DEF next
  <2> DEFINE q == StrictWalk(m)[next]
  <2>13. Accepted(m, next, q) /\ q \in Results(m) /\ q.at >= group.at
    <3>1. Placed(next)
      BY <2>12 DEF Placed
    <3>2. Onward(q, m, next.at)
      BY <2>12, WalkIs DEF StrictWalk
    <3> QED BY <2>11, <2>12, <3>1, <3>2 DEF AcceptedBeyond, Onward
  <2> HIDE DEF q
  <2> SUFFICES ASSUME r.obs = {}
               PROVE  ~r.failed /\ Stands(m, c.left, c.at, r.at) /\ AllOk(m, c.at, r.at)
    BY DEF Accepted, r
  <2>14. group.obs = {} /\ ~group.failed
    <3>1. CASE group.failed
      <4>1. r.obs = typed \cup group.obs
        BY <2>7, <3>1 DEF Walked
      <4> QED BY <2>9, <3>1, <4>1 DEF LoopTold
    <3>2. CASE ~group.failed
      <4>1. r = Noted(typed \cup group.obs, q)
        BY <2>7, <3>2 DEF q
      <4>2. r.obs = typed \cup group.obs \cup q.obs
        <5>1. typed \cup group.obs \in Notes
          BY <2>11 DEF Notes
        <5> QED BY <2>13, <4>1, <5>1, NotedIs
      <4> QED BY <3>2, <4>2
    <3> QED BY <3>1, <3>2
  <2>15. r.obs = typed \cup group.obs \cup q.obs /\ r.at = q.at /\ r.failed = q.failed
    <3>1. r = Noted(typed \cup group.obs, q)
      BY <2>7, <2>14 DEF q
    <3> DEFINE obs == typed \cup group.obs
    <3>2. obs \in Notes
      BY <2>11 DEF Notes
    <3>3. r = Noted(obs, q)
      BY <3>1
    <3> HIDE DEF obs
    <3>4. r.obs = obs \cup q.obs /\ r.at = q.at /\ r.failed = q.failed
      BY <2>13, <3>2, <3>3, NotedIs
    <3> QED BY <3>4 DEF obs
  <2>16. ~q.failed /\ Stands(m, c.left \ {entry}, group.at, q.at) /\ AllOk(m, group.at, q.at)
    BY <2>12, <2>13, <2>15 DEF Accepted
  <2>17. Group(Blocks(m), m, entry, c.at, group.at)
    BY <1>1, <1>2, <2>9, <2>10, <2>14, LoopIsGroup
  <2>18. AllOk(m, c.at, r.at)
    <3>1. AllOk(m, c.at + 1, group.at)
      BY <2>9, <2>14 DEF LoopTold
    <3>2. q.at \in Nat
      BY <2>13, SpotsAre DEF Results
    <3> QED BY <1>1, <1>4, <2>11, <2>15, <2>16, <3>1, <3>2 DEF AllOk
  <2>19. Stands(m, c.left, c.at, r.at)
    <3>1. q.at \in Spots(m)
      BY <2>13 DEF Results
    <3> QED BY <1>1, <2>11, <2>13, <2>15, <2>16, <2>17, <3>1, BlockStarts
  <2> QED BY <2>15, <2>16, <2>18, <2>19
<1> QED BY <1>2, <1>3, <1>4 DEF Accepted

\* What strict validation lets pass is a block, from wherever it starts.
LEMMA StrictIsSound ==
  ASSUME NEW m, IsMessage(m)
  PROVE  \A c \in Contexts(m) : Placed(c) => Accepted(m, c, StrictWalk(m)[c])
<1> DEFINE S == {k \in Nat : \A c \in Contexts(m) :
                   Len(m) + 1 - c.at = k /\ Placed(c) => Accepted(m, c, StrictWalk(m)[c])}
<1>1. ASSUME NEW k \in Nat, \A j \in Nat : j < k => j \in S PROVE k \in S
  <2>1. ASSUME NEW c \in Contexts(m), Len(m) + 1 - c.at = k, Placed(c)
        PROVE  Accepted(m, c, StrictWalk(m)[c])
    <3> DEFINE field == m[c.at]
               entry == CHOOSE e \in c.left : e.tag = field.tag
               expected == field.tag \in TagsOf(c.left)
               known == field.tag \in raw.fields
               stops == (c.isGroup /\ "strict" = "strict") \/ field.tag \in c.ends
               typed == InStrict("strict", IF field.ok THEN {} ELSE {<<"datatype", field.tag>>})
               stray == InStrict("strict", {<<IF known THEN "unexpected" ELSE "unknown", field.tag>>})
               beyond == [c EXCEPT !.at = @ + 1]
               after == [c EXCEPT !.left = @ \ {entry}, !.at = @ + 1]
               r == StrictWalk(m)[c]
    <3>1. r = IF c.at > Len(m) \/ (~expected /\ known /\ stops) THEN Walked(c.at, MissingTags(c), FALSE)
              ELSE IF ~expected THEN Noted(stray, StrictWalk(m)[beyond])
              ELSE IF entry.isGroup THEN WalkGroup(StrictWalk(m), m, "strict", c, entry, typed)
              ELSE Noted(typed, StrictWalk(m)[after])
      <4>1. r = WalkSpec(StrictWalk(m), m, "strict", c)
        BY WalkIs DEF StrictWalk
      <4> HIDE DEF r
      <4> QED BY <4>1 DEF WalkSpec
    <3>2. /\ c.at \in Spots(m) /\ c.at \in Nat /\ Len(m) \in Nat /\ c.left \in SUBSET Entries /\ c.at >= c.at
      BY SpotsAre, ContextParts
    <3>3. AcceptedBeyond(m, c.at)
      <4>1. ASSUME NEW d \in Contexts(m), d.at > c.at, Placed(d) PROVE Accepted(m, d, StrictWalk(m)[d])
        <5>1. d.at \in Nat /\ d.at <= Len(m) + 1
          BY SpotsAre, ContextParts
        <5>2. Len(m) + 1 - d.at \in Nat /\ Len(m) + 1 - d.at < k
          BY <2>1, <3>2, <4>1, <5>1
        <5>3. Len(m) + 1 - d.at \in S
          BY <1>1, <5>2
        <5> QED BY <4>1, <5>3
      <4> QED BY <4>1 DEF AcceptedBeyond
    <3> HIDE DEF S
    <3>4. CASE c.at > Len(m) \/ (~expected /\ known /\ stops)
      <4>1. r = Walked(c.at, MissingTags(c), FALSE)
        BY <3>1, <3>4
      <4> HIDE DEF r
      <4>2. r.at = c.at /\ r.obs = MissingTags(c) /\ r.failed = FALSE
        BY <4>1 DEF Walked
      <4>3. MissingTags(c) = {} => \A e \in c.left : ~e.required
        BY DEF MissingTags
      <4>4. MissingTags(c) = {} => Stands(m, c.left, c.at, c.at)
        <5>1. MissingTags(c) = {} => Block(Blocks(m), m, c.left, c.at, c.at)
          BY <4>3 DEF Block
        <5> QED BY <3>2, <5>1, StandsIs
      <4>5. AllOk(m, c.at, c.at)
        BY <3>2 DEF AllOk
      <4>6. Accepted(m, c, r)
        BY <4>2, <4>4, <4>5 DEF Accepted
      <4> QED BY <4>6 DEF r
    <3>5. CASE ~(c.at > Len(m) \/ (~expected /\ known /\ stops))
      <4>0. c.at <= Len(m)
        BY <3>2, <3>5
      <4>1. /\ field.tag \in Nat /\ field.ok \in BOOLEAN /\ c.at + 1 \in Spots(m) /\ c.at + 1 > c.at
            /\ c.at \in DOMAIN m
        BY <3>2, <4>0, SpotsAre, FieldParts
      <4>2. typed \in Notes /\ stray \in Notes /\ stray # {} /\ (typed = {} => field.ok)
        <5>1. {<<"datatype", field.tag>>} \in Notes
          BY <4>1, NoteIs DEF Kinds
        <5>2. {<<"unexpected", field.tag>>} \in Notes
          BY <4>1, NoteIs DEF Kinds
        <5>3. {<<"unknown", field.tag>>} \in Notes
          BY <4>1, NoteIs DEF Kinds
        <5>4. {} \in Notes
          BY DEF Notes
        <5> HIDE DEF known, field
        <5> QED BY <5>1, <5>2, <5>3, <5>4 DEF InStrict
      <4>3. beyond \in Contexts(m) /\ beyond.at = c.at + 1
        BY <4>1, ContextMoves
      <4>4. /\ after \in Contexts(m) /\ after.at = c.at + 1 /\ after.left = c.left \ {entry}
            /\ after.entries = c.entries
        <5>1. c.left \ {entry} \in SUBSET Entries
          BY <3>2
        <5>2. after = Moved(c, c.left \ {entry}, c.at + 1)
          BY DEF Moved
        <5> HIDE DEF entry, after
        <5> QED BY <4>1, <5>1, <5>2, ContextGoesOn
      <4>5. expected => entry \in c.left /\ entry.tag = field.tag
        BY DEF TagsOf
      <4>6. StrictWalk(m)[beyond] \in Results(m) /\ StrictWalk(m)[after] \in Results(m)
            /\ StrictWalk(m)[after].at >= c.at + 1
        <5> HIDE DEF beyond, after
        <5> QED BY <4>3, <4>4, WalkIs DEF StrictWalk, Onward
      <4> HIDE DEF beyond, after, entry, typed, stray, expected, known, stops, r
      <4>7. CASE ~expected
        <5>1. r = Noted(stray, StrictWalk(m)[beyond])
          BY <3>1, <3>5, <4>7
        <5>2. r.obs # {}
          BY <4>2, <4>6, <5>1, NotedIs
        <5> QED BY <5>2 DEF Accepted, r
      <4>8. CASE expected /\ entry.isGroup
        <5>1. r = WalkGroup(StrictWalk(m), m, "strict", c, entry, typed)
          BY <3>1, <3>5, <4>8
        <5>2. Accepted(m, c, WalkGroup(StrictWalk(m), m, "strict", c, entry, typed))
          BY <2>1, <3>3, <4>0, <4>2, <4>5, <4>8, GroupTold
        <5> QED BY <5>1, <5>2 DEF r
      <4>9. CASE expected /\ ~entry.isGroup
        <5> DEFINE q == StrictWalk(m)[after]
        <5>1. r = Noted(typed, q)
          BY <3>1, <3>5, <4>9
        <5>2. Accepted(m, after, q)
          <6>1. Placed(after)
            BY <2>1, <4>4 DEF Placed
          <6> QED BY <3>3, <4>1, <4>4, <6>1 DEF AcceptedBeyond
        <5> HIDE DEF q
        <5>3. q \in Results(m) /\ q.at >= c.at + 1 /\ q.at \in Spots(m) /\ q.at \in Nat
          BY <4>6, SpotsAre DEF q, Results
        <5>4. r.obs = typed \cup q.obs /\ r.at = q.at /\ r.failed = q.failed
          BY <4>2, <5>1, <5>3, NotedIs
        <5>5. ASSUME r.obs = {}
              PROVE  ~r.failed /\ Stands(m, c.left, c.at, r.at) /\ AllOk(m, c.at, r.at)
          <6>1. ~q.failed /\ Stands(m, c.left \ {entry}, c.at + 1, q.at) /\ AllOk(m, c.at + 1, q.at)
            BY <4>4, <5>2, <5>4, <5>5 DEF Accepted
          <6>2. Stands(m, c.left, c.at, q.at)
            BY <3>2, <4>1, <4>5, <4>9, <5>3, <6>1, BlockStarts
          <6>3. AllOk(m, c.at, q.at)
            BY <3>2, <4>2, <5>3, <5>4, <5>5, <6>1 DEF AllOk
          <6> QED BY <5>4, <6>1, <6>2, <6>3
        <5>6. Accepted(m, c, r)
          BY <5>5 DEF Accepted
        <5> QED BY <5>6 DEF r
      <4> QED BY <4>7, <4>8, <4>9
    <3> QED BY <3>2, <3>4, <3>5
  <2> QED BY <2>1
<1>2. \A k \in Nat : k \in S
  <2> HIDE DEF S
  <2> QED BY <1>1, FromSmaller
<1>3. ASSUME NEW c \in Contexts(m), Placed(c) PROVE Accepted(m, c, StrictWalk(m)[c])
  <2>1. Len(m) + 1 - c.at \in Nat
    BY SpotsAre, ContextParts
  <2>2. Len(m) + 1 - c.at \in S
    BY <1>2, <2>1
  <2> QED BY <1>3, <2>2
<1> QED BY <1>3

-----------------------------------------------------------------------------
(* Completeness: where a block is followed by what may follow it, walkSpec   *)
(* goes to its end and has nothing to say, in either mode.                   *)

\* What is at to ends the context c, once it is there.
Stopping(m, c, to) ==
  to <= Len(m) =>
    /\ m[to].tag \in raw.fields \cap c.ends
    /\ m[to].tag \in TagsOf(c.left) => c.at < to /\ m[to].tag = m[c.at].tag

\* What ends a context is not in the groups it has.
Fitting(c) ==
  /\ c.left \subseteq Elements(c.entries)
  /\ \E avail \in SUBSET raw.fields : Apart(c.entries, avail) /\ c.ends \cap (avail \ Tags(c.entries)) = {}

Complete(m, mode, c, to) ==
  Stands(m, c.left, c.at, to) /\ AllOk(m, c.at, to) /\ Stopping(m, c, to) /\ Fitting(c)
    => Walk(m, mode)[c] = Walked(to, {}, FALSE)
CompleteBeyond(m, mode, at) == \A c \in Contexts(m) : c.at > at => \A to \in Spots(m) : Complete(m, mode, c, to)

\* The last field is not the count of a group.
Closed(m) == Len(m) > 0 /\ m[Len(m)].tag \in Mandatory

\* The loop over instances of one size, after k of them.
Round(from, size, k) ==
  [at |-> from + 1 + k * size, obs |-> {}, failed |-> FALSE, size |-> IF k = 0 THEN -1 ELSE size]

LEMMA FirstPosition ==
  ASSUME NEW list, NEW avail, Apart(list, avail), list # <<>>
  PROVE  Position(list, list[1].tag) = 1 /\ list[1].tag \in Tags(list)
<1>1. list \in Seq(Entries) /\ 1 \in DOMAIN list
  BY DEF Apart
<1>2. list[1].tag \in Tags(list)
  BY <1>1 DEF Tags
<1>3. /\ Position(list, list[1].tag) \in DOMAIN list
      /\ list[Position(list, list[1].tag)].tag = list[1].tag
  BY <1>1, <1>2, LookupFinds
<1> QED BY <1>1, <1>2, <1>3, ApartIs

\* One more instance, k of them in all, that is at at.
OneMore(m, mode, c, e, from, size, k, at) ==
  /\ IsMessage(m) /\ from \in Nat /\ CompleteBeyond(m, mode, from)
  /\ e \in Entries /\ (\E avail : Apart(e.entries, avail)) /\ e.entries # <<>>
  /\ c \in Contexts(m) /\ c.at = from + 1 /\ c.entries = e.entries /\ c.left = Elements(e.entries)
  /\ m[from + 1].tag = e.entries[1].tag
  /\ size \in Nat /\ size > 0 /\ k \in Nat /\ k > 0
  /\ at \in Spots(m) /\ at = from + 1 + (k - 1) * size /\ at > from /\ at + size \in Spots(m)
  /\ Alike(Blocks(m), m, e, from + 1, at, size) /\ AllOk(m, at, at + size)
  /\ Stopping(m, [c EXCEPT !.at = at], at + size) /\ Fitting([c EXCEPT !.at = at])

LEMMA InstanceComplete ==
  ASSUME NEW m, NEW mode, NEW c, NEW e, NEW from, NEW size, NEW k, NEW at,
         OneMore(m, mode, c, e, from, size, k, at)
  PROVE  Instance(Walk(m, mode), m, mode, c, Round(from, size, k - 1)) = Round(from, size, k)
<1> USE DEF OneMore
<1> PICK avail : Apart(e.entries, avail)
  OBVIOUS
<1> DEFINE done == Round(from, size, k - 1)
           here == [c EXCEPT !.at = done.at]
           r == Walk(m, mode)[here]
           got == r.at - done.at
           first == done.size = -1
           anchored == Position(c.entries, m[c.at].tag) = 1
           other == {i \in 0..got - 1 : m[c.at + i].tag # m[done.at + i].tag}
           said == IF first /\ got = 0 THEN {<<"empty", c.at>>}
                   ELSE IF first THEN (IF anchored THEN {} ELSE {<<"delimiter", c.at>>})
                   ELSE InStrict(mode, IF got # done.size THEN {<<"size", done.at>>}
                                       ELSE IF other # {} THEN {<<"order", done.at>>} ELSE {})
           s == Instance(Walk(m, mode), m, mode, c, done)
<1>1. s = IF done.failed \/ done.size = 0 THEN done
          ELSE IF r.failed THEN [done EXCEPT !.at = r.at, !.obs = @ \cup r.obs, !.failed = TRUE]
          ELSE [done EXCEPT !.at = r.at, !.obs = @ \cup r.obs \cup said, !.size = IF first THEN got ELSE @]
  BY DEF Instance
<1>2. done.at = at /\ done.obs = {} /\ done.failed = FALSE /\ done.size = IF k = 1 THEN -1 ELSE size
  BY DEF Round
<1>3. at \in Nat
  BY SpotsAre
<1>4. /\ here \in Contexts(m) /\ here.at = at /\ here.left = Elements(e.entries)
      /\ here = [c EXCEPT !.at = at]
  <2>1. here = [c EXCEPT !.at = at]
    BY <1>2
  <2>2. [c EXCEPT !.at = at].left = c.left
    BY DEF Contexts
  <2> HIDE DEF here
  <2> QED BY <2>1, <2>2, ContextMoves
<1> HIDE DEF here, done
<1>5. r = Walked(at + size, {}, FALSE)
  <2>1. Stands(m, here.left, here.at, at + size)
    BY <1>4 DEF Stands, Alike
  <2>2. AllOk(m, here.at, at + size) /\ Stopping(m, here, at + size) /\ Fitting(here)
    BY <1>4
  <2>3. Complete(m, mode, here, at + size)
    BY <1>4 DEF CompleteBeyond
  <2> QED BY <2>1, <2>2, <2>3 DEF Complete
<1>6. r.at = at + size /\ r.obs = {} /\ r.failed = FALSE
  BY <1>5 DEF Walked
<1> HIDE DEF r
<1>7. got = size
  BY <1>2, <1>3, <1>6
<1> HIDE DEF got
<1>8. said = {}
  <2>1. anchored
    BY FirstPosition
  <2>2. other = {}
    <3>1. \A i \in 0..size - 1 : m[at + i].tag = m[from + 1 + i].tag
      BY DEF Alike
    <3> QED BY <1>2, <1>7, <3>1
  <2>3. ~first => got = done.size
    BY <1>2, <1>7
  <2> HIDE DEF first, anchored, other
  <2> QED BY <1>7, <2>1, <2>2, <2>3 DEF InStrict
<1> HIDE DEF said
<1>9. s = [done EXCEPT !.at = at + size, !.obs = {}, !.size = size]
  <2>1. ~(done.failed \/ done.size = 0)
    BY <1>2
  <2>2. s = [done EXCEPT !.at = r.at, !.obs = @ \cup r.obs \cup said, !.size = IF first THEN got ELSE @]
    BY <1>1, <1>6, <2>1
  <2>3. done.obs \cup r.obs \cup said = {} /\ (IF first THEN got ELSE done.size) = size
    BY <1>2, <1>6, <1>7, <1>8
  <2> HIDE DEF s, first
  <2> QED BY <1>6, <2>2, <2>3
<1>10. at + size = from + 1 + k * size
  <2>1. (k - 1) * size + size = k * size
    OBVIOUS
  <2> DEFINE b == (k - 1) * size
             a == k * size
  <2>2. a \in Int /\ b \in Int /\ b + size = a /\ at = from + 1 + b
    BY <2>1
  <2> HIDE DEF a, b
  <2>3. at + size = from + 1 + a
    BY <2>2
  <2> QED BY <2>3 DEF a
<1>11. s = [at |-> from + 1 + k * size, obs |-> {}, failed |-> FALSE, size |-> size]
  <2> HIDE DEF s
  <2> QED BY <1>9, <1>10 DEF done, Round
<1>12. s = Round(from, size, k)
  <2>1. (IF k = 0 THEN -1 ELSE size) = size
    OBVIOUS
  <2> HIDE DEF s
  <2> QED BY <1>11, <2>1 DEF Round
<1> QED BY <1>12 DEF s, done

\* What is left after an entry with the tag of the field has that tag no more.
LEMMA LeftStops ==
  ASSUME NEW m, NEW c \in Contexts(m), Fitting(c), NEW e \in c.left, e.tag = m[c.at].tag,
         NEW to, Stopping(m, c, to), NEW at
  PROVE  Stopping(m, Moved(c, c.left \ {e}, at), to) /\ Fitting(Moved(c, c.left \ {e}, at))
<1> DEFINE next == Moved(c, c.left \ {e}, at)
<1>1. next.left = c.left \ {e} /\ next.entries = c.entries /\ next.ends = c.ends /\ next.at = at
  BY DEF Moved, Contexts
<1> HIDE DEF next
<1>2. PICK avail \in SUBSET raw.fields :
        c.left \subseteq Elements(c.entries) /\ Apart(c.entries, avail) /\ c.ends \cap (avail \ Tags(c.entries)) = {}
  BY DEF Fitting
<1>3. \A d \in c.left : d.tag = e.tag => d = e
  BY <1>2, LookupIsElements
<1>4. ASSUME to <= Len(m) PROVE m[to].tag \notin TagsOf(next.left)
  BY <1>1, <1>3, <1>4 DEF Stopping, TagsOf
<1>5. Stopping(m, next, to)
  BY <1>1, <1>4 DEF Stopping
<1>6. Fitting(next)
  BY <1>1, <1>2 DEF Fitting
<1> QED BY <1>5, <1>6 DEF next

\* The context of a group's instances fits, and ends where the next one starts
\* and where the group does.
LEMMA InnerFits ==
  ASSUME NEW m, IsMessage(m), NEW c \in Contexts(m), Fitting(c), NEW e \in c.left, e.isGroup,
         NEW tag, tag = e.entries[1].tag, NEW at
  PROVE  /\ e.tag \notin Mandatory /\ e.entries # <<>>
         /\ \E avail : Apart(e.entries, avail)
         /\ Fitting(Context(e.entries, TRUE, GroupEnds(tag, c.ends, TagsOf(c.left \ {e})), at))
<1>1. PICK around \in SUBSET raw.fields :
        c.left \subseteq Elements(c.entries) /\ Apart(c.entries, around) /\ c.ends \cap (around \ Tags(c.entries)) = {}
  BY DEF Fitting
<1>2. PICK i \in DOMAIN c.entries : e = c.entries[i]
  BY <1>1 DEF Elements
<1> DEFINE avail == around \ Tags(c.entries)
           ends == GroupEnds(tag, c.ends, TagsOf(c.left \ {e}))
           inner == Context(e.entries, TRUE, ends, at)
<1>3. e.tag \notin Mandatory /\ e.entries # <<>> /\ Apart(e.entries, avail)
  BY <1>1, <1>2, ApartIs
<1>4. tag \in Tags(e.entries)
  BY <1>3, FirstPosition
<1>5. TagsOf(c.left \ {e}) \subseteq Tags(c.entries)
  BY <1>1 DEF TagsOf, Tags, Elements
<1>6. ends \cap (avail \ Tags(e.entries)) = {}
  BY <1>1, <1>4, <1>5 DEF GroupEnds
<1>7. inner.entries = e.entries /\ inner.ends = ends /\ inner.left = Elements(e.entries)
  BY <1>3, LookupIsElements DEF Context
<1> HIDE DEF inner, ends
<1>8. Fitting(inner)
  <2>1. avail \in SUBSET raw.fields
    OBVIOUS
  <2> HIDE DEF avail
  <2> QED BY <1>3, <1>6, <1>7, <2>1 DEF Fitting
<1> QED BY <1>3, <1>8 DEF inner, ends

\* What an instance is followed by: the next instance, or what ends the group.
LEMMA InnerStops ==
  ASSUME NEW m, IsMessage(m), NEW c \in Contexts(m), Fitting(c), NEW e \in c.left, e.isGroup,
         e.tag = m[c.at].tag,
         NEW to \in Spots(m), Stopping(m, c, to), NEW next \in Spots(m), next > c.at, next <= to,
         Stands(m, c.left \ {e}, next, to),
         NEW tag, tag = e.entries[1].tag, NEW from \in Nat, from < next
  PROVE  Stopping(m, [Context(e.entries, TRUE, GroupEnds(tag, c.ends, TagsOf(c.left \ {e})), c.at + 1) EXCEPT !.at = from],
                  next)
<1>1. PICK around \in SUBSET raw.fields :
        c.left \subseteq Elements(c.entries) /\ Apart(c.entries, around) /\ c.ends \cap (around \ Tags(c.entries)) = {}
  BY DEF Fitting
<1>2. PICK i \in DOMAIN c.entries : e = c.entries[i]
  BY <1>1 DEF Elements
<1> DEFINE avail == around \ Tags(c.entries)
           ends == GroupEnds(tag, c.ends, TagsOf(c.left \ {e}))
           inner == Context(e.entries, TRUE, ends, c.at + 1)
           here == [inner EXCEPT !.at = from]
<1>3. Apart(e.entries, avail)
  BY <1>1, <1>2, ApartIs
<1>4. Tags(e.entries) \subseteq avail /\ Tags(c.entries) \subseteq around
  <2> HIDE DEF avail
  <2> QED BY <1>1, <1>3, ApartIs
<1>5. here.ends = ends /\ here.left = Elements(e.entries)
  BY <1>3, LookupIsElements DEF Context
<1> HIDE DEF here, inner
<1>6. TagsOf(here.left) = Tags(e.entries)
  BY <1>5 DEF TagsOf, Tags, Elements
<1>7. /\ next \in Nat /\ to \in Nat /\ c.left \ {e} \in SUBSET Entries /\ c.at \in Nat /\ c.at \in Spots(m)
  BY SpotsAre, ContextParts
<1>8. SUFFICES ASSUME next <= Len(m)
               PROVE  m[next].tag \in raw.fields /\ m[next].tag \in ends /\ m[next].tag \notin Tags(e.entries)
  BY <1>5, <1>6 DEF Stopping, here, inner
<1>9. CASE next = to
  <2>1. m[to].tag \in raw.fields /\ m[to].tag \in c.ends
    BY <1>8, <1>9 DEF Stopping
  <2> QED BY <1>1, <1>4, <1>9, <2>1 DEF GroupEnds
<1>10. CASE next # to
  <2>1. Block(Blocks(m), m, c.left \ {e}, next, to)
    BY <1>7, StandsIs
  <2>2. PICK d \in c.left \ {e} : d.tag = m[next].tag
    BY <1>10, <2>1 DEF Block
  <2>3. m[next].tag \in TagsOf(c.left \ {e}) /\ m[next].tag \in Tags(c.entries)
    BY <1>1, <2>2 DEF TagsOf, Tags, Elements
  <2> QED BY <1>4, <2>3 DEF GroupEnds
<1> QED BY <1>9, <1>10

LEMMA FittingMoves ==
  ASSUME NEW m, NEW c \in Contexts(m), Fitting(c), NEW at
  PROVE  Fitting([c EXCEPT !.at = at])
<1> DEFINE d == [c EXCEPT !.at = at]
<1>1. d.entries = c.entries /\ d.left = c.left /\ d.ends = c.ends
  BY DEF Contexts
<1> HIDE DEF d
<1>2. Fitting(d)
  BY <1>1 DEF Fitting
<1> QED BY <1>2 DEF d

LEMMA AllOkWithin ==
  ASSUME NEW m, NEW from \in Nat, NEW to \in Nat, AllOk(m, from, to),
         NEW i \in Nat, NEW j \in Nat, from <= i, j <= to
  PROVE  AllOk(m, i, j)
BY DEF AllOk

\* Where the instances of a group lie.
LEMMA StartsIn ==
  ASSUME NEW from \in Nat, NEW n \in Nat, NEW k \in 0..n - 1, NEW size \in Nat, NEW to, to = from + 1 + n * size
  PROVE  /\ from + 1 + k * size \in Nat /\ from + 1 + k * size >= from + 1 /\ from + 1 + k * size + size <= to
         /\ from + 1 + (k + 1) * size = from + 1 + k * size + size
<1> DEFINE a == k * size
           b == n * size
<1>1. a \in Nat /\ b \in Nat /\ a + size <= b
  BY StartsGrow
<1>2. (k + 1) * size = a + size
  OBVIOUS
<1>3. to = from + 1 + b
  OBVIOUS
<1>4. from + 1 + (k + 1) * size = from + 1 + (a + size)
  BY <1>2
<1> HIDE DEF a, b
<1>5. from + 1 + a \in Nat /\ from + 1 + a >= from + 1 /\ from + 1 + a + size <= to
      /\ from + 1 + (a + size) = from + 1 + a + size
  BY <1>1, <1>3
<1> QED BY <1>4, <1>5 DEF a

\* A group that is a block is walked through.
LEMMA GroupComplete ==
  ASSUME NEW m, IsMessage(m), Closed(m), NEW mode, NEW c \in Contexts(m), Fitting(c), c.at <= Len(m),
         CompleteBeyond(m, mode, c.at), NEW e \in c.left, e.isGroup, e.tag = m[c.at].tag,
         NEW to \in Spots(m), Stopping(m, c, to), AllOk(m, c.at, to),
         NEW next \in Spots(m), next > c.at, next <= to,
         Group(Blocks(m), m, e, c.at, next), Stands(m, c.left \ {e}, next, to)
  PROVE  WalkGroup(Walk(m, mode), m, mode, c, e, {}) = Walked(to, {}, FALSE)
<1> DEFINE from == c.at
           n == m[from].n
           tag == m[from + 1].tag
           ends == GroupEnds(tag, c.ends, TagsOf(c.left \ {e}))
           inner == Context(e.entries, TRUE, ends, from + 1)
           all == Instances(Walk(m, mode), m, mode, inner, n)
           group == all[n]
           after == [c EXCEPT !.left = @ \ {e}, !.at = group.at]
<1>1. /\ from \in Nat /\ from \in DOMAIN m /\ from \in Spots(m) /\ from + 1 \in Spots(m) /\ Len(m) \in Nat
      /\ c.ends \in SUBSET Nat /\ c.left \in SUBSET Entries /\ e \in Entries /\ DOMAIN m = 1..Len(m)
      /\ next \in Nat /\ to \in Nat /\ to <= Len(m) + 1
  BY SpotsAre, ContextParts
<1>2. n \in Nat /\ m[from].ok
  BY <1>1, FieldParts DEF AllOk
<1>3. e.tag \notin Mandatory /\ e.entries # <<>> /\ \E avail : Apart(e.entries, avail)
  BY InnerFits
<1>4. PICK avail : Apart(e.entries, avail)
  BY <1>3
<1>5. from # Len(m)
  BY <1>3 DEF Closed
<1>6. tag \in Nat
  BY <1>1, <1>5, FieldParts
<1>7. ends \in SUBSET Nat
  <2>1. \A x \in c.left : x.tag \in Nat
    BY <1>1, EntryParts
  <2> QED BY <1>1, <1>6, <2>1 DEF GroupEnds, TagsOf
<1>8. /\ inner \in Contexts(m) /\ inner.at = from + 1
      /\ inner.entries = e.entries /\ inner.left = Elements(e.entries)
  <2>1. e.entries \in Seq(Entries)
    BY <1>4 DEF Apart
  <2> HIDE DEF ends
  <2> QED BY <1>1, <1>4, <1>7, <2>1, GroupContext, LookupIsElements DEF Context
<1>9. LoopsWell(Walk(m, mode), m, mode, inner, n)
  <2>1. GoesBeyond(Walk(m, mode), m, from)
    BY WalkIs DEF GoesBeyond
  <2> HIDE DEF inner, n
  <2>2. inner.at > from
    BY <1>1, <1>8
  <2> QED BY <1>1, <1>2, <1>8, <2>1, <2>2, InstancesAre
<1>10. WalkGroup(Walk(m, mode), m, mode, c, e, {}) =
         IF group.failed THEN Walked(group.at, {} \cup group.obs, TRUE)
         ELSE Noted({} \cup group.obs, Walk(m, mode)[after])
  BY <1>2, <1>5 DEF WalkGroup
<1>11. all[0] = LoopStart(inner) /\ \A k \in 1..n : all[k] = Instance(Walk(m, mode), m, mode, inner, all[k - 1])
  <2> HIDE DEF inner
  <2> QED BY <1>9 DEF LoopsWell
<1> HIDE DEF all
<1>12. group.at = next /\ group.obs = {} /\ group.failed = FALSE
  <2>1. CASE n = 0
    <3>1. next = from + 1
      BY <2>1 DEF Group
    <3>2. group = LoopStart(inner)
      BY <1>11, <2>1
    <3> HIDE DEF group, inner
    <3> QED BY <1>8, <3>1, <3>2 DEF LoopStart
  <2>2. CASE n > 0
    <3>1. PICK size \in 1..next - from - 1 :
            /\ next = from + 1 + n * size
            /\ \A k \in 0..n - 1 : Alike(Blocks(m), m, e, from + 1, from + 1 + k * size, size)
      BY <2>2 DEF Group
    <3> DEFINE start(k) == from + 1 + k * size
    <3>2. size \in Nat /\ size > 0
      BY <1>1, <3>1
    <3>3. \A k \in 0..n - 1 : /\ start(k) \in Nat /\ start(k) >= from + 1 /\ start(k) + size <= next
                              /\ start(k + 1) = start(k) + size
      <4> HIDE DEF n
      <4>1. from \in Nat /\ n \in Nat /\ next = from + 1 + n * size
        BY <1>1, <1>2, <3>1
      <4> HIDE DEF from
      <4> QED BY <3>2, <4>1, StartsIn
    <3>4. start(0) = from + 1 /\ start(n) = next
      BY <1>1, <1>2, <3>1, <3>2
    <3> HIDE DEF start
    <3>5. \A k \in 0..n - 1 : Alike(Blocks(m), m, e, from + 1, start(k), size)
      BY <3>1 DEF start
    <3>6. tag = e.entries[1].tag
      <4>1. Alike(Blocks(m), m, e, from + 1, start(0), size)
        BY <1>2, <2>2, <3>5
      <4> QED BY <3>4, <4>1 DEF Alike
    <3> HIDE DEF tag, n
    <3> DEFINE S == {k \in 0..n : all[k] = Round(from, size, k)}
    <3>7. 0 \in S
      <4> HIDE DEF inner
      <4>1. LoopStart(inner) = Round(from, size, 0)
        BY <1>1, <1>8, <3>2, <3>4 DEF LoopStart, Round, start
      <4> QED BY <1>2, <1>11, <4>1
    <3>8. ASSUME NEW k \in 1..n, k - 1 \in S PROVE k \in S
      <4> DEFINE at == start(k - 1)
      <4>6. all[k - 1] = Round(from, size, k - 1) /\ all[k] = Instance(Walk(m, mode), m, mode, inner, all[k - 1])
        BY <1>11, <3>8
      <4> HIDE DEF S
      <4>0. k - 1 \in 0..n - 1 /\ k \in Nat /\ k > 0 /\ k \in 0..n /\ (k - 1) + 1 = k
        BY <1>2
      <4>1. /\ at \in Nat /\ at >= from + 1 /\ at + size <= next /\ start(k) = at + size
            /\ Alike(Blocks(m), m, e, from + 1, at, size)
        BY <3>3, <3>5, <4>0
      <4>2. at \in Spots(m) /\ at + size \in Spots(m) /\ at > from /\ at = from + 1 + (k - 1) * size
        <5>1. at = from + 1 + (k - 1) * size
          BY DEF start
        <5> HIDE DEF at
        <5>2. 1 <= at /\ at <= Len(m) + 1 /\ at + size \in Nat /\ at + size <= Len(m) + 1 /\ 1 <= at + size /\ at > from
          BY <1>1, <3>2, <4>1
        <5> QED BY <4>1, <5>1, <5>2, SpotsAre
      <4> HIDE DEF at
      <4>3. AllOk(m, at, at + size)
        <5>1. at >= c.at /\ at + size <= to /\ at \in Nat /\ at + size \in Nat
          BY <1>1, <3>2, <4>1
        <5> QED BY <1>1, <5>1, AllOkWithin
      <4>4. Fitting([inner EXCEPT !.at = at])
        <5>1. Fitting(inner)
          BY <3>6, InnerFits
        <5> HIDE DEF inner
        <5> QED BY <1>8, <5>1, FittingMoves
      <4>5. Stopping(m, [inner EXCEPT !.at = at], at + size)
        <5>1. CASE k = n
          <6>1. at + size = next /\ at < next
            BY <3>2, <3>4, <4>1, <5>1
          <6>2. Stopping(m, [Context(e.entries, TRUE, GroupEnds(tag, c.ends, TagsOf(c.left \ {e})), c.at + 1) EXCEPT !.at = at],
                  next)
            BY <3>6, <4>1, <6>1, InnerStops
          <6> QED BY <6>1, <6>2
        <5>2. CASE k # n
          <6>1. k \in 0..n - 1
            BY <1>2, <5>2
          <6>2. Alike(Blocks(m), m, e, from + 1, at + size, size)
            BY <3>5, <4>1, <6>1
          <6>3. m[at + size].tag = tag /\ m[at].tag = tag
            BY <3>6, <4>1, <6>2 DEF Alike
          <6>4. tag \in raw.fields
            <7>1. PICK around \in SUBSET raw.fields :
                    c.left \subseteq Elements(c.entries) /\ Apart(c.entries, around)
              BY DEF Fitting
            <7>2. Tags(e.entries) \subseteq around
              <8>1. PICK i \in DOMAIN c.entries : e = c.entries[i]
                BY <7>1 DEF Elements
              <8>2. Apart(e.entries, around \ Tags(c.entries))
                BY <7>1, <8>1, ApartIs
              <8>3. Tags(e.entries) \subseteq around \ Tags(c.entries)
                BY <8>2, ApartIs
              <8> QED BY <8>3
            <7>3. tag \in Tags(e.entries)
              BY <1>3, <1>4, <3>6, FirstPosition
            <7> QED BY <7>2, <7>3
          <6>5. tag \in ends
            BY DEF GroupEnds
          <6>6. [inner EXCEPT !.at = at].ends = ends /\ [inner EXCEPT !.at = at].at = at
            BY DEF Context
          <6>7. at < at + size
            BY <3>2, <4>1
          <6> HIDE DEF inner, ends
          <6> QED BY <6>3, <6>4, <6>5, <6>6, <6>7 DEF Stopping
        <5> QED BY <5>1, <5>2
      <4> HIDE DEF inner
      <4>7. Instance(Walk(m, mode), m, mode, inner, Round(from, size, k - 1)) = Round(from, size, k)
        <5>1. m[from + 1].tag = e.entries[1].tag
          BY <3>6 DEF tag
        <5>2. CompleteBeyond(m, mode, from)
          OBVIOUS
        <5> HIDE DEF from
        <5>3. OneMore(m, mode, inner, e, from, size, k, at)
          BY <5>2, <1>1, <1>3, <1>8, <3>2, <4>0, <4>1, <4>2, <4>3, <4>4, <4>5, <5>1 DEF OneMore
        <5> QED BY <5>3, InstanceComplete
      <4> QED BY <4>0, <4>6, <4>7 DEF S
    <3>9. all[n] = Round(from, size, n)
      <4> HIDE DEF S
      <4>1. \A k \in 0..n : k \in S
        BY <1>2, <3>7, <3>8, CountingUp
      <4>2. n \in S
        BY <1>2, <4>1
      <4> QED BY <4>2 DEF S
    <3>10. Round(from, size, n).at = next /\ Round(from, size, n).obs = {} /\ Round(from, size, n).failed = FALSE
      BY <3>1 DEF Round
    <3> QED BY <3>9, <3>10
  <2>3. n = 0 \/ n > 0
    BY <1>2
  <2> QED BY <2>1, <2>2, <2>3
<1> HIDE DEF group, n, inner
<1>13. after = Moved(c, c.left \ {e}, next)
  BY <1>12 DEF Moved
<1>14. Walk(m, mode)[after] = Walked(to, {}, FALSE)
  <2>1. c.left \ {e} \in SUBSET Entries
    BY <1>1
  <2> HIDE DEF after
  <2>2. after \in Contexts(m) /\ after.at = next /\ after.left = c.left \ {e}
    BY <1>13, <2>1, ContextGoesOn
  <2>3. Stopping(m, after, to) /\ Fitting(after)
    BY <1>13, LeftStops
  <2>4. AllOk(m, next, to)
    BY <1>1 DEF AllOk
  <2>5. Complete(m, mode, after, to)
    BY <2>2 DEF CompleteBeyond
  <2> QED BY <2>2, <2>3, <2>4, <2>5 DEF Complete
<1>15. Noted({}, Walked(to, {}, FALSE)) = Walked(to, {}, FALSE)
  BY DEF Noted, Walked
<1> QED BY <1>10, <1>12, <1>14, <1>15

\* A block is walked through, wherever it stands.
LEMMA WalkIsComplete ==
  ASSUME NEW m, IsMessage(m), Closed(m), NEW mode
  PROVE  \A c \in Contexts(m) : \A to \in Spots(m) : Complete(m, mode, c, to)
<1> DEFINE S == {k \in Nat : \A c \in Contexts(m) :
                   Len(m) + 1 - c.at = k => \A to \in Spots(m) : Complete(m, mode, c, to)}
<1>1. ASSUME NEW k \in Nat, \A j \in Nat : j < k => j \in S PROVE k \in S
  <2>1. ASSUME NEW c \in Contexts(m), Len(m) + 1 - c.at = k, NEW to \in Spots(m),
               Stands(m, c.left, c.at, to), AllOk(m, c.at, to), Stopping(m, c, to), Fitting(c)
        PROVE  Walk(m, mode)[c] = Walked(to, {}, FALSE)
    <3> DEFINE field == m[c.at]
               entry == CHOOSE e \in c.left : e.tag = field.tag
               expected == field.tag \in TagsOf(c.left)
               known == field.tag \in raw.fields
               stops == (c.isGroup /\ mode = "strict") \/ field.tag \in c.ends
               typed == InStrict(mode, IF field.ok THEN {} ELSE {<<"datatype", field.tag>>})
               stray == InStrict(mode, {<<IF known THEN "unexpected" ELSE "unknown", field.tag>>})
               beyond == [c EXCEPT !.at = @ + 1]
               after == [c EXCEPT !.left = @ \ {entry}, !.at = @ + 1]
               r == Walk(m, mode)[c]
    <3>1. r = IF c.at > Len(m) \/ (~expected /\ known /\ stops) THEN Walked(c.at, MissingTags(c), FALSE)
              ELSE IF ~expected THEN Noted(stray, Walk(m, mode)[beyond])
              ELSE IF entry.isGroup THEN WalkGroup(Walk(m, mode), m, mode, c, entry, typed)
              ELSE Noted(typed, Walk(m, mode)[after])
      <4>1. r = WalkSpec(Walk(m, mode), m, mode, c)
        BY WalkIs
      <4> HIDE DEF r
      <4> QED BY <4>1 DEF WalkSpec
    <3>2. /\ c.at \in Spots(m) /\ c.at \in Nat /\ Len(m) \in Nat /\ c.left \in SUBSET Entries
          /\ to \in Nat /\ to <= Len(m) + 1
      BY SpotsAre, ContextParts
    <3>3. CompleteBeyond(m, mode, c.at)
      <4>1. ASSUME NEW d \in Contexts(m), d.at > c.at PROVE \A x \in Spots(m) : Complete(m, mode, d, x)
        <5>1. d.at \in Nat /\ d.at <= Len(m) + 1
          BY SpotsAre, ContextParts
        <5>2. Len(m) + 1 - d.at \in Nat /\ Len(m) + 1 - d.at < k
          BY <2>1, <3>2, <4>1, <5>1
        <5>3. Len(m) + 1 - d.at \in S
          BY <1>1, <5>2
        <5> QED BY <5>3
      <4> QED BY <4>1 DEF CompleteBeyond
    <3> HIDE DEF S
    <3>4. Block(Blocks(m), m, c.left, c.at, to)
      BY <2>1, <3>2, StandsIs
    <3>5. CASE c.at = to
      <4>1. \A e \in c.left : ~e.required
        BY <3>4, <3>5 DEF Block
      <4>2. MissingTags(c) = {}
        BY <4>1 DEF MissingTags
      <4>3. to <= Len(m) => ~expected /\ known /\ stops
        BY <2>1, <3>2, <3>5 DEF Stopping
      <4>4. c.at > Len(m) \/ (~expected /\ known /\ stops)
        <5> HIDE DEF expected, known, stops
        <5>1. to > Len(m) \/ to <= Len(m)
          BY <3>2
        <5> QED BY <3>5, <4>3, <5>1
      <4> HIDE DEF r, expected, known, stops
      <4>5. r = Walked(c.at, MissingTags(c), FALSE)
        BY <3>1, <4>4
      <4> QED BY <3>5, <4>2, <4>5 DEF r
    <3>6. CASE c.at # to
      <4>1. PICK e \in c.left, next \in c.at + 1..to :
              /\ e.tag = field.tag
              /\ IF e.isGroup THEN Group(Blocks(m), m, e, c.at, next) ELSE next = c.at + 1
              /\ Stands(m, c.left \ {e}, next, to)
        BY <3>4, <3>6 DEF Block, Stands
      <4>2. /\ next \in Nat /\ next \in Spots(m) /\ next > c.at /\ next <= to /\ c.at <= Len(m)
            /\ c.at + 1 \in Spots(m) /\ c.at \in c.at..to - 1
        BY <3>2, SpotsAre
      <4>3. expected /\ entry = e
        <5>1. \A d \in c.left : d.tag = e.tag => d = e
          BY <2>1, LookupIsElements DEF Fitting
        <5> QED BY <4>1, <5>1 DEF TagsOf
      <4>4. typed = {}
        <5>1. field.ok
          BY <2>1, <4>2 DEF AllOk
        <5> QED BY <5>1 DEF InStrict
      <4>5. ~(c.at > Len(m) \/ (~expected /\ known /\ stops))
        <5> HIDE DEF expected, known, stops
        <5>1. ~(c.at > Len(m))
          BY <3>2, <4>2
        <5> QED BY <4>3, <5>1
      <4>6. Stopping(m, Moved(c, c.left \ {e}, c.at + 1), to) /\ Fitting(Moved(c, c.left \ {e}, c.at + 1))
        BY <2>1, <4>1, LeftStops
      <4>7. after = Moved(c, c.left \ {e}, c.at + 1)
        BY <4>3 DEF Moved
      <4> HIDE DEF r, expected, known, stops, entry, typed, stray, beyond, after
      <4>8. CASE e.isGroup
        <5>1. r = WalkGroup(Walk(m, mode), m, mode, c, e, {})
          BY <3>1, <4>3, <4>4, <4>5, <4>8
        <5>2. Group(Blocks(m), m, e, c.at, next)
          BY <4>1, <4>8
        <5>3. WalkGroup(Walk(m, mode), m, mode, c, e, {}) = Walked(to, {}, FALSE)
          BY <2>1, <3>3, <4>1, <4>2, <4>8, <5>2, GroupComplete
        <5> QED BY <5>1, <5>3 DEF r
      <4>9. CASE ~e.isGroup
        <5>1. r = Noted({}, Walk(m, mode)[after])
          BY <3>1, <4>3, <4>4, <4>5, <4>9
        <5>2. next = c.at + 1
          BY <4>1, <4>9
        <5>3. c.left \ {e} \in SUBSET Entries
          BY <3>2
        <5>4. after \in Contexts(m) /\ after.at = c.at + 1 /\ after.left = c.left \ {e}
          BY <4>2, <4>7, <5>3, ContextGoesOn
        <5>5. AllOk(m, c.at + 1, to)
          BY <2>1, <3>2, <4>2, <5>2, AllOkWithin
        <5>6. Complete(m, mode, after, to)
          BY <3>3, <4>2, <5>2, <5>4 DEF CompleteBeyond
        <5>7. Walk(m, mode)[after] = Walked(to, {}, FALSE)
          BY <4>1, <4>6, <4>7, <5>2, <5>4, <5>5, <5>6 DEF Complete
        <5>8. Noted({}, Walked(to, {}, FALSE)) = Walked(to, {}, FALSE)
          BY DEF Noted, Walked
        <5> QED BY <5>1, <5>7, <5>8 DEF r
      <4> QED BY <4>8, <4>9
    <3> QED BY <3>5, <3>6
  <2>2. \A c \in Contexts(m) : Len(m) + 1 - c.at = k => \A to \in Spots(m) : Complete(m, mode, c, to)
    BY <2>1 DEF Complete
  <2> QED BY <2>2
<1>2. \A k \in Nat : k \in S
  <2> HIDE DEF S
  <2> QED BY <1>1, FromSmaller
<1>3. ASSUME NEW c \in Contexts(m) PROVE \A to \in Spots(m) : Complete(m, mode, c, to)
  <2>1. Len(m) + 1 - c.at \in Nat
    BY SpotsAre, ContextParts
  <2>2. Len(m) + 1 - c.at \in S
    BY <1>2, <2>1
  <2> QED BY <2>2
<1> QED BY <1>3

-----------------------------------------------------------------------------
(* Strict validation of a whole message, header, body and trailer.           *)

Loaded == raw.fields \in SUBSET Nat /\ WellFormed(spec, raw.fields)

ListAt(list, ends, at) == Context(list, FALSE, ends, at)
HeaderAt(type, at) == ListAt(spec.header, Tags(spec.messages[type]) \cup Tags(spec.trailer), at)
BodyAt(type, at) == ListAt(spec.messages[type], Tags(spec.trailer), at)
TrailerAt(at) == ListAt(spec.trailer, {}, at)

LEMMA ListFits ==
  ASSUME NEW list, NEW avail \in SUBSET raw.fields, Apart(list, avail),
         NEW ends \in SUBSET Nat, ends \cap avail = {}, NEW m, NEW at \in Spots(m)
  PROVE  /\ ListAt(list, ends, at) \in Contexts(m)
         /\ ListAt(list, ends, at).at = at /\ ListAt(list, ends, at).ends = ends
         /\ ListAt(list, ends, at).left = Elements(list)
         /\ Placed(ListAt(list, ends, at)) /\ Fitting(ListAt(list, ends, at))
<1> DEFINE c == ListAt(list, ends, at)
<1>1. Lookup(list) = Elements(list)
  BY LookupIsElements
<1>2. c.at = at /\ c.ends = ends /\ c.left = Elements(list) /\ c.entries = list
  BY <1>1 DEF Context, ListAt
<1>3. c \in Contexts(m)
  BY ListContext DEF Apart, ListAt
<1> HIDE DEF c
<1>4. Placed(c)
  BY <1>2 DEF Placed
<1>5. Fitting(c)
  BY <1>2 DEF Fitting
<1> QED BY <1>2, <1>3, <1>4, <1>5 DEF c

LEMMA Lists3 ==
  ASSUME Loaded, NEW type \in DOMAIN spec.messages
  PROVE  /\ Apart(spec.header, raw.fields \ (Tags(spec.messages[type]) \cup Tags(spec.trailer)))
         /\ Apart(spec.messages[type], raw.fields \ (Tags(spec.header) \cup Tags(spec.trailer)))
         /\ Apart(spec.trailer, raw.fields \ Tags(spec.header))
BY DEF Loaded, WellFormed, Apart

LEMMA TopFits ==
  ASSUME Loaded, NEW type \in DOMAIN spec.messages, NEW m, NEW at \in Spots(m)
  PROVE  /\ HeaderAt(type, at) \in Contexts(m) /\ HeaderAt(type, at).at = at
         /\ HeaderAt(type, at).ends = Tags(spec.messages[type]) \cup Tags(spec.trailer)
         /\ HeaderAt(type, at).left = Elements(spec.header)
         /\ Placed(HeaderAt(type, at)) /\ Fitting(HeaderAt(type, at))
         /\ BodyAt(type, at) \in Contexts(m) /\ BodyAt(type, at).at = at
         /\ BodyAt(type, at).ends = Tags(spec.trailer)
         /\ BodyAt(type, at).left = Elements(spec.messages[type])
         /\ Placed(BodyAt(type, at)) /\ Fitting(BodyAt(type, at))
         /\ TrailerAt(at) \in Contexts(m) /\ TrailerAt(at).at = at /\ TrailerAt(at).ends = {}
         /\ TrailerAt(at).left = Elements(spec.trailer)
         /\ Placed(TrailerAt(at)) /\ Fitting(TrailerAt(at))
<1> DEFINE H == Tags(spec.header)
           B == Tags(spec.messages[type])
           T == Tags(spec.trailer)
<1>1. /\ Apart(spec.header, raw.fields \ (B \cup T)) /\ Apart(spec.messages[type], raw.fields \ (H \cup T))
      /\ Apart(spec.trailer, raw.fields \ H)
  BY Lists3
<1>2. H \in SUBSET Nat /\ B \in SUBSET Nat /\ T \in SUBSET Nat
  BY <1>1, TagsAreNumbers DEF Apart
<1> HIDE DEF H, B, T
<1> DEFINE h == raw.fields \ (B \cup T)
           b == raw.fields \ (H \cup T)
           t == raw.fields \ H
<1>3. /\ h \in SUBSET raw.fields /\ (B \cup T) \cap h = {} /\ B \cup T \in SUBSET Nat
      /\ b \in SUBSET raw.fields /\ T \cap b = {}
      /\ t \in SUBSET raw.fields /\ {} \cap t = {} /\ {} \in SUBSET Nat
  BY <1>2
<1> HIDE DEF h, b, t
<1> DEFINE c == ListAt(spec.header, B \cup T, at)
           d == ListAt(spec.messages[type], T, at)
           e == ListAt(spec.trailer, {}, at)
<1>4. /\ c \in Contexts(m) /\ c.at = at /\ c.ends = B \cup T /\ c.left = Elements(spec.header)
      /\ Placed(c) /\ Fitting(c)
  <2> DEFINE ends == B \cup T
  <2> HIDE DEF ends
  <2>1. ends \in SUBSET Nat /\ ends \cap h = {} /\ Apart(spec.header, h) /\ h \in SUBSET raw.fields
    BY <1>1, <1>3 DEF ends, h
  <2>2. c = ListAt(spec.header, ends, at)
    BY DEF ends
  <2> HIDE DEF c
  <2>3. /\ c \in Contexts(m) /\ c.at = at /\ c.ends = ends /\ c.left = Elements(spec.header)
        /\ Placed(c) /\ Fitting(c)
    BY <2>1, <2>2, ListFits
  <2> QED BY <2>3 DEF ends
<1>5. /\ d \in Contexts(m) /\ d.at = at /\ d.ends = T /\ d.left = Elements(spec.messages[type])
      /\ Placed(d) /\ Fitting(d)
  <2>1. Apart(spec.messages[type], b)
    BY <1>1 DEF b
  <2> QED BY <1>2, <1>3, <2>1, ListFits
<1>6. /\ e \in Contexts(m) /\ e.at = at /\ e.ends = {} /\ e.left = Elements(spec.trailer)
      /\ Placed(e) /\ Fitting(e)
  <2>1. Apart(spec.trailer, t)
    BY <1>1 DEF t
  <2> QED BY <1>3, <2>1, ListFits
<1>7. HeaderAt(type, at) = c /\ BodyAt(type, at) = d /\ TrailerAt(at) = e
  BY DEF HeaderAt, BodyAt, TrailerAt, B, T
<1> HIDE DEF c, d, e
<1> QED BY <1>4, <1>5, <1>6, <1>7 DEF B, T

\* FindFrom finds the first field with a tag.
LEMMA FindFromFinds ==
  ASSUME NEW m, IsMessage(m), NEW tag \in Tags(m)
  PROVE  /\ FindFrom(m, tag) + 1 \in DOMAIN m /\ FindFrom(m, tag) \in Nat /\ m[FindFrom(m, tag) + 1].tag = tag
         /\ Get(m, tag) = m[FindFrom(m, tag) + 1]
         /\ \A j \in 1..FindFrom(m, tag) : m[j].tag # tag
<1> DEFINE S == {i \in DOMAIN m : m[i].tag = tag}
<1>0. Len(m) \in Nat /\ DOMAIN m = 1..Len(m)
  BY SpotsAre
<1>1. S \in SUBSET Nat /\ S # {}
  BY <1>0 DEF Tags
<1>2. PICK i \in S : \A j \in S : i <= j
  <2> HIDE DEF S
  <2> QED BY <1>1, LeastElement
<1>3. i \in DOMAIN m /\ m[i].tag = tag /\ \A j \in 1..i - 1 : m[j].tag # tag
  <2>1. ASSUME NEW j \in 1..i - 1 PROVE m[j].tag # tag
    <3>1. j \in DOMAIN m /\ ~(i <= j)
      BY <1>0, <1>2
    <3> QED BY <1>2, <3>1
  <2> QED BY <1>2, <2>1
<1> DEFINE x == CHOOSE k \in DOMAIN m : m[k].tag = tag /\ \A j \in 1..k - 1 : m[j].tag # tag
<1>4. x \in DOMAIN m /\ m[x].tag = tag /\ \A j \in 1..x - 1 : m[j].tag # tag
  BY <1>3
<1>5. FindFrom(m, tag) = x - 1
  BY DEF FindFrom
<1> HIDE DEF x
<1>6. x \in Nat /\ x >= 1 /\ (x - 1) + 1 = x /\ x - 1 \in Nat
  BY <1>0, <1>4
<1> QED BY <1>4, <1>5, <1>6 DEF Get

\* What a message has whose mandatory tags are in place.
LEMMA InPlace ==
  ASSUME NEW m, IsMessage(m), ~Misplaced(m)
  PROVE  /\ Closed(m) /\ m[Len(m)].tag = CheckSum
         /\ \A t \in {BeginString, BodyLength, MsgType, CheckSum} : \E i \in DOMAIN m : Get(m, t) = m[i]
<1>1. HeaderTags \in Seq(Nat) /\ 1 \in DOMAIN HeaderTags /\ 2 \in DOMAIN HeaderTags /\ 3 \in DOMAIN HeaderTags
  BY RoutingAssumption DEF HeaderTags, BeginString, BodyLength, MsgType
<1>2. HeaderTags[1] = BeginString /\ HeaderTags[2] = BodyLength /\ HeaderTags[3] = MsgType
  BY RoutingAssumption DEF HeaderTags, BeginString, BodyLength, MsgType
<1>3. \A t \in {BeginString, BodyLength, MsgType, CheckSum} : FindFrom(m, t) # -1
  BY <1>1, <1>2 DEF Misplaced
<1>4. \A t \in {BeginString, BodyLength, MsgType, CheckSum} : t \in Tags(m)
  BY <1>3 DEF FindFrom
<1>5. \A t \in {BeginString, BodyLength, MsgType, CheckSum} : \E i \in DOMAIN m : Get(m, t) = m[i]
  BY <1>4, FindFromFinds
<1> DEFINE i == FindFrom(m, CheckSum) + 1
<1>6. i \in DOMAIN m /\ FindFrom(m, CheckSum) \in Nat /\ m[i].tag = CheckSum
  BY <1>4, FindFromFinds
<1>7. FindFrom(m, CheckSum) \notin 0..Len(m) - 2
  BY DEF Misplaced
<1>8. i = Len(m) /\ Len(m) > 0
  BY <1>6, <1>7, SpotsAre
<1>9. CheckSum \in Mandatory
  BY DEF Mandatory
<1> QED BY <1>5, <1>6, <1>8, <1>9 DEF Closed

Header(m, mode, type) == Walk(m, mode)[HeaderAt(type, 1)]
Middle(m, mode, type) == Walk(m, mode)[BodyAt(type, Header(m, mode, type).at)]
Trailer(m, mode, type) == Walk(m, mode)[TrailerAt(Middle(m, mode, type).at)]
Sums(m) == {<<"sum", t>> : t \in {u \in {BodyLength, CheckSum} : ~Get(m, u).ok}}

Verdict(m, mode, type) ==
  IF Header(m, mode, type).failed THEN Sums(m) \cup Header(m, mode, type).obs
  ELSE IF Middle(m, mode, type).failed
    THEN Sums(m) \cup Header(m, mode, type).obs \cup Middle(m, mode, type).obs
  ELSE IF Trailer(m, mode, type).failed
    THEN Sums(m) \cup Header(m, mode, type).obs \cup Middle(m, mode, type).obs \cup Trailer(m, mode, type).obs
  ELSE Sums(m) \cup Header(m, mode, type).obs \cup Middle(m, mode, type).obs \cup Trailer(m, mode, type).obs
         \cup (IF Trailer(m, mode, type).at # Len(m) + 1
               THEN {<<"left over", Trailer(m, mode, type).at>>} ELSE {})

LEMMA ValidateIs ==
  ASSUME NEW m, NEW mode, ~Misplaced(m), Get(m, BeginString).ok, Get(m, MsgType).n \in DOMAIN spec.messages
  PROVE  Validate(m, mode) = Verdict(m, mode, Get(m, MsgType).n)
BY DEF Validate, Verdict, Header, Middle, Trailer, HeaderAt, BodyAt, TrailerAt, ListAt, Sums

\* The parts of a message of a type.
Parted(m, type) ==
  \E p \in Spots(m) : \E q \in p..Len(m) + 1 :
    /\ Stands(m, Elements(spec.header), 1, p) /\ Stands(m, Elements(spec.messages[type]), p, q)
    /\ Stands(m, Elements(spec.trailer), q, Len(m) + 1)

LEMMA ConformsIs ==
  ASSUME NEW m
  PROVE  Conforms(m) <=>
           /\ ~Misplaced(m) /\ \A i \in DOMAIN m : m[i].ok
           /\ Get(m, MsgType).n \in DOMAIN spec.messages /\ Parted(m, Get(m, MsgType).n)
BY DEF Conforms, Parted, Stands

LEMMA StrictConforms ==
  ASSUME Loaded, NEW m, IsMessage(m), Validate(m, "strict") = {}
  PROVE  Conforms(m)
<1> DEFINE type == Get(m, MsgType).n
           h == Header(m, "strict", type)
           b == Middle(m, "strict", type)
           t == Trailer(m, "strict", type)
<1>1. ~Misplaced(m)
  BY DEF Validate
<1>2. Get(m, BeginString).ok
  BY <1>1 DEF Validate
<1>3. type \in DOMAIN spec.messages
  <2>1. ASSUME type \notin DOMAIN spec.messages PROVE FALSE
    <3>1. Validate(m, "strict") = Sums(m) \cup {<<"type", 0>>}
      BY <1>1, <1>2, <2>1 DEF Validate, Sums
    <3> QED BY <3>1
  <2> QED BY <2>1
<1> HIDE DEF type
<1>4. Validate(m, "strict") =
        IF h.failed THEN Sums(m) \cup h.obs
        ELSE IF b.failed THEN Sums(m) \cup h.obs \cup b.obs
        ELSE IF t.failed THEN Sums(m) \cup h.obs \cup b.obs \cup t.obs
        ELSE Sums(m) \cup h.obs \cup b.obs \cup t.obs
               \cup (IF t.at # Len(m) + 1 THEN {<<"left over", t.at>>} ELSE {})
  <2>1. Validate(m, "strict") = Verdict(m, "strict", type)
    BY <1>1, <1>2, <1>3, ValidateIs DEF type
  <2> QED BY <2>1 DEF Verdict
<1>5. 1 \in Spots(m) /\ Len(m) \in Nat /\ Len(m) + 1 \in Spots(m)
  BY SpotsAre
<1>6. ASSUME NEW c \in Contexts(m), Placed(c)
      PROVE  Accepted(m, c, Walk(m, "strict")[c]) /\ Onward(Walk(m, "strict")[c], m, c.at)
  <2>1. Accepted(m, c, Walk(m, "strict")[c])
    BY <1>6, StrictIsSound DEF StrictWalk
  <2>2. Onward(Walk(m, "strict")[c], m, c.at)
    BY WalkIs
  <2> QED BY <2>1, <2>2
<1>7. /\ h.obs = {} => ~h.failed /\ Stands(m, Elements(spec.header), 1, h.at) /\ AllOk(m, 1, h.at)
      /\ h.at \in Spots(m)
  <2> DEFINE c == HeaderAt(type, 1)
  <2>1. c \in Contexts(m) /\ c.at = 1 /\ c.left = Elements(spec.header) /\ Placed(c)
    BY <1>3, <1>5, TopFits
  <2> HIDE DEF c
  <2>2. Accepted(m, c, h) /\ Onward(h, m, c.at)
    BY <1>6, <2>1 DEF Header, c
  <2> HIDE DEF h
  <2> QED BY <2>1, <2>2 DEF Accepted, Onward, Results
<1> HIDE DEF h
<1>8. /\ b.obs = {} => ~b.failed /\ Stands(m, Elements(spec.messages[type]), h.at, b.at) /\ AllOk(m, h.at, b.at)
      /\ b.at \in Spots(m) /\ b.at >= h.at
  <2> DEFINE c == BodyAt(type, h.at)
  <2>1. c \in Contexts(m) /\ c.at = h.at /\ c.left = Elements(spec.messages[type]) /\ Placed(c)
    BY <1>3, <1>7, TopFits
  <2> HIDE DEF c
  <2>2. Accepted(m, c, b) /\ Onward(b, m, c.at)
    BY <1>6, <2>1 DEF Middle, c, h
  <2> HIDE DEF b
  <2> QED BY <2>1, <2>2 DEF Accepted, Onward, Results
<1> HIDE DEF b
<1>9. /\ t.obs = {} => ~t.failed /\ Stands(m, Elements(spec.trailer), b.at, t.at) /\ AllOk(m, b.at, t.at)
      /\ t.at \in Spots(m)
  <2> DEFINE c == TrailerAt(b.at)
  <2>1. c \in Contexts(m) /\ c.at = b.at /\ c.left = Elements(spec.trailer) /\ Placed(c)
    BY <1>3, <1>8, TopFits
  <2> HIDE DEF c
  <2>2. Accepted(m, c, t) /\ Onward(t, m, c.at)
    BY <1>6, <2>1 DEF Trailer, c, b
  <2> HIDE DEF t
  <2> QED BY <2>1, <2>2 DEF Accepted, Onward, Results
<1> HIDE DEF t
<1>10. h.obs = {} /\ ~h.failed
  <2>1. h.obs = {}
    BY <1>4
  <2> QED BY <1>7, <2>1
<1>11. b.obs = {} /\ ~b.failed
  <2>1. b.obs = {}
    BY <1>4, <1>10
  <2> QED BY <1>8, <2>1
<1>12. t.obs = {} /\ ~t.failed
  <2>1. t.obs = {}
    BY <1>4, <1>10, <1>11
  <2> QED BY <1>9, <2>1
<1>13. t.at = Len(m) + 1
  BY <1>4, <1>10, <1>11, <1>12
<1>14. h.at \in Nat /\ b.at \in Nat /\ h.at <= Len(m) + 1 /\ b.at <= Len(m) + 1
  BY <1>7, <1>8, SpotsAre
<1>15. \A i \in DOMAIN m : m[i].ok
  <2>1. AllOk(m, 1, h.at) /\ AllOk(m, h.at, b.at) /\ AllOk(m, b.at, Len(m) + 1)
    BY <1>7, <1>8, <1>9, <1>10, <1>11, <1>12, <1>13
  <2>2. ASSUME NEW i \in DOMAIN m PROVE m[i].ok
    <3>1. i \in 1..h.at - 1 \/ i \in h.at..b.at - 1 \/ i \in b.at..Len(m) + 1 - 1
      BY <1>5, <1>14, SpotsAre
    <3> QED BY <2>1, <3>1 DEF AllOk
  <2> QED BY <2>2
<1>16. Parted(m, type)
  <2>1. b.at \in h.at..Len(m) + 1
    BY <1>5, <1>8, <1>14
  <2> QED BY <1>7, <1>8, <1>9, <1>10, <1>11, <1>12, <1>13, <2>1 DEF Parted
<1> QED BY <1>1, <1>3, <1>15, <1>16, ConformsIs DEF type

\* A block that is not empty starts with a tag of its entries.
LEMMA BlockTag ==
  ASSUME NEW m, IsMessage(m), NEW list, list \in Seq(Entries), NEW from \in Spots(m), NEW to \in Spots(m),
         from # to, Stands(m, Elements(list), from, to)
  PROVE  m[from].tag \in Tags(list)
<1>1. Elements(list) \in SUBSET Entries
  BY DEF Elements
<1>2. Block(Blocks(m), m, Elements(list), from, to)
  BY <1>1, StandsIs
<1>3. PICK e \in Elements(list) : e.tag = m[from].tag
  BY <1>2 DEF Block
<1> QED BY <1>3 DEF Elements, Tags

LEMMA ConformingPasses ==
  ASSUME Loaded, NEW m, IsMessage(m), Conforms(m), NEW mode
  PROVE  Validate(m, mode) = {}
<1> DEFINE type == Get(m, MsgType).n
           H == Tags(spec.header)
           B == Tags(spec.messages[type])
           T == Tags(spec.trailer)
<1>1. /\ ~Misplaced(m) /\ (\A i \in DOMAIN m : m[i].ok) /\ type \in DOMAIN spec.messages /\ Parted(m, type)
  BY ConformsIs
<1> HIDE DEF type
<1>2. PICK p \in Spots(m) : \E q \in p..Len(m) + 1 :
        /\ Stands(m, Elements(spec.header), 1, p) /\ Stands(m, Elements(spec.messages[type]), p, q)
        /\ Stands(m, Elements(spec.trailer), q, Len(m) + 1)
  BY <1>1 DEF Parted
<1>0. PICK q \in p..Len(m) + 1 :
        /\ Stands(m, Elements(spec.header), 1, p) /\ Stands(m, Elements(spec.messages[type]), p, q)
        /\ Stands(m, Elements(spec.trailer), q, Len(m) + 1)
  BY <1>2
<1>3. /\ p \in Nat /\ q \in Nat /\ q \in Spots(m) /\ Len(m) \in Nat /\ 1 \in Spots(m) /\ Len(m) + 1 \in Spots(m)
      /\ p <= Len(m) + 1 /\ q <= Len(m) + 1 /\ p <= q /\ 1 <= p /\ DOMAIN m = 1..Len(m)
  BY SpotsAre
<1>4. /\ Apart(spec.header, raw.fields \ (B \cup T)) /\ Apart(spec.messages[type], raw.fields \ (H \cup T))
      /\ Apart(spec.trailer, raw.fields \ H)
  BY <1>1, Lists3
<1>5. /\ B \subseteq raw.fields \ (H \cup T) /\ T \subseteq raw.fields \ H
      /\ spec.messages[type] \in Seq(Entries) /\ spec.trailer \in Seq(Entries)
  <2>1. spec.messages[type] \in Seq(Entries) /\ spec.trailer \in Seq(Entries)
    BY <1>4 DEF Apart
  <2>2. Tags(spec.trailer) \subseteq raw.fields \ H
    <3> HIDE DEF H
    <3> QED BY <1>4, ApartIs
  <2>3. Tags(spec.messages[type]) \subseteq raw.fields \ (H \cup T)
    <3> DEFINE S == raw.fields \ (H \cup T)
    <3>1. Apart(spec.messages[type], S)
      BY <1>4
    <3> HIDE DEF S
    <3>2. Tags(spec.messages[type]) \subseteq S
      BY <3>1, ApartIs
    <3> QED BY <3>2 DEF S
  <2> QED BY <2>1, <2>2, <2>3
<1>6. q <= Len(m) => m[q].tag \in T
  BY <1>0, <1>3, <1>5, BlockTag
<1>7. p # q => m[p].tag \in B
  BY <1>0, <1>3, <1>5, BlockTag
<1> HIDE DEF H, B, T
<1>8. Closed(m) /\ \A t \in {BeginString, BodyLength, MsgType, CheckSum} : Get(m, t).ok
  BY <1>1, InPlace
<1>9. AllOk(m, 1, p) /\ AllOk(m, p, q) /\ AllOk(m, q, Len(m) + 1)
  BY <1>1, <1>3 DEF AllOk
<1>10. ASSUME NEW c \in Contexts(m), NEW to \in Spots(m), Fitting(c), Stands(m, c.left, c.at, to),
              AllOk(m, c.at, to), Stopping(m, c, to)
       PROVE  /\ Walk(m, mode)[c].at = to /\ Walk(m, mode)[c].obs = {} /\ Walk(m, mode)[c].failed = FALSE
  <2>1. Walk(m, mode)[c] = Walked(to, {}, FALSE)
    BY <1>8, <1>10, WalkIsComplete DEF Complete
  <2> QED BY <2>1 DEF Walked
<1> DEFINE h == Header(m, mode, type)
           b == Middle(m, mode, type)
           t == Trailer(m, mode, type)
<1>11. h.at = p /\ h.obs = {} /\ h.failed = FALSE
  <2> DEFINE c == HeaderAt(type, 1)
  <2>1. c \in Contexts(m) /\ c.at = 1 /\ c.left = Elements(spec.header) /\ Fitting(c) /\ c.ends = B \cup T
    BY <1>1, <1>3, TopFits DEF B, T
  <2> HIDE DEF c
  <2>2. TagsOf(c.left) = H
    BY <2>1 DEF TagsOf, Tags, Elements, H
  <2>3. p <= Len(m) => m[p].tag \in B \cup T
    BY <1>3, <1>6, <1>7
  <2>4. Stopping(m, c, p)
    BY <1>5, <2>1, <2>2, <2>3 DEF Stopping
  <2> QED BY <1>0, <1>9, <1>10, <2>1, <2>4 DEF Header, c
<1>12. b.at = q /\ b.obs = {} /\ b.failed = FALSE
  <2> DEFINE c == BodyAt(type, p)
  <2>1. c \in Contexts(m) /\ c.at = p /\ c.left = Elements(spec.messages[type]) /\ Fitting(c) /\ c.ends = T
    BY <1>1, TopFits DEF T
  <2> HIDE DEF c
  <2>2. TagsOf(c.left) = B
    BY <2>1 DEF TagsOf, Tags, Elements, B
  <2>3. Stopping(m, c, q)
    BY <1>5, <1>6, <2>1, <2>2 DEF Stopping
  <2>4. b = Walk(m, mode)[c]
    BY <1>11 DEF Middle, c
  <2> HIDE DEF b
  <2> QED BY <1>0, <1>3, <1>9, <1>10, <2>1, <2>3, <2>4
<1>13. t.at = Len(m) + 1 /\ t.obs = {} /\ t.failed = FALSE
  <2> DEFINE c == TrailerAt(q)
  <2>1. c \in Contexts(m) /\ c.at = q /\ c.left = Elements(spec.trailer) /\ Fitting(c)
    BY <1>1, <1>3, TopFits
  <2> HIDE DEF c
  <2>2. Stopping(m, c, Len(m) + 1)
    BY <1>3 DEF Stopping
  <2>3. t = Walk(m, mode)[c]
    BY <1>12 DEF Trailer, c
  <2> HIDE DEF t
  <2> QED BY <1>0, <1>3, <1>9, <1>10, <2>1, <2>2, <2>3
<1>14. Sums(m) = {}
  BY <1>8 DEF Sums
<1>16. Get(m, BeginString).ok
  BY <1>8
<1>17. Validate(m, mode) =
         IF h.failed THEN Sums(m) \cup h.obs
         ELSE IF b.failed THEN Sums(m) \cup h.obs \cup b.obs
         ELSE IF t.failed THEN Sums(m) \cup h.obs \cup b.obs \cup t.obs
         ELSE Sums(m) \cup h.obs \cup b.obs \cup t.obs
                \cup (IF t.at # Len(m) + 1 THEN {<<"left over", t.at>>} ELSE {})
  <2>1. Validate(m, mode) = Verdict(m, mode, type)
    BY <1>1, <1>16, ValidateIs DEF type
  <2> QED BY <2>1 DEF Verdict
<1> HIDE DEF h, b, t
<1> QED BY <1>11, <1>12, <1>13, <1>14, <1>17

-----------------------------------------------------------------------------
(* Sample: what the loops and the recursion of buildFromEntries make.        *)

Fields == Seq(MsgFields)

LEMMA NewField == ASSUME NEW tag \in Nat, NEW n \in Nat PROVE Field(tag, n) \in MsgFields
BY DEF Field, MsgFields

\* add[<<e, forced>>] is made of fields, for the entries of a list.
Adds(add, entries) == \A i \in DOMAIN entries : \A b \in BOOLEAN : add[<<entries[i], b>>] \in Fields

TurnsWell(add, entries, isGroup) ==
  LET done == AddTurns(add, entries, isGroup) IN
  /\ done[0] = <<>> /\ \A i \in 0..Len(entries) : done[i] \in Fields
  /\ \A i \in 1..Len(entries) : done[i] = done[i - 1] \o add[<<entries[i], Forced(isGroup, i)>>]

LEMMA TurnsAre ==
  ASSUME NEW entries \in Seq(Entries), NEW isGroup \in BOOLEAN, NEW add, Adds(add, entries)
  PROVE  TurnsWell(add, entries, isGroup)
<1> DEFINE n == Len(entries)
           piece(i) == add[<<entries[i], Forced(isGroup, i)>>]
           turn == [p \in (1..n) \X Fields |-> p[2] \o piece(p[1])]
           Loop(d) == d = [i \in 0..n |-> IF i = 0 THEN <<>> ELSE d[i - 1] \o piece(i)]
           done == AddTurns(add, entries, isGroup)
<1>1. n \in Nat /\ <<>> \in Fields
  BY DEF Fields
<1>2. \A i \in 1..n : piece(i) \in Fields
  <2>1. ASSUME NEW i \in 1..n PROVE piece(i) \in Fields
    <3>1. i \in DOMAIN entries /\ Forced(isGroup, i) \in BOOLEAN
      BY DEF Forced
    <3> QED BY <3>1 DEF Adds
  <2> QED BY <2>1
<1> HIDE DEF piece
<1>3. turn \in [(1..n) \X Fields -> Fields]
  BY <1>2 DEF Fields
<1>4. \A i \in 1..n : \A s \in Fields : turn[<<i, s>>] = s \o piece(i)
  OBVIOUS
<1> HIDE DEF turn, n
<1>5. PICK d : LoopOf(d, n, <<>>, turn) /\ d \in [0..n -> Fields]
  BY <1>1, <1>3, Loops
<1>6. Loop(d)
  <2>1. ASSUME NEW i \in 0..n PROVE d[i] = IF i = 0 THEN <<>> ELSE d[i - 1] \o piece(i)
    <3>1. CASE i = 0
      BY <1>5, <3>1 DEF LoopOf
    <3>2. CASE i # 0
      <4>1. i \in 1..n /\ i - 1 \in 0..n
        BY <1>1, <3>2
      <4>2. d[i] = turn[<<i, d[i - 1]>>] /\ d[i - 1] \in Fields
        BY <1>5, <3>2, <4>1 DEF LoopOf
      <4> QED BY <1>4, <3>2, <4>1, <4>2
    <3> QED BY <3>1, <3>2
  <2>2. d = [i \in 0..n |-> d[i]]
    BY <1>5
  <2> QED BY <2>1, <2>2
<1>7. Loop(done)
  BY <1>6 DEF AddTurns, n, piece
<1> HIDE DEF done
<1>8. done[0] = <<>> /\ \A i \in 1..n : done[i] = done[i - 1] \o piece(i)
  <2>1. \A i \in 0..n : done[i] = IF i = 0 THEN <<>> ELSE done[i - 1] \o piece(i)
    BY <1>7
  <2>2. 0 \in 0..n /\ \A i \in 1..n : i \in 0..n /\ i # 0
    BY <1>1
  <2> QED BY <2>1, <2>2
<1> DEFINE S == {i \in 0..n : done[i] \in Fields}
<1>9. \A i \in 0..n : i \in S
  <2>1. 0 \in S
    BY <1>1, <1>8
  <2>2. ASSUME NEW i \in 1..n, i - 1 \in S PROVE i \in S
    <3>1. done[i - 1] \in Fields /\ piece(i) \in Fields
      BY <1>2, <2>2
    <3>2. done[i - 1] \o piece(i) \in Fields
      BY <3>1 DEF Fields
    <3>3. done[i] = done[i - 1] \o piece(i)
      BY <1>8
    <3>4. i \in 0..n
      BY <1>1
    <3> QED BY <3>2, <3>3, <3>4
  <2> HIDE DEF S
  <2> QED BY <1>1, <2>1, <2>2, CountingUp
<1> QED BY <1>8, <1>9 DEF TurnsWell, done, n, piece

RepeatsWell(instance, n) ==
  LET copies == Repeated(instance, n) IN
  /\ copies[0] = <<>> /\ \A k \in 0..n : copies[k] \in Fields
  /\ \A k \in 1..n : copies[k] = copies[k - 1] \o instance

LEMMA RepeatedIs ==
  ASSUME NEW instance \in Fields, NEW n \in Nat
  PROVE  RepeatsWell(instance, n)
<1> DEFINE turn == [p \in (1..n) \X Fields |-> p[2] \o instance]
           Loop(d) == d = [k \in 0..n |-> IF k = 0 THEN <<>> ELSE d[k - 1] \o instance]
           copies == Repeated(instance, n)
<1>1. <<>> \in Fields
  BY DEF Fields
<1>2. turn \in [(1..n) \X Fields -> Fields]
  BY DEF Fields
<1>3. \A i \in 1..n : \A s \in Fields : turn[<<i, s>>] = s \o instance
  OBVIOUS
<1> HIDE DEF turn
<1>4. PICK d : LoopOf(d, n, <<>>, turn) /\ d \in [0..n -> Fields]
  BY <1>1, <1>2, Loops
<1>5. Loop(d)
  <2>1. ASSUME NEW i \in 0..n PROVE d[i] = IF i = 0 THEN <<>> ELSE d[i - 1] \o instance
    <3>1. CASE i = 0
      BY <1>4, <3>1 DEF LoopOf
    <3>2. CASE i # 0
      <4>1. i \in 1..n /\ i - 1 \in 0..n
        BY <3>2
      <4>2. d[i] = turn[<<i, d[i - 1]>>] /\ d[i - 1] \in Fields
        BY <1>4, <3>2, <4>1 DEF LoopOf
      <4> QED BY <1>3, <3>2, <4>1, <4>2
    <3> QED BY <3>1, <3>2
  <2>2. d = [i \in 0..n |-> d[i]]
    BY <1>4
  <2> QED BY <2>1, <2>2
<1>6. Loop(copies)
  BY <1>5 DEF Repeated
<1> HIDE DEF copies
<1>7. copies[0] = <<>> /\ \A i \in 1..n : copies[i] = copies[i - 1] \o instance
  <2>1. \A i \in 0..n : copies[i] = IF i = 0 THEN <<>> ELSE copies[i - 1] \o instance
    BY <1>6
  <2>2. 0 \in 0..n /\ \A i \in 1..n : i \in 0..n /\ i # 0
    OBVIOUS
  <2> QED BY <2>1, <2>2
<1> DEFINE S == {i \in 0..n : copies[i] \in Fields}
<1>8. \A i \in 0..n : i \in S
  <2>1. 0 \in S
    BY <1>1, <1>7
  <2>2. ASSUME NEW i \in 1..n, i - 1 \in S PROVE i \in S
    <3>1. copies[i - 1] \in Fields
      BY <2>2
    <3>2. copies[i - 1] \o instance \in Fields
      BY <3>1 DEF Fields
    <3>3. copies[i] \in Fields
      BY <1>7, <3>2
    <3> QED BY <3>3
  <2> HIDE DEF S
  <2> QED BY <2>1, <2>2, CountingUp
<1> QED BY <1>7, <1>8 DEF RepeatsWell, copies

LEMMA AddAllIs ==
  ASSUME NEW entries \in Seq(Entries), NEW isGroup \in BOOLEAN, NEW add, Adds(add, entries)
  PROVE  AddAll(add, entries, isGroup) \in Fields
<1>1. TurnsWell(add, entries, isGroup)
  BY TurnsAre
<1>2. Len(entries) \in 0..Len(entries)
  OBVIOUS
<1> QED BY <1>1, <1>2 DEF TurnsWell, AddAll

SameOn(f, g, entries) == \A i \in DOMAIN entries : \A b \in BOOLEAN : f[<<entries[i], b>>] = g[<<entries[i], b>>]

LEMMA AddAllAgrees ==
  ASSUME NEW entries \in Seq(Entries), NEW isGroup \in BOOLEAN, NEW f, NEW g,
         Adds(f, entries), Adds(g, entries), SameOn(f, g, entries)
  PROVE  AddAll(f, entries, isGroup) = AddAll(g, entries, isGroup)
<1> DEFINE a == AddTurns(f, entries, isGroup)
           b == AddTurns(g, entries, isGroup)
           n == Len(entries)
           S == {i \in 0..n : a[i] = b[i]}
<1>1. TurnsWell(f, entries, isGroup) /\ TurnsWell(g, entries, isGroup)
  BY TurnsAre
<1>2. /\ a[0] = b[0]
      /\ \A i \in 1..n : a[i] = a[i - 1] \o f[<<entries[i], Forced(isGroup, i)>>]
      /\ \A i \in 1..n : b[i] = b[i - 1] \o g[<<entries[i], Forced(isGroup, i)>>]
  BY <1>1 DEF TurnsWell
<1>3. \A i \in 1..n : f[<<entries[i], Forced(isGroup, i)>>] = g[<<entries[i], Forced(isGroup, i)>>]
  <2>1. \A i \in 1..n : i \in DOMAIN entries /\ Forced(isGroup, i) \in BOOLEAN
    BY DEF Forced
  <2> QED BY <2>1 DEF SameOn
<1>4. n \in Nat
  OBVIOUS
<1> HIDE DEF a, b, n
<1>5. 0 \in S
  BY <1>2, <1>4
<1>6. ASSUME NEW i \in 1..n, i - 1 \in S PROVE i \in S
  <2>1. a[i - 1] = b[i - 1]
    BY <1>6
  <2>2. a[i] = b[i]
    BY <1>2, <1>3, <2>1
  <2>3. i \in 0..n
    BY <1>4
  <2> QED BY <2>2, <2>3
<1>7. \A i \in 0..n : i \in S
  <2> HIDE DEF S
  <2> QED BY <1>4, <1>5, <1>6, CountingUp
<1>8. a[n] = b[n]
  BY <1>4, <1>7
<1> QED BY <1>8 DEF AddAll, a, b, n

Repeats(opts) == \A t \in DOMAIN opts.repeat : opts.repeat[t] \in Nat
Pairs == Entries \X BOOLEAN
TimesOf(opts, e) == IF e.tag \in DOMAIN opts.repeat THEN opts.repeat[e.tag] ELSE 1
Members(add, opts, e) == Repeated(AddAll(add, e.entries, TRUE), TimesOf(opts, e))[TimesOf(opts, e)]

LEMMA AddEntryIs ==
  ASSUME NEW add, NEW opts, NEW e, NEW forced
  PROVE  AddEntry(add, opts, e, forced) =
           IF ~forced /\ ~Wanted(e, opts) THEN <<>>
           ELSE IF ~e.isGroup THEN <<Field(e.tag, 0)>>
           ELSE <<Field(e.tag, IF Members(add, opts, e) = <<>> THEN 0 ELSE TimesOf(opts, e))>> \o Members(add, opts, e)
BY DEF AddEntry, Members, TimesOf

LEMMA MembersAre ==
  ASSUME NEW opts, Repeats(opts), NEW e \in Entries, NEW add, Adds(add, e.entries)
  PROVE  /\ AddAll(add, e.entries, TRUE) \in Fields /\ TimesOf(opts, e) \in Nat
         /\ RepeatsWell(AddAll(add, e.entries, TRUE), TimesOf(opts, e))
         /\ Members(add, opts, e) \in Fields
<1> DEFINE instance == AddAll(add, e.entries, TRUE)
           n == TimesOf(opts, e)
<1>1. instance \in Fields
  <2> DEFINE g == TRUE
  <2>1. g \in BOOLEAN /\ e.entries \in Seq(Entries)
    BY EntryParts
  <2> HIDE DEF g
  <2>2. AddAll(add, e.entries, g) \in Fields
    BY <2>1, AddAllIs
  <2> QED BY <2>2 DEF g
<1>2. n \in Nat
  BY DEF TimesOf, Repeats
<1> HIDE DEF instance, n
<1>3. RepeatsWell(instance, n)
  BY <1>1, <1>2, RepeatedIs
<1>4. Repeated(instance, n)[n] \in Fields
  BY <1>2, <1>3 DEF RepeatsWell
<1> QED BY <1>1, <1>2, <1>3, <1>4 DEF instance, n, Members

LEMMA AddEntryType ==
  ASSUME NEW opts, Repeats(opts), NEW e \in Entries, NEW forced, NEW add, Adds(add, e.entries)
  PROVE  AddEntry(add, opts, e, forced) \in Fields
<1>1. Members(add, opts, e) \in Fields /\ TimesOf(opts, e) \in Nat /\ e.tag \in Nat
  BY MembersAre, EntryParts
<1> DEFINE n == IF Members(add, opts, e) = <<>> THEN 0 ELSE TimesOf(opts, e)
<1>2. n \in Nat
  BY <1>1
<1> HIDE DEF n
<1>3. Field(e.tag, 0) \in MsgFields /\ Field(e.tag, n) \in MsgFields
  BY <1>1, <1>2, NewField
<1>4. <<Field(e.tag, n)>> \o Members(add, opts, e) \in Fields /\ <<Field(e.tag, 0)>> \in Fields /\ <<>> \in Fields
  BY <1>1, <1>3 DEF Fields
<1> QED BY <1>4, AddEntryIs DEF n

LEMMA AddEntryAgrees ==
  ASSUME NEW opts, NEW e \in Entries, NEW forced, NEW f, NEW g,
         Adds(f, e.entries), Adds(g, e.entries), SameOn(f, g, e.entries)
  PROVE  AddEntry(f, opts, e, forced) = AddEntry(g, opts, e, forced)
<1> DEFINE b == TRUE
<1>1. b \in BOOLEAN /\ e.entries \in Seq(Entries)
  BY EntryParts
<1> HIDE DEF b
<1>2. AddAll(f, e.entries, b) = AddAll(g, e.entries, b)
  BY <1>1, AddAllAgrees
<1>3. Members(f, opts, e) = Members(g, opts, e)
  BY <1>2 DEF Members, b
<1> QED BY <1>3, AddEntryIs

LEMMA AddingIs ==
  ASSUME NEW opts, Repeats(opts)
  PROVE  \A c \in Pairs : /\ Adding(opts)[c] = AddEntry(Adding(opts), opts, c[1], c[2])
                          /\ Adding(opts)[c] \in Fields
<1> DEFINE D == Pairs
           rank == [c \in D |-> Depth(c[1].entries)]
           good == [c \in D |-> Fields]
           W == Within(good, D)
           rule == [p \in W \X D |-> AddEntry(p[1], opts, p[2][1], p[2][2])]
<1>0. MaxDepth \in Nat
  BY BoundsAssumption
<1>1. rank \in [D -> Nat] /\ \A c \in D : rank[c] <= MaxDepth
  <2>1. ASSUME NEW c \in D PROVE Depth(c[1].entries) \in 0..MaxDepth
    <3>1. c[1].entries \in Seq(Entries)
      BY EntryParts DEF Pairs
    <3> QED BY <3>1, DepthIs
  <2> QED BY <1>0, <2>1
<1>2. \A c \in D : good[c] # {}
  <2>1. <<>> \in Fields
    BY DEF Fields
  <2> HIDE DEF D
  <2> QED BY <2>1
<1>3. ASSUME NEW f \in W, NEW c \in D PROVE Adds(f, c[1].entries)
  <2>1. c[1] \in Entries /\ c[1].entries \in Seq(Entries)
    BY EntryParts DEF Pairs
  <2>2. \A i \in DOMAIN c[1].entries : \A b \in BOOLEAN : <<c[1].entries[i], b>> \in D
    BY <2>1 DEF Pairs
  <2>3. \A d \in D : f[d] \in Fields
    BY DEF Within
  <2> HIDE DEF D, W
  <2> QED BY <2>2, <2>3 DEF Adds
<1>4. ASSUME NEW f, NEW g, NEW c \in D, SameBelow(f, g, D, rank, rank[c])
      PROVE  SameOn(f, g, c[1].entries)
  <2>1. c[1] \in Entries /\ c[1].entries \in Seq(Entries)
    BY EntryParts DEF Pairs
  <2>2. ASSUME NEW i \in DOMAIN c[1].entries, NEW b \in BOOLEAN
        PROVE  f[<<c[1].entries[i], b>>] = g[<<c[1].entries[i], b>>]
    <3> DEFINE d == <<c[1].entries[i], b>>
    <3>1. d \in D /\ d[1] = c[1].entries[i]
      BY <2>1 DEF Pairs
    <3>2. rank[d] < rank[c]
      <4>1. rank[d] = Depth(c[1].entries[i].entries) /\ rank[c] = Depth(c[1].entries)
        BY <3>1
      <4> HIDE DEF rank, d, D
      <4> QED BY <2>1, <4>1, DepthFalls
    <3> HIDE DEF d, D, rank
    <3> QED BY <1>4, <3>1, <3>2 DEF SameBelow, d
  <2> QED BY <2>2 DEF SameOn
<1> HIDE DEF rank
<1>5. \A f \in W : \A c \in D : rule[<<f, c>>] = AddEntry(f, opts, c[1], c[2])
  <2> HIDE DEF W, D
  <2> QED OBVIOUS
<1>6. RuleIsGood(rule, good, D)
  <2> HIDE DEF rule
  <2>1. ASSUME NEW f \in W, NEW c \in D PROVE rule[<<f, c>>] \in good[c]
    <3>1. Adds(f, c[1].entries)
      BY <1>3
    <3>2. c[1] \in Entries
      BY DEF Pairs
    <3>3. AddEntry(f, opts, c[1], c[2]) \in Fields
      BY <3>1, <3>2, AddEntryType
    <3>4. good[c] = Fields
      OBVIOUS
    <3> HIDE DEF W, D, good
    <3> QED BY <1>5, <3>3, <3>4
  <2> HIDE DEF good, D
  <2> QED BY <2>1 DEF RuleIsGood
<1>7. RuleIsLocal(rule, good, D, rank)
  <2> HIDE DEF rule
  <2>1. ASSUME NEW f \in W, NEW g \in W, NEW c \in D, SameBelow(f, g, D, rank, rank[c])
        PROVE  rule[<<f, c>>] = rule[<<g, c>>]
    <3>1. SameOn(f, g, c[1].entries)
      BY <1>4, <2>1
    <3>2. Adds(f, c[1].entries) /\ Adds(g, c[1].entries)
      BY <1>3
    <3>3. c[1] \in Entries
      BY DEF Pairs
    <3>4. AddEntry(f, opts, c[1], c[2]) = AddEntry(g, opts, c[1], c[2])
      BY <3>1, <3>2, <3>3, AddEntryAgrees
    <3> HIDE DEF W, D
    <3> QED BY <1>5, <3>4
  <2> HIDE DEF good, D
  <2> QED BY <2>1 DEF RuleIsLocal
<1>8. PICK f \in W : Keeps(f, rule, D)
  <2> HIDE DEF rule, good, D
  <2> QED BY <1>0, <1>1, <1>2, <1>6, <1>7, Recursions
<1>9. f = [c \in D |-> AddEntry(f, opts, c[1], c[2])]
  <2> HIDE DEF rule
  <2>1. f = [c \in D |-> f[c]]
    BY DEF Within
  <2>2. \A c \in D : f[c] = AddEntry(f, opts, c[1], c[2])
    BY <1>5, <1>8 DEF Keeps
  <2> HIDE DEF D, W
  <2> QED BY <2>1, <2>2
<1> DEFINE add == Adding(opts)
<1>10. add = [c \in D |-> AddEntry(add, opts, c[1], c[2])]
  BY <1>9 DEF Adding, Pairs
<1> HIDE DEF add, rule
<1>11. \A c \in D : f[c] = add[c]
  <2>1. ASSUME NEW c \in D, SameBelow(f, add, D, rank, rank[c]) PROVE f[c] = add[c]
    <3>1. SameOn(f, add, c[1].entries)
      BY <1>4, <2>1
    <3>2. Adds(f, c[1].entries)
      BY <1>3
    <3>3. Adds(add, c[1].entries)
      BY <3>1, <3>2 DEF SameOn, Adds
    <3>4. c[1] \in Entries
      BY DEF Pairs
    <3>5. AddEntry(f, opts, c[1], c[2]) = AddEntry(add, opts, c[1], c[2])
      BY <3>1, <3>2, <3>3, <3>4, AddEntryAgrees
    <3>6. f[c] = AddEntry(f, opts, c[1], c[2]) /\ add[c] = AddEntry(add, opts, c[1], c[2])
      BY <1>9, <1>10
    <3> QED BY <3>5, <3>6
  <2> HIDE DEF D, W
  <2> QED BY <1>1, <2>1, Unique
<1>12. \A c \in D : f[c] \in Fields
  BY DEF Within
<1>13. \A c \in D : add[c] = AddEntry(add, opts, c[1], c[2])
  <2> HIDE DEF D
  <2> QED BY <1>10
<1> QED BY <1>11, <1>12, <1>13 DEF add

-----------------------------------------------------------------------------
(* Whatever is done to a message, it stays one.                              *)

LEMMA BuildType ==
  ASSUME NEW opts, Repeats(opts), NEW entries \in Seq(Entries)
  PROVE  Build(opts, entries) \in Fields /\ Adds(Adding(opts), entries)
<1> DEFINE add == Adding(opts)
           b == FALSE
<1>1. Adds(add, entries)
  <2>1. \A i \in DOMAIN entries : \A g \in BOOLEAN : <<entries[i], g>> \in Pairs
    BY DEF Pairs
  <2>2. \A c \in Pairs : add[c] \in Fields
    BY AddingIs
  <2> HIDE DEF add
  <2> QED BY <2>1, <2>2 DEF Adds
<1>2. b \in BOOLEAN
  OBVIOUS
<1> HIDE DEF add, b
<1>3. AddAll(add, entries, b) \in Fields
  BY <1>1, <1>2, AddAllIs
<1> QED BY <1>1, <1>3 DEF add, b, Build

LEMMA InsertType ==
  ASSUME NEW m \in Fields, NEW f \in MsgFields, NEW idx \in Int
  PROVE  Insert(m, idx, f) \in Fields
<1>1. CASE idx < 0 \/ idx >= Len(m)
  BY <1>1 DEF Insert, Fields
<1>2. CASE ~(idx < 0 \/ idx >= Len(m))
  <2>1. SubSeq(m, 1, idx) \in Fields /\ SubSeq(m, idx + 1, Len(m)) \in Fields
    BY <1>2 DEF Fields
  <2>2. SubSeq(m, 1, idx) \o <<f>> \o SubSeq(m, idx + 1, Len(m)) \in Fields
    BY <2>1 DEF Fields
  <2> QED BY <1>2, <2>2 DEF Insert
<1> QED BY <1>1, <1>2

LEMMA FindFromType ==
  ASSUME NEW m \in Fields, NEW tag
  PROVE  FindFrom(m, tag) \in Int /\ (tag \notin Tags(m) => FindFrom(m, tag) = -1)
         /\ (tag \in Tags(m) => FindFrom(m, tag) + 1 \in DOMAIN m /\ FindFrom(m, tag) \in Nat)
<1>1. IsMessage(m)
  BY DEF IsMessage, Fields
<1>2. CASE tag \in Tags(m)
  BY <1>1, <1>2, FindFromFinds
<1>3. CASE tag \notin Tags(m)
  BY <1>3 DEF FindFrom
<1> QED BY <1>2, <1>3

\* A field that is put in another's place.
LEMMA ExceptType ==
  ASSUME NEW m \in Fields, NEW f \in MsgFields, NEW i PROVE [m EXCEPT ![i] = f] \in Fields
<1>1. Len(m) \in Nat /\ m \in [1..Len(m) -> MsgFields]
  BY DEF Fields
<1>2. [m EXCEPT ![i] = f] \in [1..Len(m) -> MsgFields]
  BY <1>1
<1> QED BY <1>1, <1>2 DEF Fields

LEMMA SetOrType ==
  ASSUME NEW m \in Fields, NEW f \in MsgFields, NEW idx \in Int
  PROVE  SetOr(m, f, idx) \in Fields
<1>1. CASE f.tag \in Tags(m)
  <2>1. [m EXCEPT ![FindFrom(m, f.tag) + 1] = f] \in Fields
    BY ExceptType
  <2> QED BY <1>1, <2>1 DEF SetOr
<1>2. CASE f.tag \notin Tags(m)
  BY <1>2, InsertType DEF SetOr
<1> QED BY <1>1, <1>2

LEMMA SetInType ==
  ASSUME NEW m \in Fields, NEW f \in MsgFields
  PROVE  SetIn(m, f) \in Fields
<1>1. [m EXCEPT ![FindFrom(m, f.tag) + 1] = f] \in Fields
  BY ExceptType
<1> QED BY <1>1 DEF SetIn

LEMMA TagNumbers ==
  /\ \A n \in Nat : Field(BeginString, n) \in MsgFields /\ Field(BodyLength, n) \in MsgFields
  /\ \A n \in Nat : Field(MsgType, n) \in MsgFields /\ Field(CheckSum, n) \in MsgFields
  /\ \A i \in DOMAIN HeaderTags : HeaderTags[i] \in Nat
<1>1. BeginString \in Nat /\ BodyLength \in Nat /\ MsgType \in Nat /\ CheckSum \in Nat
  BY DEF BeginString, BodyLength, MsgType, CheckSum
<1>2. HeaderTags \in Seq(Nat)
  BY <1>1, RoutingAssumption DEF HeaderTags
<1>3. \A i \in DOMAIN HeaderTags : HeaderTags[i] \in Nat
  BY <1>2
<1> QED BY <1>1, <1>3, NewField

LEMMA FinalizeType == ASSUME NEW m \in Fields PROVE Finalize(m) \in Fields
<1> DEFINE sized == SetOr(m, Field(BodyLength, 0), 1)
<1>1. sized \in Fields
  BY TagNumbers, SetOrType
<1> HIDE DEF sized
<1>2. Len(sized) \in Int
  BY <1>1 DEF Fields
<1>3. SetOr(sized, Field(CheckSum, 0), Len(sized)) \in Fields
  BY <1>1, <1>2, TagNumbers, SetOrType
<1> QED BY <1>3 DEF Finalize, sized

Tagging == [m : Fields, pos : Nat]

LEMMA SalvageTagType ==
  ASSUME NEW tag \in Nat, NEW done \in Tagging
  PROVE  SalvageTag(tag, done) \in Tagging
<1> DEFINE idx == FindFrom(done.m, tag)
           f == Field(tag, 0)
           kept == IF tag \in {BeginString, 52} THEN [done.m EXCEPT ![idx + 1] = f] ELSE done.m
<1>1. done.m \in Fields /\ done.pos \in Nat
  BY DEF Tagging
<1>2. f \in MsgFields
  BY NewField
<1>3. idx \in Int /\ (idx # -1 => idx \in Nat)
  BY <1>1, FindFromType
<1>4. SalvageTag(tag, done) =
        IF idx = -1 THEN [m |-> Insert(done.m, done.pos, f), pos |-> done.pos + 1]
        ELSE [m |-> kept, pos |-> NextPlace(done.pos, idx)]
  BY DEF SalvageTag
<1> HIDE DEF f, idx
<1>5. CASE idx = -1
  <2>1. Insert(done.m, done.pos, f) \in Fields
    BY <1>1, <1>2, InsertType
  <2> QED BY <1>1, <1>4, <1>5, <2>1 DEF Tagging
<1>6. CASE idx # -1
  <2>1. kept \in Fields
    BY <1>1, <1>2, ExceptType
  <2>2. NextPlace(done.pos, idx) \in Nat
    BY <1>1, <1>3, <1>6 DEF NextPlace
  <2> HIDE DEF kept
  <2> QED BY <1>4, <1>6, <2>1, <2>2 DEF Tagging
<1> QED BY <1>5, <1>6

SalvageWell(m) ==
  LET done == SalvageTags(m) IN
  /\ done[0] = [m |-> m, pos |-> 0] /\ \A i \in 0..Len(HeaderTags) : done[i] \in Tagging
  /\ \A i \in 1..Len(HeaderTags) : done[i] = SalvageTag(HeaderTags[i], done[i - 1])

LEMMA SalvageTagsAre == ASSUME NEW m \in Fields PROVE SalvageWell(m)
<1> DEFINE n == Len(HeaderTags)
           first == [m |-> m, pos |-> 0]
           turn == [p \in (1..n) \X Tagging |-> SalvageTag(HeaderTags[p[1]], p[2])]
           Loop(d) == d = [i \in 0..n |-> IF i = 0 THEN first ELSE SalvageTag(HeaderTags[i], d[i - 1])]
           done == SalvageTags(m)
<1>1. n \in Nat /\ (\A i \in 1..n : HeaderTags[i] \in Nat)
  <2>1. HeaderTags \in Seq(Nat)
    BY RoutingAssumption DEF HeaderTags, BeginString, BodyLength, MsgType
  <2> QED BY <2>1
<1>2. first \in Tagging
  BY DEF Tagging
<1>3. \A i \in 1..n : \A s \in Tagging : SalvageTag(HeaderTags[i], s) \in Tagging
  BY <1>1, SalvageTagType
<1> HIDE DEF n, first
<1>4. turn \in [(1..n) \X Tagging -> Tagging]
  BY <1>3
<1>5. \A i \in 1..n : \A s \in Tagging : turn[<<i, s>>] = SalvageTag(HeaderTags[i], s)
  OBVIOUS
<1> HIDE DEF turn
<1>6. PICK d : LoopOf(d, n, first, turn) /\ d \in [0..n -> Tagging]
  BY <1>1, <1>2, <1>4, Loops
<1>7. Loop(d)
  <2>1. ASSUME NEW i \in 0..n PROVE d[i] = IF i = 0 THEN first ELSE SalvageTag(HeaderTags[i], d[i - 1])
    <3>1. CASE i = 0
      BY <1>6, <3>1 DEF LoopOf
    <3>2. CASE i # 0
      <4>1. i \in 1..n /\ i - 1 \in 0..n
        BY <1>1, <3>2
      <4>2. d[i] = turn[<<i, d[i - 1]>>] /\ d[i - 1] \in Tagging
        BY <1>6, <3>2, <4>1 DEF LoopOf
      <4> QED BY <1>5, <3>2, <4>1, <4>2
    <3> QED BY <3>1, <3>2
  <2>2. d = [i \in 0..n |-> d[i]]
    BY <1>6
  <2> QED BY <2>1, <2>2
<1>8. Loop(done)
  BY <1>7 DEF SalvageTags, n, first
<1> HIDE DEF done
<1>9. done[0] = first /\ \A i \in 1..n : done[i] = SalvageTag(HeaderTags[i], done[i - 1])
  <2>1. \A i \in 0..n : done[i] = IF i = 0 THEN first ELSE SalvageTag(HeaderTags[i], done[i - 1])
    BY <1>8
  <2>2. 0 \in 0..n /\ \A i \in 1..n : i \in 0..n /\ i # 0
    BY <1>1
  <2> QED BY <2>1, <2>2
<1> DEFINE S == {i \in 0..n : done[i] \in Tagging}
<1>10. \A i \in 0..n : i \in S
  <2>1. 0 \in S
    BY <1>1, <1>2, <1>9
  <2>2. ASSUME NEW i \in 1..n, i - 1 \in S PROVE i \in S
    <3>1. done[i] \in Tagging
      BY <1>3, <1>9, <2>2
    <3>2. i \in 0..n
      BY <1>1
    <3> QED BY <3>1, <3>2
  <2> HIDE DEF S
  <2> QED BY <1>1, <2>1, <2>2, CountingUp
<1> QED BY <1>9, <1>10 DEF SalvageWell, done, n, first

LEMMA SalvageType == ASSUME NEW m \in Fields PROVE Salvage(m) \in Fields
<1>1. Len(HeaderTags) \in 0..Len(HeaderTags)
  <2>1. HeaderTags \in Seq(Nat)
    BY RoutingAssumption DEF HeaderTags, BeginString, BodyLength, MsgType
  <2> QED BY <2>1
<1>2. SalvageTags(m)[Len(HeaderTags)] \in Tagging
  BY <1>1, SalvageTagsAre DEF SalvageWell
<1>3. SalvageTags(m)[Len(HeaderTags)].m \in Fields
  BY <1>2 DEF Tagging
<1> QED BY <1>3, FinalizeType DEF Salvage

LEMMA SampledType ==
  ASSUME NEW opts, Repeats(opts), Loaded, Body \in DOMAIN spec.messages
  PROVE  Sampled(opts) \in Fields
<1> DEFINE result == Build(opts, spec.header) \o Build(opts, spec.messages[Body]) \o Build(opts, spec.trailer)
           first == SetIn(result, Field(BeginString, 0))
           second == SetIn(first, Field(MsgType, Body))
<1>1. spec.header \in Seq(Entries) /\ spec.messages[Body] \in Seq(Entries) /\ spec.trailer \in Seq(Entries)
  BY DEF Loaded, WellFormed
<1>2. /\ Build(opts, spec.header) \in Fields /\ Build(opts, spec.messages[Body]) \in Fields
      /\ Build(opts, spec.trailer) \in Fields
  BY <1>1, BuildType
<1>3. result \in Fields
  BY <1>2 DEF Fields
<1> HIDE DEF result
<1>4. first \in Fields
  BY <1>3, TagNumbers, SetInType
<1> HIDE DEF first
<1>5. second \in Fields
  <2>1. Body \in Nat
    BY DEF Body
  <2> QED BY <1>4, <2>1, TagNumbers, SetInType
<1> HIDE DEF second
<1>6. Finalize(second) \in Fields
  BY <1>5, FinalizeType
<1> QED BY <1>6 DEF Sampled, result, first, second

LEMMA EditedType ==
  ASSUME NEW m \in Fields, NEW i \in DOMAIN m
  PROVE  Edited(m, i) \subseteq Fields
<1>1. i \in Nat /\ 1 <= i /\ i <= Len(m) /\ Len(m) \in Nat /\ m[i] \in MsgFields
  BY DEF Fields
<1>2. Without(m, i) \in Fields
  <2>1. SubSeq(m, 1, i - 1) \in Fields /\ SubSeq(m, i + 1, Len(m)) \in Fields
    BY <1>1 DEF Fields
  <2> QED BY <2>1 DEF Without, Fields
<1>3. Twice(m, i) \in Fields
  <2>1. SubSeq(m, 1, i) \in Fields /\ SubSeq(m, i, Len(m)) \in Fields
    BY <1>1 DEF Fields
  <2> QED BY <2>1 DEF Twice, Fields
<1>4. i < Len(m) => Swapped(m, i) \in Fields
  <2>1. i < Len(m) => m[i + 1] \in MsgFields
    BY <1>1 DEF Fields
  <2> QED BY <1>1, <2>1 DEF Swapped, Fields
<1>5. ASSUME NEW n \in Nat PROVE [m EXCEPT ![i].n = n] \in Fields
  <2>1. [m[i] EXCEPT !.n = n] \in MsgFields
    BY <1>1 DEF MsgFields
  <2> QED BY <1>1, <2>1 DEF Fields
<1>6. [m EXCEPT ![i].ok = FALSE] \in Fields
  <2>1. [m[i] EXCEPT !.ok = FALSE] \in MsgFields
    BY <1>1 DEF MsgFields
  <2> QED BY <1>1, <2>1 DEF Fields
<1> DEFINE typed == {[m EXCEPT ![i].n = n] : n \in {Heartbeat, Body, Unknown}}
           wrong == {[m EXCEPT ![i].ok = FALSE]}
           counted == {[m EXCEPT ![i].n = n] : n \in Counts}
<1>7. typed \subseteq Fields /\ wrong \subseteq Fields /\ counted \subseteq Fields
  <2>1. \A n \in {Heartbeat, Body, Unknown} \cup Counts : [m EXCEPT ![i].n = n] \in Fields
    BY <1>5, BoundsAssumption DEF Heartbeat, Body, Unknown
  <2>2. typed \subseteq Fields
    BY <2>1
  <2>3. counted \subseteq Fields
    BY <2>1
  <2> QED BY <1>6, <2>2, <2>3
<1>8. Changed(m, i) =
        CASE m[i].tag = MsgType -> typed
          [] m[i].tag \in raw.groups -> wrong \cup counted
          [] OTHER -> wrong
  BY DEF Changed
<1>9. Changed(m, i) \subseteq Fields
  <2> HIDE DEF typed, wrong, counted
  <2> QED BY <1>7, <1>8
<1> QED BY <1>2, <1>3, <1>4, <1>9 DEF Edited

-----------------------------------------------------------------------------
(* Templates: what Sample builds of a list is made of its tags, and stands   *)
(* as a block wherever it occurs.                                            *)

\* A sequence of good fields that have tags of a set.
Made(x, tags) == x \in Fields /\ \A i \in DOMAIN x : x[i].tag \in tags /\ x[i].ok

LEMMA MadeNothing == ASSUME NEW S PROVE Made(<<>>, S)
<1>1. <<>> \in Fields /\ DOMAIN <<>> = {}
  BY DEF Fields
<1> QED BY <1>1 DEF Made

LEMMA MadeMore ==
  ASSUME NEW S, NEW T, S \subseteq T, NEW x, Made(x, S) PROVE Made(x, T)
BY DEF Made

LEMMA MadeJoined ==
  ASSUME NEW S, NEW x, NEW y, Made(x, S), Made(y, S) PROVE Made(x \o y, S)
<1>1. x \in Fields /\ y \in Fields
  BY DEF Made
<1>2. x \o y \in Fields
  BY <1>1 DEF Fields
<1>3. ASSUME NEW i \in DOMAIN (x \o y) PROVE (x \o y)[i].tag \in S /\ (x \o y)[i].ok
  <2>1. /\ Len(x) \in Nat /\ Len(y) \in Nat /\ DOMAIN x = 1..Len(x) /\ DOMAIN y = 1..Len(y)
        /\ DOMAIN (x \o y) = 1..Len(x) + Len(y)
    BY <1>1 DEF Fields
  <2>2. (x \o y)[i] = IF i <= Len(x) THEN x[i] ELSE y[i - Len(x)]
    BY <1>1, <2>1 DEF Fields
  <2>3. CASE i <= Len(x)
    <3>1. i \in DOMAIN x
      BY <2>1, <2>3
    <3> QED BY <2>2, <2>3, <3>1 DEF Made
  <2>4. CASE ~(i <= Len(x))
    <3>1. i - Len(x) \in DOMAIN y
      BY <2>1, <2>4
    <3> QED BY <2>2, <2>4, <3>1 DEF Made
  <2> QED BY <2>3, <2>4
<1> QED BY <1>2, <1>3 DEF Made

PiecesMade(add, list, avail) ==
  \A i \in DOMAIN list : \A b \in BOOLEAN : Made(add[<<list[i], b>>], {list[i].tag} \cup (avail \ Tags(list)))

LEMMA AddAllMade ==
  ASSUME NEW list \in Seq(Entries), NEW avail, Tags(list) \subseteq avail, NEW isGroup \in BOOLEAN,
         NEW add, Adds(add, list), PiecesMade(add, list, avail)
  PROVE  Made(AddAll(add, list, isGroup), avail)
<1> DEFINE done == AddTurns(add, list, isGroup)
           n == Len(list)
           S == {i \in 0..n : Made(done[i], avail)}
<1>1. TurnsWell(add, list, isGroup)
  BY TurnsAre
<1>2. done[0] = <<>> /\ \A i \in 1..n : done[i] = done[i - 1] \o add[<<list[i], Forced(isGroup, i)>>]
  BY <1>1 DEF TurnsWell
<1>3. ASSUME NEW i \in 1..n PROVE Made(add[<<list[i], Forced(isGroup, i)>>], avail)
  <2>1. i \in DOMAIN list /\ Forced(isGroup, i) \in BOOLEAN
    BY DEF Forced
  <2> DEFINE tags == {list[i].tag} \cup (avail \ Tags(list))
  <2>2. tags \subseteq avail
    BY <2>1 DEF Tags
  <2>3. Made(add[<<list[i], Forced(isGroup, i)>>], tags)
    BY <2>1 DEF PiecesMade
  <2> HIDE DEF tags
  <2> QED BY <2>2, <2>3, MadeMore
<1>4. n \in Nat
  OBVIOUS
<1> HIDE DEF done, n
<1>5. 0 \in S
  BY <1>2, <1>4, MadeNothing
<1>6. ASSUME NEW i \in 1..n, i - 1 \in S PROVE i \in S
  <2>1. Made(done[i - 1], avail)
    BY <1>6
  <2>2. Made(done[i - 1] \o add[<<list[i], Forced(isGroup, i)>>], avail)
    BY <1>3, <2>1, MadeJoined
  <2>3. Made(done[i], avail)
    BY <1>2, <2>2
  <2>4. i \in 0..n
    BY <1>4
  <2> QED BY <2>3, <2>4
<1>7. \A i \in 0..n : i \in S
  <2> HIDE DEF S
  <2> QED BY <1>4, <1>5, <1>6, CountingUp
<1>8. Made(done[n], avail)
  BY <1>4, <1>7
<1> QED BY <1>8 DEF AddAll, done, n

LEMMA RepeatedMade ==
  ASSUME NEW x, NEW S, Made(x, S), NEW n \in Nat
  PROVE  Made(Repeated(x, n)[n], S)
<1> DEFINE copies == Repeated(x, n)
           T == {k \in 0..n : Made(copies[k], S)}
<1>1. RepeatsWell(x, n)
  BY RepeatedIs DEF Made
<1>2. copies[0] = <<>> /\ \A k \in 1..n : copies[k] = copies[k - 1] \o x
  BY <1>1 DEF RepeatsWell
<1> HIDE DEF copies
<1>3. 0 \in T
  BY <1>2, MadeNothing
<1>4. ASSUME NEW i \in 1..n, i - 1 \in T PROVE i \in T
  <2>1. Made(copies[i - 1], S)
    BY <1>4
  <2>2. Made(copies[i - 1] \o x, S)
    BY <2>1, MadeJoined
  <2>3. Made(copies[i], S)
    BY <1>2, <2>2
  <2> QED BY <2>3
<1>5. \A i \in 0..n : i \in T
  <2> HIDE DEF T
  <2> QED BY <1>3, <1>4, CountingUp
<1> QED BY <1>5 DEF copies

LEMMA EntryMade ==
  ASSUME NEW opts, Repeats(opts), NEW list, NEW avail, Apart(list, avail), NEW i \in DOMAIN list, NEW b \in BOOLEAN,
         list[i].isGroup => PiecesMade(Adding(opts), list[i].entries, avail \ Tags(list))
  PROVE  Made(Adding(opts)[<<list[i], b>>], {list[i].tag} \cup (avail \ Tags(list)))
<1> DEFINE e == list[i]
           rest == avail \ Tags(list)
           add == Adding(opts)
           times == TimesOf(opts, e)
<1>1. e \in Entries /\ e.tag \in Nat /\ e.entries \in Seq(Entries)
  BY EntryParts DEF Apart
<1>2. add[<<e, b>>] = AddEntry(add, opts, e, b)
  <2> DEFINE c == <<e, b>>
  <2>1. c \in Pairs /\ c[1] = e /\ c[2] = b
    BY <1>1 DEF Pairs
  <2> HIDE DEF c, e, add
  <2>2. add[c] = AddEntry(add, opts, c[1], c[2])
    BY <2>1, AddingIs DEF add
  <2> QED BY <2>1, <2>2 DEF c
<1>3. Adds(add, e.entries)
  BY <1>1, BuildType
<1>4. e.isGroup => Made(Members(add, opts, e), rest)
  <2> SUFFICES ASSUME e.isGroup PROVE Made(Members(add, opts, e), rest)
    OBVIOUS
  <2> DEFINE g == TRUE
  <2>1. Apart(e.entries, rest)
    BY ApartIs
  <2>2. Tags(e.entries) \subseteq rest /\ g \in BOOLEAN /\ PiecesMade(add, e.entries, rest)
    BY <2>1, ApartIs
  <2>3. times \in Nat
    BY <1>1, <1>3, MembersAre
  <2> HIDE DEF e, rest, add, g, times
  <2>4. Made(AddAll(add, e.entries, g), rest)
    BY <1>1, <1>3, <2>2, AddAllMade
  <2>5. Made(Repeated(AddAll(add, e.entries, g), times)[times], rest)
    BY <2>3, <2>4, RepeatedMade
  <2> QED BY <2>5 DEF Members, times, g
<1> DEFINE n == IF Members(add, opts, e) = <<>> THEN 0 ELSE times
           S == {e.tag} \cup rest
<1>5. n \in Nat
  BY <1>1, <1>3, MembersAre
<1> HIDE DEF e, rest, add, times, n
<1>6. ASSUME NEW k \in Nat PROVE Made(<<Field(e.tag, k)>>, S)
  <2>1. Field(e.tag, k) \in MsgFields /\ Field(e.tag, k).tag = e.tag /\ Field(e.tag, k).ok
    BY <1>1, NewField DEF Field
  <2> HIDE DEF S
  <2>2. e.tag \in S
    BY DEF S
  <2> QED BY <2>1, <2>2 DEF Made, Fields
<1>7. e.isGroup => Made(<<Field(e.tag, n)>> \o Members(add, opts, e), S)
  <2>1. e.isGroup => Made(Members(add, opts, e), S)
    BY <1>4, MadeMore
  <2> HIDE DEF S
  <2> QED BY <1>5, <1>6, <2>1, MadeJoined
<1>8. Made(AddEntry(add, opts, e, b), S)
  <2>1. /\ AddEntry(add, opts, e, b) \in {<<>>, <<Field(e.tag, 0)>>, <<Field(e.tag, n)>> \o Members(add, opts, e)}
        /\ ~e.isGroup => AddEntry(add, opts, e, b) \in {<<>>, <<Field(e.tag, 0)>>}
    BY AddEntryIs DEF n, times
  <2>2. 0 \in Nat
    OBVIOUS
  <2> HIDE DEF S
  <2> QED BY <1>6, <1>7, <2>1, <2>2, MadeNothing
<1> QED BY <1>2, <1>8 DEF S, e, rest, add

LEMMA PiecesAreMade ==
  ASSUME NEW opts, Repeats(opts)
  PROVE  \A list, avail : Apart(list, avail) => PiecesMade(Adding(opts), list, avail)
<1> DEFINE Here(list) == \A avail : Apart(list, avail) => PiecesMade(Adding(opts), list, avail)
           S == {n \in Nat : \A list \in Seq(Entries) : Depth(list) = n => Here(list)}
<1>1. ASSUME NEW n \in Nat, \A k \in Nat : k < n => k \in S PROVE n \in S
  <2> SUFFICES ASSUME NEW list \in Seq(Entries), Depth(list) = n, NEW avail, Apart(list, avail)
               PROVE  PiecesMade(Adding(opts), list, avail)
    OBVIOUS
  <2>1. ASSUME NEW i \in DOMAIN list, list[i].isGroup
        PROVE  PiecesMade(Adding(opts), list[i].entries, avail \ Tags(list))
    <3>1. Apart(list[i].entries, avail \ Tags(list))
      BY <2>1, ApartIs
    <3>2. list[i].entries \in Seq(Entries) /\ Depth(list[i].entries) \in Nat /\ Depth(list[i].entries) < n
      BY DepthFalls
    <3>3. Here(list[i].entries)
      BY <1>1, <3>2
    <3> QED BY <3>1, <3>3
  <2>2. \A i \in DOMAIN list : \A b \in BOOLEAN :
          Made(Adding(opts)[<<list[i], b>>], {list[i].tag} \cup (avail \ Tags(list)))
    BY <2>1, EntryMade
  <2> QED BY <2>2 DEF PiecesMade
<1>2. \A n \in Nat : n \in S
  <2> HIDE DEF S
  <2> QED BY <1>1, FromSmaller
<1>3. ASSUME NEW list, NEW avail, Apart(list, avail) PROVE PiecesMade(Adding(opts), list, avail)
  <2>1. list \in Seq(Entries)
    BY <1>3 DEF Apart
  <2>2. Depth(list) \in Nat
    BY <2>1, DepthIs, BoundsAssumption
  <2>3. Here(list)
    BY <1>2, <2>1, <2>2
  <2> QED BY <1>3, <2>3
<1> QED BY <1>3

LEMMA BuildMade ==
  ASSUME NEW opts, Repeats(opts), NEW list, NEW avail, Apart(list, avail)
  PROVE  Made(Build(opts, list), avail)
<1> DEFINE add == Adding(opts)
           b == FALSE
<1>1. list \in Seq(Entries) /\ Tags(list) \subseteq avail /\ b \in BOOLEAN
  BY ApartIs DEF Apart
<1>2. Adds(add, list) /\ PiecesMade(add, list, avail)
  BY <1>1, BuildType, PiecesAreMade
<1> HIDE DEF add, b
<1>3. Made(AddAll(add, list, b), avail)
  BY <1>1, <1>2, AddAllMade
<1> QED BY <1>3 DEF Build, add, b

\* Where a sequence of fields is in a message.  Of a mandatory field the number
\* may be another: it is no group, and MsgType's is set after Build.
Occurs(m, at, x) ==
  /\ at \in Nat /\ 1 <= at /\ at + Len(x) <= Len(m) + 1
  /\ \A j \in 1..Len(x) : /\ m[at + j - 1].tag = x[j].tag
                          /\ x[j].tag \notin Mandatory => m[at + j - 1].n = x[j].n

LEMMA OccursSplit ==
  ASSUME NEW m, IsMessage(m), NEW x \in Fields, NEW y \in Fields, NEW at, Occurs(m, at, x \o y)
  PROVE  Occurs(m, at, x) /\ Occurs(m, at + Len(x), y)
<1> DEFINE z == x \o y
<1>1. /\ Len(x) \in Nat /\ Len(y) \in Nat /\ Len(z) = Len(x) + Len(y) /\ at \in Nat /\ Len(m) \in Nat
      /\ \A j \in 1..Len(x) : z[j] = x[j]
      /\ \A j \in 1..Len(y) : z[Len(x) + j] = y[j]
  BY SpotsAre DEF Fields, Occurs
<1>2. /\ 1 <= at /\ at + Len(z) <= Len(m) + 1
      /\ \A j \in 1..Len(z) : /\ m[at + j - 1].tag = z[j].tag
                              /\ z[j].tag \notin Mandatory => m[at + j - 1].n = z[j].n
  BY DEF Occurs
<1> HIDE DEF z
<1>3. \A j \in 1..Len(x) : j \in 1..Len(z)
  BY <1>1
<1>4. Occurs(m, at, x)
  BY <1>1, <1>2, <1>3 DEF Occurs
<1>5. ASSUME NEW j \in 1..Len(y)
      PROVE  /\ m[at + Len(x) + j - 1].tag = y[j].tag
             /\ y[j].tag \notin Mandatory => m[at + Len(x) + j - 1].n = y[j].n
  <2> DEFINE k == Len(x) + j
  <2>1. k \in 1..Len(z) /\ at + Len(x) + j - 1 = at + k - 1 /\ z[k] = y[j]
    BY <1>1
  <2> HIDE DEF k
  <2> QED BY <1>2, <2>1
<1>6. at + Len(x) \in Nat /\ 1 <= at + Len(x) /\ at + Len(x) + Len(y) <= Len(m) + 1
  BY <1>1, <1>2
<1> QED BY <1>4, <1>5, <1>6 DEF Occurs

LEMMA OccursSpots ==
  ASSUME NEW m, IsMessage(m), NEW x \in Fields, NEW at, Occurs(m, at, x)
  PROVE  at \in Spots(m) /\ at + Len(x) \in Spots(m) /\ at \in Nat /\ Len(x) \in Nat
<1>1. Len(x) \in Nat /\ at \in Nat /\ 1 <= at /\ at + Len(x) <= Len(m) + 1
  BY DEF Occurs, Fields
<1> QED BY <1>1, SpotsAre

\* A block may leave out one more entry that is optional.
Optional(m, e, n) ==
  \A S \in SUBSET Entries : \A from, to \in Spots(m) :
    from + n = to /\ e \notin S /\ Stands(m, S, from, to) => Stands(m, S \cup {e}, from, to)

LEMMA OptionalHere ==
  ASSUME NEW m, IsMessage(m), NEW e \in Entries, ~e.required, NEW n \in Nat,
         \A k \in Nat : k < n => Optional(m, e, k)
  PROVE  Optional(m, e, n)
<1> SUFFICES ASSUME NEW S \in SUBSET Entries, NEW from \in Spots(m), NEW to \in Spots(m), from + n = to,
                    e \notin S, Stands(m, S, from, to)
             PROVE  Stands(m, S \cup {e}, from, to)
  BY DEF Optional
<1>0. S \cup {e} \in SUBSET Entries /\ from \in Nat /\ to \in Nat
  BY SpotsAre
<1>1. Block(Blocks(m), m, S, from, to)
  BY StandsIs
<1>2. CASE from = to
  <2>1. Block(Blocks(m), m, S \cup {e}, from, to)
    BY <1>1, <1>2 DEF Block
  <2> QED BY <1>0, <2>1, StandsIs
<1>3. CASE from # to
  <2>1. PICK d \in S : d.tag = m[from].tag /\ \E next \in from + 1..to :
          /\ IF d.isGroup THEN Group(Blocks(m), m, d, from, next) ELSE next = from + 1
          /\ Stands(m, S \ {d}, next, to)
    BY <1>1, <1>3 DEF Block, Stands
  <2>2. PICK next \in from + 1..to :
          /\ IF d.isGroup THEN Group(Blocks(m), m, d, from, next) ELSE next = from + 1
          /\ Stands(m, S \ {d}, next, to)
    BY <2>1
  <2>3. next \in Nat /\ next \in Spots(m) /\ from < next /\ next <= to /\ to - next \in Nat
        /\ to - next < n /\ next + (to - next) = to
    BY <1>0, SpotsAre
  <2>4. S \ {d} \in SUBSET Entries /\ e \notin S \ {d} /\ (S \cup {e}) \ {d} = (S \ {d}) \cup {e} /\ d \in S \cup {e}
    OBVIOUS
  <2> DEFINE k == to - next
             R == S \ {d}
             T == S \cup {e}
  <2>5. Optional(m, e, k)
    BY <2>3
  <2>6. Stands(m, R, next, to) /\ R \in SUBSET Entries /\ e \notin R /\ next + k = to /\ T \ {d} = R \cup {e}
    BY <2>2, <2>3, <2>4
  <2>7. T \in SUBSET Entries /\ d \in T
    BY <1>0
  <2> HIDE DEF k, R, T
  <2>8. Stands(m, R \cup {e}, next, to)
    BY <2>3, <2>5, <2>6 DEF Optional
  <2>9. Stands(m, T, from, to)
    BY <2>1, <2>2, <2>3, <2>6, <2>7, <2>8, BlockStarts
  <2> QED BY <2>9 DEF T
<1> QED BY <1>2, <1>3

LEMMA OptionalLeft ==
  ASSUME NEW m, IsMessage(m), NEW e \in Entries, ~e.required, NEW S \in SUBSET Entries, e \notin S,
         NEW from \in Spots(m), NEW to \in Spots(m), from <= to, Stands(m, S, from, to)
  PROVE  Stands(m, S \cup {e}, from, to)
<1> DEFINE N == {n \in Nat : Optional(m, e, n)}
<1>1. ASSUME NEW n \in Nat, \A k \in Nat : k < n => k \in N PROVE n \in N
  BY <1>1, OptionalHere
<1>2. \A n \in Nat : n \in N
  <2> HIDE DEF N
  <2> QED BY <1>1, FromSmaller
<1> DEFINE n == to - from
<1>3. n \in Nat /\ from + n = to
  BY SpotsAre
<1> HIDE DEF n
<1>4. Optional(m, e, n)
  BY <1>2, <1>3
<1> QED BY <1>3, <1>4 DEF Optional

\* What an entry added, at a place of a message.
EntryTold(m, e, x, at) ==
  IF x = <<>> THEN ~e.required
  ELSE x[1].tag = e.tag /\ (IF e.isGroup THEN Group(Blocks(m), m, e, at, at + Len(x)) ELSE Len(x) = 1)

EntriesTold(m, add, list) ==
  \A i \in DOMAIN list : \A b \in BOOLEAN : \A at :
    Occurs(m, at, add[<<list[i], b>>]) => EntryTold(m, list[i], add[<<list[i], b>>], at)

LEMMA RestStands ==
  ASSUME NEW m, IsMessage(m), NEW S \in SUBSET Entries, NEW e \in Entries, e \notin S, NEW x \in Fields,
         NEW at, Occurs(m, at, x), EntryTold(m, e, x, at),
         NEW to \in Spots(m), at + Len(x) <= to, Stands(m, S, at + Len(x), to)
  PROVE  Stands(m, S \cup {e}, at, to)
<1> DEFINE next == at + Len(x)
           T == S \cup {e}
<1>1. at \in Spots(m) /\ next \in Spots(m) /\ at \in Nat /\ Len(x) \in Nat /\ next \in Nat
  BY OccursSpots, SpotsAre
<1>2. CASE x = <<>>
  <2>1. next = at /\ ~e.required /\ at <= to
    BY <1>1, <1>2 DEF EntryTold
  <2> QED BY <1>1, <2>1, OptionalLeft
<1>3. CASE x # <<>>
  <2>1. Len(x) >= 1 /\ x[1].tag = e.tag
        /\ IF e.isGroup THEN Group(Blocks(m), m, e, at, next) ELSE Len(x) = 1
    BY <1>1, <1>3 DEF EntryTold, Fields
  <2>2. 1 \in 1..Len(x) /\ at + 1 - 1 = at
    BY <1>1, <2>1
  <2>3. m[at].tag = e.tag
    <3>1. m[at + 1 - 1].tag = x[1].tag
      BY <2>2 DEF Occurs
    <3> QED BY <2>1, <2>2, <3>1
  <2>4. IF e.isGroup THEN Group(Blocks(m), m, e, at, next) ELSE next = at + 1
    BY <2>1
  <2>5. T \in SUBSET Entries /\ e \in T /\ T \ {e} = S /\ at < next /\ next <= to
    BY <1>1, <2>1
  <2>6. Stands(m, T \ {e}, next, to)
    BY <2>5
  <2> HIDE DEF next, T
  <2>7. Stands(m, T, at, to)
    BY <1>1, <2>3, <2>4, <2>5, <2>6, BlockStarts
  <2> QED BY <2>7 DEF T
<1> QED BY <1>2, <1>3

LEMMA NothingStands ==
  ASSUME NEW m, IsMessage(m), NEW at \in Spots(m) PROVE Stands(m, {}, at, at)
<1>1. Block(Blocks(m), m, {}, at, at)
  BY DEF Block
<1> QED BY <1>1, StandsIs

\* A list that is added where a message has it.
LEMMA ListStands ==
  ASSUME NEW m, IsMessage(m), NEW list, NEW avail, Apart(list, avail), NEW isGroup \in BOOLEAN,
         NEW add, Adds(add, list), EntriesTold(m, add, list), NEW at, Occurs(m, at, AddAll(add, list, isGroup))
  PROVE  Stands(m, Elements(list), at, at + Len(AddAll(add, list, isGroup)))
<1> DEFINE n == Len(list)
           done == AddTurns(add, list, isGroup)
           piece(i) == add[<<list[i], Forced(isGroup, i)>>]
           Rest(i) == {list[j] : j \in i + 1..n}
           S == {k \in 0..n : Occurs(m, at, done[n - k])}
<1>1. list \in Seq(Entries) /\ n \in Nat /\ DOMAIN list = 1..n
  BY DEF Apart
<1>2. /\ done[0] = <<>> /\ \A i \in 0..n : done[i] \in Fields
      /\ \A i \in 1..n : done[i] = done[i - 1] \o piece(i)
  <2>1. TurnsWell(add, list, isGroup)
    BY <1>1, TurnsAre
  <2> QED BY <2>1 DEF TurnsWell
<1>3. \A i \in 1..n : /\ piece(i) \in Fields
                      /\ \A p : Occurs(m, p, piece(i)) => EntryTold(m, list[i], piece(i), p)
  <2>1. \A i \in 1..n : i \in DOMAIN list /\ Forced(isGroup, i) \in BOOLEAN
    BY <1>1 DEF Forced
  <2> QED BY <2>1 DEF Adds, EntriesTold
<1>4. Occurs(m, at, done[n])
  BY DEF AddAll
<1>5. done[n] = AddAll(add, list, isGroup)
  BY DEF AddAll
<1>6. \A i \in 1..n : /\ list[i] \in Entries /\ list[i] \notin Rest(i) /\ Rest(i - 1) = Rest(i) \cup {list[i]}
                      /\ Rest(i) \in SUBSET Entries
  <2> SUFFICES ASSUME NEW i \in 1..n
               PROVE  /\ list[i] \in Entries /\ list[i] \notin Rest(i) /\ Rest(i - 1) = Rest(i) \cup {list[i]}
                      /\ Rest(i) \in SUBSET Entries
    OBVIOUS
  <2>1. \A j \in i + 1..n : j \in DOMAIN list /\ j # i /\ i \in DOMAIN list
    BY <1>1
  <2>2. \A j \in i + 1..n : list[j].tag # list[i].tag
    BY <2>1, ApartIs
  <2>3. list[i] \notin Rest(i)
    BY <2>2
  <2>4. (i - 1) + 1..n = (i + 1..n) \cup {i}
    BY <1>1
  <2>5. Rest(i - 1) = Rest(i) \cup {list[i]}
    BY <2>4
  <2> QED BY <1>1, <2>1, <2>3, <2>5
<1>7. Rest(0) = Elements(list) /\ Rest(n) = {}
  BY <1>1 DEF Elements
<1> HIDE DEF done, piece, n, Rest
<1>8. \A k \in 0..n : k \in S
  <2>1. 0 \in S
    BY <1>1, <1>4
  <2>2. ASSUME NEW k \in 1..n, k - 1 \in S PROVE k \in S
    <3> DEFINE i == n - (k - 1)
    <3>1. i \in 1..n /\ i - 1 = n - k /\ i - 1 \in 0..n /\ k \in 0..n
      BY <1>1
    <3> HIDE DEF i
    <3>2. Occurs(m, at, done[i])
      BY <2>2 DEF i
    <3>3. done[i] = done[i - 1] \o piece(i) /\ done[i - 1] \in Fields /\ piece(i) \in Fields
      BY <1>2, <1>3, <3>1
    <3>4. Occurs(m, at, done[i - 1])
      BY <3>2, <3>3, OccursSplit
    <3> QED BY <3>1, <3>4
  <2> HIDE DEF S
  <2> QED BY <1>1, <2>1, <2>2, CountingUp
<1>9. \A i \in 0..n : /\ Occurs(m, at, done[i]) /\ at + Len(done[i]) \in Spots(m) /\ at \in Nat
                      /\ Len(done[i]) \in Nat
  <2>1. ASSUME NEW i \in 0..n PROVE Occurs(m, at, done[i])
    <3>1. n - i \in 0..n /\ n - (n - i) = i
      BY <1>1
    <3>2. n - i \in S
      BY <1>8, <3>1
    <3> QED BY <3>1, <3>2
  <2> QED BY <1>2, <2>1, OccursSpots
<1> DEFINE end == at + Len(done[n])
           T == {k \in 0..n : Stands(m, Rest(n - k), at + Len(done[n - k]), end)
                              /\ at + Len(done[n - k]) <= end}
<1>10. end \in Spots(m) /\ end \in Nat
  BY <1>1, <1>9
<1>11. 0 \in T
  <2>1. Stands(m, {}, end, end)
    BY <1>10, NothingStands
  <2>2. n - 0 = n /\ 0 \in 0..n /\ end <= end
    BY <1>1, <1>10
  <2> QED BY <1>7, <2>1, <2>2
<1> HIDE DEF end
<1>12. ASSUME NEW k \in 1..n, k - 1 \in T PROVE k \in T
  <2> DEFINE i == n - (k - 1)
             x == piece(i)
             from == at + Len(done[i - 1])
  <2>1. i \in 1..n /\ i - 1 = n - k /\ i - 1 \in 0..n /\ k \in 0..n /\ i \in 0..n
    BY <1>1
  <2> HIDE DEF i
  <2>2. Stands(m, Rest(i), at + Len(done[i]), end) /\ at + Len(done[i]) <= end
    BY <1>12 DEF i
  <2>3. done[i] = done[i - 1] \o x /\ done[i - 1] \in Fields /\ x \in Fields
    BY <1>2, <1>3, <2>1
  <2>4. Occurs(m, from, x)
    BY <1>9, <2>1, <2>3, OccursSplit
  <2>5. EntryTold(m, list[i], x, from)
    BY <1>3, <2>1, <2>4
  <2>6. Len(done[i]) = Len(done[i - 1]) + Len(x) /\ Len(x) \in Nat
    BY <2>3 DEF Fields
  <2>7. at + Len(done[i]) = from + Len(x) /\ from <= end
    BY <1>9, <1>10, <2>1, <2>2, <2>6
  <2>8. list[i] \in Entries /\ list[i] \notin Rest(i) /\ Rest(i - 1) = Rest(i) \cup {list[i]}
        /\ Rest(i) \in SUBSET Entries
    BY <1>6, <2>1
  <2> HIDE DEF x, from
  <2>9. from + Len(x) <= end /\ Stands(m, Rest(i), from + Len(x), end)
    BY <2>2, <2>7
  <2>10. Stands(m, Rest(i) \cup {list[i]}, from, end)
    BY <1>10, <2>3, <2>4, <2>5, <2>8, <2>9, RestStands
  <2>11. Stands(m, Rest(n - k), at + Len(done[n - k]), end) /\ at + Len(done[n - k]) <= end
    BY <2>1, <2>7, <2>8, <2>10 DEF from
  <2> QED BY <2>1, <2>11
<1>13. \A k \in 0..n : k \in T
  <2> HIDE DEF T
  <2> QED BY <1>1, <1>11, <1>12, CountingUp
<1>14. Stands(m, Rest(0), at + Len(done[0]), end)
  <2>1. n \in T /\ n - n = 0
    BY <1>1, <1>13
  <2> QED BY <2>1
<1>15. at + Len(done[0]) = at
  <2>1. Len(done[0]) = 0 /\ at \in Nat
    BY <1>1, <1>2, <1>9
  <2> QED BY <2>1
<1> QED BY <1>5, <1>7, <1>14, <1>15 DEF end

\* A list starts with what its first entries added.
StartsAs(x, y) == Len(y) <= Len(x) /\ \A j \in 1..Len(y) : x[j] = y[j]

LEMMA TurnsKept ==
  ASSUME NEW list \in Seq(Entries), NEW isGroup \in BOOLEAN, NEW add, Adds(add, list), NEW i \in 0..Len(list)
  PROVE  StartsAs(AddAll(add, list, isGroup), AddTurns(add, list, isGroup)[i])
<1> DEFINE n == Len(list)
           done == AddTurns(add, list, isGroup)
           Holds(k) == Len(done[i]) <= Len(done[i + k]) /\ \A j \in 1..Len(done[i]) : done[i + k][j] = done[i][j]
           S == {k \in 0..n - i : Holds(k)}
<1>1. n \in Nat /\ i \in 0..n
  OBVIOUS
<1>2. /\ \A k \in 0..n : done[k] \in Fields
      /\ \A k \in 1..n : \E y \in Fields : done[k] = done[k - 1] \o y
  <2>1. TurnsWell(add, list, isGroup)
    BY TurnsAre
  <2>2. ASSUME NEW k \in 1..n PROVE add[<<list[k], Forced(isGroup, k)>>] \in Fields
    <3>1. k \in DOMAIN list /\ Forced(isGroup, k) \in BOOLEAN
      BY DEF Forced
    <3> QED BY <3>1 DEF Adds
  <2> QED BY <2>1, <2>2 DEF TurnsWell
<1>3. done[n] = AddAll(add, list, isGroup)
  BY DEF AddAll
<1> HIDE DEF n, done
<1>4. 0 \in S
  <2>1. Len(done[i]) \in Nat /\ i + 0 = i /\ 0 \in 0..n - i
    BY <1>1, <1>2 DEF Fields
  <2> QED BY <2>1
<1>5. ASSUME NEW k \in 1..n - i, k - 1 \in S PROVE k \in S
  <2> DEFINE h == i + k
             g == i + (k - 1)
  <2>1. h \in 1..n /\ h - 1 = g /\ g \in 0..n /\ k \in 0..n - i
    BY <1>1
  <2> HIDE DEF h, g
  <2>2. PICK y \in Fields : done[h] = done[g] \o y
    BY <1>2, <2>1
  <2>3. done[g] \in Fields
    BY <1>2, <2>1
  <2>4. /\ Len(done[g]) \in Nat /\ Len(done[h]) >= Len(done[g])
        /\ \A j \in 1..Len(done[g]) : done[h][j] = done[g][j]
    BY <2>2, <2>3 DEF Fields
  <2>5. Len(done[i]) <= Len(done[g]) /\ \A j \in 1..Len(done[i]) : done[g][j] = done[i][j]
    BY <1>5 DEF g
  <2>6. Len(done[i]) \in Nat /\ Len(done[h]) \in Nat
    BY <1>1, <1>2, <2>1 DEF Fields
  <2>7. \A j \in 1..Len(done[i]) : j \in 1..Len(done[g])
    BY <2>4, <2>5, <2>6
  <2>8. Len(done[i]) <= Len(done[h]) /\ \A j \in 1..Len(done[i]) : done[h][j] = done[i][j]
    BY <2>4, <2>5, <2>6, <2>7
  <2> QED BY <2>1, <2>8 DEF h
<1>6. \A k \in 0..n - i : k \in S
  <2> HIDE DEF S
  <2>1. n - i \in Nat
    BY <1>1
  <2> QED BY <1>4, <1>5, <2>1, CountingUp
<1>7. Holds(n - i) /\ i + (n - i) = n
  <2>1. n - i \in 0..n - i /\ i + (n - i) = n
    BY <1>1
  <2> QED BY <1>6, <2>1
<1>8. Len(done[i]) <= Len(done[n]) /\ \A j \in 1..Len(done[i]) : done[n][j] = done[i][j]
  BY <1>7
<1> QED BY <1>3, <1>8 DEF done, StartsAs

LEMMA AddingEntry ==
  ASSUME NEW opts, Repeats(opts), NEW e \in Entries, NEW b \in BOOLEAN
  PROVE  /\ Adding(opts)[<<e, b>>] = AddEntry(Adding(opts), opts, e, b)
         /\ Adding(opts)[<<e, b>>] \in Fields /\ Adds(Adding(opts), e.entries)
<1> DEFINE c == <<e, b>>
<1>1. c \in Pairs /\ c[1] = e /\ c[2] = b
  BY DEF Pairs
<1> HIDE DEF c
<1>2. Adding(opts)[c] = AddEntry(Adding(opts), opts, c[1], c[2]) /\ Adding(opts)[c] \in Fields
  BY <1>1, AddingIs
<1>3. Adds(Adding(opts), e.entries)
  BY BuildType, EntryParts
<1> QED BY <1>1, <1>2, <1>3 DEF c

\* An entry that is forced or required starts with its tag.
LEMMA PieceStarts ==
  ASSUME NEW opts, Repeats(opts), NEW e \in Entries, NEW b \in BOOLEAN, b \/ e.required
  PROVE  /\ Len(Adding(opts)[<<e, b>>]) >= 1 /\ Adding(opts)[<<e, b>>][1].tag = e.tag
         /\ ~e.isGroup => Adding(opts)[<<e, b>>] = <<Field(e.tag, 0)>>
<1> DEFINE add == Adding(opts)
           x == add[<<e, b>>]
           n == IF Members(add, opts, e) = <<>> THEN 0 ELSE TimesOf(opts, e)
<1>1. x = AddEntry(add, opts, e, b) /\ Adds(add, e.entries)
  BY AddingEntry
<1>2. Members(add, opts, e) \in Fields
  BY <1>1, MembersAre
<1>3. b \/ Wanted(e, opts)
  BY DEF Wanted
<1> HIDE DEF add
<1>4. x = IF ~e.isGroup THEN <<Field(e.tag, 0)>> ELSE <<Field(e.tag, n)>> \o Members(add, opts, e)
  BY <1>1, <1>3, AddEntryIs
<1> HIDE DEF x, n
<1>5. Field(e.tag, n).tag = e.tag /\ Field(e.tag, 0).tag = e.tag
  BY DEF Field
<1> DEFINE f == Field(e.tag, n)
           g == Field(e.tag, 0)
           z == Members(add, opts, e)
<1> HIDE DEF f, g, z
<1>6. /\ Len(<<f>> \o z) >= 1 /\ (<<f>> \o z)[1] = f
      /\ Len(<<g>>) = 1 /\ <<g>>[1] = g
  BY <1>2 DEF Fields, z
<1> QED BY <1>4, <1>5, <1>6 DEF x, add, f, g, z

\* The first member of a group is there in each instance, at its start.
LEMMA InstanceStarts ==
  ASSUME NEW opts, Repeats(opts), NEW list \in Seq(Entries), list # <<>>, NEW isGroup \in BOOLEAN, isGroup
  PROVE  /\ Len(AddAll(Adding(opts), list, isGroup)) >= 1
         /\ AddAll(Adding(opts), list, isGroup)[1].tag = list[1].tag
<1> DEFINE add == Adding(opts)
           done == AddTurns(add, list, isGroup)
           b == Forced(isGroup, 1)
           x == add[<<list[1], b>>]
<1>1. Len(list) \in Nat /\ 1 \in 1..Len(list) /\ list[1] \in Entries /\ 1 \in 0..Len(list)
  OBVIOUS
<1>2. b \in BOOLEAN /\ b
  BY DEF Forced
<1>3. Adds(add, list)
  BY BuildType
<1> HIDE DEF b
<1>4. Len(x) >= 1 /\ x[1].tag = list[1].tag /\ x \in Fields
  BY <1>1, <1>2, PieceStarts, AddingEntry
<1> HIDE DEF add
<1>5. done[1] = <<>> \o x
  <2>1. TurnsWell(add, list, isGroup)
    BY <1>3, TurnsAre
  <2>2. done[0] = <<>> /\ done[1] = done[1 - 1] \o x
    BY <1>1, <2>1 DEF TurnsWell, b
  <2>3. 1 - 1 = 0
    OBVIOUS
  <2> QED BY <2>2, <2>3
<1> HIDE DEF x, done
<1>6. done[1] = x
  <2>1. <<>> \o x = x
    BY <1>4 DEF Fields
  <2> QED BY <1>5, <2>1
<1>7. StartsAs(AddAll(add, list, isGroup), done[1])
  <2> DEFINE i == 1
  <2>1. i \in 0..Len(list)
    BY <1>1
  <2> HIDE DEF i
  <2>2. StartsAs(AddAll(add, list, isGroup), done[i])
    BY <1>3, <2>1, TurnsKept DEF done
  <2> QED BY <2>2 DEF i
<1>8. AddAll(add, list, isGroup) \in Fields
  BY <1>3, AddAllIs
<1> DEFINE all == AddAll(add, list, isGroup)
<1> HIDE DEF all
<1>9. Len(x) \in Nat /\ Len(all) \in Nat
  <2>1. all \in Fields /\ x \in Fields
    BY <1>4, <1>8 DEF all
  <2> QED BY <2>1 DEF Fields
<1>10. Len(x) <= Len(all) /\ \A j \in 1..Len(x) : all[j] = x[j]
  BY <1>6, <1>7 DEF all, StartsAs
<1>11. 1 \in 1..Len(x)
  BY <1>4, <1>9
<1>12. Len(all) >= 1 /\ all[1].tag = list[1].tag
  BY <1>4, <1>9, <1>10, <1>11
<1> QED BY <1>12 DEF add, all

\* The instances of a group, one after the other.
EachOccurs(m, at, x, n) == \A k \in 0..n - 1 : Occurs(m, at + k * Len(x), x)

LEMMA CopiesOccur ==
  ASSUME NEW m, IsMessage(m), NEW x \in Fields, NEW n \in Nat, NEW at, Occurs(m, at, Repeated(x, n)[n])
  PROVE  Len(Repeated(x, n)[n]) = n * Len(x) /\ EachOccurs(m, at, x, n)
<1> DEFINE copies == Repeated(x, n)
           size == Len(x)
           S == {k \in 0..n : Len(copies[k]) = k * size}
           T == {k \in 0..n : Occurs(m, at, copies[n - k])}
<1>1. copies[0] = <<>> /\ (\A k \in 0..n : copies[k] \in Fields) /\ \A k \in 1..n : copies[k] = copies[k - 1] \o x
  <2>1. RepeatsWell(x, n)
    BY RepeatedIs
  <2> QED BY <2>1 DEF RepeatsWell
<1>2. size \in Nat
  BY DEF Fields
<1>3. Occurs(m, at, copies[n])
  OBVIOUS
<1> HIDE DEF copies
<1>4. \A k \in 1..n : Len(copies[k]) = Len(copies[k - 1]) + size
  <2>1. ASSUME NEW k \in 1..n PROVE Len(copies[k - 1] \o x) = Len(copies[k - 1]) + size
    <3>1. copies[k - 1] \in Fields
      BY <1>1
    <3> QED BY <3>1 DEF Fields
  <2> QED BY <1>1, <2>1
<1> HIDE DEF size
<1>5. \A k \in 0..n : k \in S
  <2>1. 0 \in S
    <3>1. Len(copies[0]) = 0 /\ 0 * size = 0
      BY <1>1, <1>2
    <3> QED BY <3>1
  <2>2. ASSUME NEW k \in 1..n, k - 1 \in S PROVE k \in S
    <3>1. Len(copies[k]) = (k - 1) * size + size
      BY <1>4, <2>2
    <3>2. (k - 1) * size + size = k * size
      BY <1>2
    <3> QED BY <3>1, <3>2
  <2> HIDE DEF S
  <2> QED BY <2>1, <2>2, CountingUp
<1>6. \A k \in 0..n : k \in T
  <2>1. 0 \in T
    <3>1. n - 0 = n /\ 0 \in 0..n
      OBVIOUS
    <3> QED BY <1>3, <3>1
  <2>2. ASSUME NEW k \in 1..n, k - 1 \in T PROVE k \in T
    <3> DEFINE i == n - (k - 1)
    <3>1. i \in 1..n /\ i - 1 = n - k /\ i - 1 \in 0..n /\ k \in 0..n
      OBVIOUS
    <3> HIDE DEF i
    <3>2. Occurs(m, at, copies[i])
      BY <2>2 DEF i
    <3>3. copies[i] = copies[i - 1] \o x /\ copies[i - 1] \in Fields
      BY <1>1, <3>1
    <3>4. Occurs(m, at, copies[i - 1])
      BY <3>2, <3>3, OccursSplit
    <3> QED BY <3>1, <3>4
  <2> HIDE DEF T
  <2> QED BY <2>1, <2>2, CountingUp
<1>7. ASSUME NEW k \in 0..n - 1 PROVE Occurs(m, at + k * size, x)
  <2> DEFINE i == k + 1
  <2>1. i \in 1..n /\ i - 1 = k /\ n - i \in 0..n /\ n - (n - i) = i /\ k \in 0..n
    OBVIOUS
  <2> HIDE DEF i
  <2>2. Occurs(m, at, copies[i])
    BY <1>6, <2>1
  <2>3. copies[i] = copies[k] \o x /\ copies[k] \in Fields
    BY <1>1, <2>1
  <2>4. Occurs(m, at + Len(copies[k]), x)
    BY <2>2, <2>3, OccursSplit
  <2>5. Len(copies[k]) = k * size
    BY <1>5, <2>1
  <2> QED BY <2>4, <2>5
<1>8. Len(copies[n]) = n * size
  BY <1>5
<1> QED BY <1>7, <1>8 DEF EachOccurs, copies, size

\* An instance, and one that is like it.
LEMMA AlikeOccurs ==
  ASSUME NEW m, IsMessage(m), NEW e, NEW x \in Fields, Len(x) >= 1, x[1].tag = e.entries[1].tag,
         NEW first, Occurs(m, first, x), NEW at, Occurs(m, at, x),
         Stands(m, Elements(e.entries), at, at + Len(x))
  PROVE  Alike(Blocks(m), m, e, first, at, Len(x))
<1>1. Len(x) \in Nat /\ at \in Nat /\ first \in Nat
  BY DEF Occurs, Fields
<1>2. ASSUME NEW j \in 0..Len(x) - 1 PROVE m[at + j].tag = x[j + 1].tag /\ m[first + j].tag = x[j + 1].tag
  <2> DEFINE k == j + 1
  <2>1. k \in 1..Len(x) /\ at + k - 1 = at + j /\ first + k - 1 = first + j
    BY <1>1
  <2> HIDE DEF k
  <2>2. m[at + k - 1].tag = x[k].tag /\ m[first + k - 1].tag = x[k].tag
    BY <2>1 DEF Occurs
  <2> QED BY <2>1, <2>2 DEF k
<1>3. m[at].tag = e.entries[1].tag
  <2>1. 1 \in 1..Len(x) /\ at + 1 - 1 = at
    BY <1>1
  <2>2. m[at + 1 - 1].tag = x[1].tag
    BY <2>1 DEF Occurs
  <2> QED BY <2>1, <2>2
<1> QED BY <1>2, <1>3 DEF Alike, Stands

LEMMA GroupStands ==
  ASSUME NEW m, IsMessage(m), NEW opts, Repeats(opts), NEW e \in Entries, e.isGroup, e.tag \notin Mandatory,
         e.entries # <<>>, NEW avail, Apart(e.entries, avail), EntriesTold(m, Adding(opts), e.entries),
         NEW n \in Nat, n = IF Members(Adding(opts), opts, e) = <<>> THEN 0 ELSE TimesOf(opts, e),
         NEW at, Occurs(m, at, <<Field(e.tag, n)>> \o Members(Adding(opts), opts, e))
  PROVE  Group(Blocks(m), m, e, at, at + 1 + Len(Members(Adding(opts), opts, e)))
<1> DEFINE add == Adding(opts)
           g == TRUE
           x == AddAll(add, e.entries, g)
           times == TimesOf(opts, e)
           z == Repeated(x, times)[times]
           f == Field(e.tag, n)
           size == Len(x)
<1>1. e.tag \in Nat /\ e.entries \in Seq(Entries) /\ Adds(add, e.entries) /\ g \in BOOLEAN /\ g
  BY EntryParts, BuildType
<1>2. f \in MsgFields /\ f.tag = e.tag /\ f.n = n
  BY <1>1, NewField DEF Field
<1>3. x \in Fields /\ times \in Nat /\ z \in Fields
  BY <1>1, MembersAre DEF Members
<1>4. z = Members(add, opts, e)
  BY DEF Members
<1> HIDE DEF g, f
<1>5. size >= 1 /\ x[1].tag = e.entries[1].tag
  BY <1>1, InstanceStarts
<1> HIDE DEF add
<1>6. size \in Nat
  <2>1. x \in Fields
    BY <1>3
  <2> HIDE DEF x
  <2> QED BY <2>1 DEF Fields
<1>7. Occurs(m, at, <<f>>) /\ Occurs(m, at + 1, z) /\ at \in Nat
  <2>1. <<f>> \in Fields /\ Len(<<f>>) = 1
    BY <1>2 DEF Fields
  <2>2. Occurs(m, at, <<f>> \o z)
    BY <1>4 DEF f, add
  <2> HIDE DEF z
  <2>3. Occurs(m, at, <<f>>) /\ Occurs(m, at + Len(<<f>>), z)
    BY <1>3, <2>1, <2>2, OccursSplit
  <2> QED BY <2>1, <2>3 DEF Occurs
<1>8. m[at].n = n
  <2>1. 1 \in 1..Len(<<f>>) /\ at + 1 - 1 = at /\ <<f>>[1] = f
    BY <1>7
  <2>2. <<f>>[1].tag \notin Mandatory => m[at + 1 - 1].n = <<f>>[1].n
    BY <1>7, <2>1 DEF Occurs
  <2> QED BY <1>2, <2>1, <2>2
<1> HIDE DEF x, times, size
<1>9. Len(z) = times * size /\ EachOccurs(m, at + 1, x, times)
  BY <1>3, <1>7, CopiesOccur DEF size
<1>10. z = <<>> <=> times = 0
  <2>1. times # 0 => times * size >= 1
    BY <1>3, <1>5, <1>6
  <2>2. times = 0 => times * size = 0
    BY <1>6
  <2>3. z = <<>> <=> Len(z) = 0
    BY <1>3 DEF Fields
  <2> HIDE DEF z
  <2> QED BY <1>3, <1>6, <1>9, <2>1, <2>2, <2>3
<1> HIDE DEF z
<1>11. n = times
  BY <1>4, <1>10 DEF add, times
<1>12. CASE times = 0
  <2>1. Len(z) = 0 /\ at + 1 + Len(z) = at + 1
    BY <1>6, <1>7, <1>9, <1>12
  <2>2. Group(Blocks(m), m, e, at, at + 1 + Len(z))
    BY <1>8, <1>11, <1>12, <2>1 DEF Group
  <2> QED BY <1>4, <2>2 DEF add
<1>13. CASE times # 0
  <2>1. ASSUME NEW k \in 0..times - 1 PROVE Alike(Blocks(m), m, e, at + 1, at + 1 + k * size, size)
    <3> DEFINE first == at + 1
               here == at + 1 + k * size
    <3>1. Occurs(m, here, x)
      BY <1>9 DEF EachOccurs, size
    <3>2. Occurs(m, first, x)
      <4>1. 0 \in 0..times - 1 /\ at + 1 + 0 * size = at + 1
        BY <1>3, <1>6, <1>7, <1>13
      <4> QED BY <1>9, <4>1 DEF EachOccurs, size
    <3> HIDE DEF first, here
    <3>3. Stands(m, Elements(e.entries), here, here + Len(x))
      BY <1>1, <3>1, ListStands DEF x, add
    <3>4. Alike(Blocks(m), m, e, first, here, Len(x))
      BY <1>3, <1>5, <3>1, <3>2, <3>3, AlikeOccurs DEF size
    <3> QED BY <3>4 DEF first, here, size
  <2>2. size \in 1..(at + 1 + Len(z)) - at - 1 /\ at + 1 + Len(z) = at + 1 + n * size
    <3>1. times * size >= size
      BY <1>3, <1>6, <1>13
    <3>2. Len(z) \in Nat
      BY <1>3 DEF Fields
    <3> QED BY <1>5, <1>6, <1>7, <1>9, <1>11, <3>1, <3>2
  <2>3. n # 0 /\ \A k \in 0..n - 1 : Alike(Blocks(m), m, e, at + 1, at + 1 + k * size, size)
    BY <1>11, <1>13, <2>1
  <2>4. Group(Blocks(m), m, e, at, at + 1 + Len(z))
    BY <1>8, <2>2, <2>3 DEF Group
  <2> QED BY <1>4, <2>4 DEF add
<1> QED BY <1>12, <1>13

LEMMA EntryIsTold ==
  ASSUME NEW m, IsMessage(m), NEW opts, Repeats(opts), NEW e \in Entries, NEW b \in BOOLEAN,
         e.isGroup => /\ e.tag \notin Mandatory /\ e.entries # <<>>
                      /\ (\E avail : Apart(e.entries, avail)) /\ EntriesTold(m, Adding(opts), e.entries),
         NEW at, Occurs(m, at, Adding(opts)[<<e, b>>])
  PROVE  EntryTold(m, e, Adding(opts)[<<e, b>>], at)
<1> DEFINE add == Adding(opts)
           x == add[<<e, b>>]
           z == Members(add, opts, e)
           n == IF z = <<>> THEN 0 ELSE TimesOf(opts, e)
           f == Field(e.tag, n)
<1>1. x = AddEntry(add, opts, e, b) /\ x \in Fields /\ Adds(add, e.entries)
  BY AddingEntry
<1>2. n \in Nat /\ z \in Fields
  BY <1>1, MembersAre
<1>3. x = IF ~b /\ ~Wanted(e, opts) THEN <<>>
          ELSE IF ~e.isGroup THEN <<Field(e.tag, 0)>> ELSE <<f>> \o z
  BY <1>1, AddEntryIs
<1>4. Occurs(m, at, x)
  OBVIOUS
<1>5. f.tag = e.tag /\ Field(e.tag, 0).tag = e.tag /\ at \in Nat
  BY DEF Field, Occurs
<1> DEFINE to == at + 1 + Len(z)
<1>6. e.isGroup /\ x = <<f>> \o z => Group(Blocks(m), m, e, at, to)
  <2> SUFFICES ASSUME e.isGroup, x = <<f>> \o z PROVE Group(Blocks(m), m, e, at, to)
    OBVIOUS
  <2>1. PICK avail : Apart(e.entries, avail)
    OBVIOUS
  <2>2. e.tag \notin Mandatory /\ e.entries # <<>> /\ EntriesTold(m, add, e.entries)
    OBVIOUS
  <2>3. n = IF z = <<>> THEN 0 ELSE TimesOf(opts, e)
    OBVIOUS
  <2>4. Occurs(m, at, <<Field(e.tag, n)>> \o z)
    BY <1>4
  <2> HIDE DEF n, x
  <2> QED BY <1>2, <2>1, <2>2, <2>3, <2>4, GroupStands
<1> DEFINE g == Field(e.tag, 0)
<1> HIDE DEF add, x, n, f, g, to
<1>7. /\ Len(<<f>> \o z) = 1 + Len(z) /\ (<<f>> \o z)[1] = f /\ <<f>> \o z # <<>> /\ Len(z) \in Nat
      /\ Len(<<g>>) = 1 /\ <<g>>[1] = g /\ <<g>> # <<>>
  <2> HIDE DEF z
  <2> QED BY <1>2 DEF Fields
<1> HIDE DEF z
<1>8. CASE x = <<>>
  <2>1. ~Wanted(e, opts)
    <3>1. x # <<>> => ~(x = <<>>)
      OBVIOUS
    <3> QED BY <1>3, <1>7, <1>8 DEF g
  <2> QED BY <1>8, <2>1 DEF EntryTold, Wanted, x, add
<1>9. CASE x # <<>> /\ ~e.isGroup
  <2>1. x = <<g>>
    BY <1>3, <1>9 DEF g
  <2>2. x[1].tag = e.tag /\ Len(x) = 1
    BY <1>5, <1>7, <2>1 DEF g
  <2>3. EntryTold(m, e, x, at)
    BY <1>9, <2>2 DEF EntryTold
  <2> QED BY <2>3 DEF x, add
<1>10. CASE x # <<>> /\ e.isGroup
  <2>1. x = <<f>> \o z
    BY <1>3, <1>10
  <2>2. x[1].tag = e.tag /\ at + Len(x) = to
    BY <1>5, <1>7, <2>1 DEF to
  <2>3. Group(Blocks(m), m, e, at, at + Len(x))
    BY <1>6, <1>10, <2>1, <2>2
  <2>4. EntryTold(m, e, x, at)
    BY <1>10, <2>2, <2>3 DEF EntryTold
  <2> QED BY <2>4 DEF x, add
<1> QED BY <1>8, <1>9, <1>10

LEMMA EntriesAreTold ==
  ASSUME NEW m, IsMessage(m), NEW opts, Repeats(opts)
  PROVE  \A list, avail : Apart(list, avail) => EntriesTold(m, Adding(opts), list)
<1> DEFINE Here(list) == \A avail : Apart(list, avail) => EntriesTold(m, Adding(opts), list)
           S == {n \in Nat : \A list \in Seq(Entries) : Depth(list) = n => Here(list)}
<1>1. ASSUME NEW n \in Nat, \A k \in Nat : k < n => k \in S PROVE n \in S
  <2> SUFFICES ASSUME NEW list \in Seq(Entries), Depth(list) = n, NEW avail, Apart(list, avail)
               PROVE  EntriesTold(m, Adding(opts), list)
    OBVIOUS
  <2>1. ASSUME NEW i \in DOMAIN list, list[i].isGroup
        PROVE  /\ list[i].tag \notin Mandatory /\ list[i].entries # <<>>
               /\ (\E around : Apart(list[i].entries, around))
               /\ EntriesTold(m, Adding(opts), list[i].entries)
    <3>1. /\ list[i].tag \notin Mandatory /\ list[i].entries # <<>>
          /\ Apart(list[i].entries, avail \ Tags(list))
      BY <2>1, ApartIs
    <3>2. list[i].entries \in Seq(Entries) /\ Depth(list[i].entries) \in Nat /\ Depth(list[i].entries) < n
      BY DepthFalls
    <3>3. Here(list[i].entries)
      BY <1>1, <3>2
    <3> QED BY <3>1, <3>3
  <2>2. ASSUME NEW i \in DOMAIN list, NEW b \in BOOLEAN, NEW at, Occurs(m, at, Adding(opts)[<<list[i], b>>])
        PROVE  EntryTold(m, list[i], Adding(opts)[<<list[i], b>>], at)
    <3> DEFINE e == list[i]
    <3>1. e \in Entries
      OBVIOUS
    <3>2. e.isGroup => /\ e.tag \notin Mandatory /\ e.entries # <<>>
                       /\ (\E around : Apart(e.entries, around)) /\ EntriesTold(m, Adding(opts), e.entries)
      BY <2>1
    <3>3. Occurs(m, at, Adding(opts)[<<e, b>>])
      BY <2>2
    <3> HIDE DEF e
    <3>4. EntryTold(m, e, Adding(opts)[<<e, b>>], at)
      BY <3>1, <3>2, <3>3, EntryIsTold
    <3> QED BY <3>4 DEF e
  <2> QED BY <2>2 DEF EntriesTold
<1>2. \A n \in Nat : n \in S
  <2> HIDE DEF S
  <2> QED BY <1>1, FromSmaller
<1>3. ASSUME NEW list, NEW avail, Apart(list, avail) PROVE EntriesTold(m, Adding(opts), list)
  <2>1. list \in Seq(Entries)
    BY <1>3 DEF Apart
  <2>2. Depth(list) \in Nat
    BY <2>1, DepthIs, BoundsAssumption
  <2>3. Here(list)
    BY <1>2, <2>1, <2>2
  <2> QED BY <1>3, <2>3
<1> QED BY <1>3

\* What Build makes of a list stands wherever it occurs.
LEMMA BuildStands ==
  ASSUME NEW m, IsMessage(m), NEW opts, Repeats(opts), NEW list, NEW avail, Apart(list, avail),
         NEW at, Occurs(m, at, Build(opts, list))
  PROVE  Stands(m, Elements(list), at, at + Len(Build(opts, list)))
<1> DEFINE add == Adding(opts)
           b == FALSE
<1>1. list \in Seq(Entries) /\ b \in BOOLEAN
  BY DEF Apart
<1>2. Adds(add, list) /\ EntriesTold(m, add, list)
  BY <1>1, BuildType, EntriesAreTold
<1> HIDE DEF add, b
<1>3. Build(opts, list) = AddAll(add, list, b)
  BY DEF Build, add, b
<1>4. Occurs(m, at, AddAll(add, list, b))
  BY <1>3
<1>5. Stands(m, Elements(list), at, at + Len(AddAll(add, list, b)))
  BY <1>1, <1>2, <1>4, ListStands
<1> QED BY <1>3, <1>5

\* A required entry is built.
LEMMA RequiredIsBuilt ==
  ASSUME NEW opts, Repeats(opts), NEW list \in Seq(Entries), NEW i \in DOMAIN list, list[i].required
  PROVE  list[i].tag \in Tags(Build(opts, list))
<1> DEFINE add == Adding(opts)
           b == FALSE
           done == AddTurns(add, list, b)
           forced == Forced(b, i)
           x == add[<<list[i], forced>>]
           all == AddAll(add, list, b)
<1>1. /\ b \in BOOLEAN /\ forced \in BOOLEAN /\ i \in 1..Len(list) /\ i \in 0..Len(list)
      /\ i - 1 \in 0..Len(list) /\ list[i] \in Entries /\ i - 1 \in Nat
  BY DEF Forced
<1>2. Adds(add, list)
  BY BuildType
<1>3. all = Build(opts, list)
  BY DEF Build
<1> HIDE DEF b, forced
<1>4. Len(x) >= 1 /\ x[1].tag = list[i].tag
  BY <1>1, PieceStarts
<1>5. x \in Fields
  BY <1>1, AddingEntry
<1> HIDE DEF add
<1>6. done[i] = done[i - 1] \o x /\ done[i - 1] \in Fields
  <2>1. TurnsWell(add, list, b)
    BY <1>1, <1>2, TurnsAre
  <2> QED BY <1>1, <2>1 DEF TurnsWell, forced
<1>7. StartsAs(all, done[i])
  BY <1>1, <1>2, TurnsKept
<1>8. all \in Fields
  BY <1>1, <1>2, AddAllIs
<1> HIDE DEF all, done, x
<1> DEFINE k == Len(done[i - 1]) + 1
<1>9. Len(x) \in Nat /\ Len(done[i - 1]) \in Nat
  BY <1>5, <1>6 DEF Fields
<1>10. k \in 1..Len(done[i]) /\ done[i][k] = x[1]
  <2>1. Len(x) >= 1
    BY <1>4
  <2> QED BY <1>5, <1>6, <1>9, <2>1 DEF Fields
<1>11. k \in 1..Len(all) /\ all[k] = x[1]
  <2>1. Len(all) \in Nat /\ Len(done[i]) \in Nat
    BY <1>5, <1>6, <1>8 DEF Fields
  <2> HIDE DEF k
  <2> QED BY <1>7, <1>10, <2>1 DEF StartsAs
<1>12. k \in DOMAIN all
  BY <1>8, <1>11 DEF Fields
<1> QED BY <1>3, <1>4, <1>11, <1>12 DEF Tags

\* The entries that a session asks for.
LEMMA Demanded ==
  ASSUME NEW list, NEW avail, Apart(list, avail), NEW tag \in Mandatory, Demands(list, tag)
  PROVE  /\ Position(list, tag) \in DOMAIN list /\ list[Position(list, tag)].tag = tag /\ tag \in Tags(list)
         /\ \A i \in DOMAIN list : list[i].tag = tag => list[i].required /\ ~list[i].isGroup
<1>1. list \in Seq(Entries) /\ tag \in Tags(list) /\ EntryFor(list, tag).required
  BY DEF Apart, Demands
<1>2. Position(list, tag) \in DOMAIN list /\ list[Position(list, tag)].tag = tag
  BY <1>1, LookupFinds
<1>3. \A i \in DOMAIN list : list[i].tag = tag => i = Position(list, tag)
  BY <1>2, ApartIs
<1>4. \A i \in DOMAIN list : list[i].tag = tag => ~list[i].isGroup
  <2>1. \A i \in DOMAIN list : list[i].isGroup => list[i].tag \notin Mandatory
    BY ApartIs
  <2> QED BY <2>1
<1> QED BY <1>1, <1>2, <1>3, <1>4 DEF EntryFor

LEMMA HeaderTagsAre ==
  /\ HeaderTags \in Seq(Nat) /\ 1 \in DOMAIN HeaderTags /\ 2 \in DOMAIN HeaderTags /\ 3 \in DOMAIN HeaderTags
  /\ HeaderTags[1] = BeginString /\ HeaderTags[2] = BodyLength /\ HeaderTags[3] = MsgType
  /\ \A i \in DOMAIN HeaderTags : HeaderTags[i] \in Mandatory
  /\ CheckSum \in Mandatory
<1>1. /\ HeaderTags \in Seq(Nat) /\ 1 \in DOMAIN HeaderTags /\ 2 \in DOMAIN HeaderTags /\ 3 \in DOMAIN HeaderTags
      /\ HeaderTags[1] = BeginString /\ HeaderTags[2] = BodyLength /\ HeaderTags[3] = MsgType
  BY RoutingAssumption DEF HeaderTags, BeginString, BodyLength, MsgType
<1> QED BY <1>1 DEF Mandatory

\* A dictionary that is in use, for the type of which messages are sampled.
Usable == Loaded /\ Capable(spec.header, spec.trailer) /\ Body \in DOMAIN spec.messages

AvailHeader == raw.fields \ (Tags(spec.messages[Body]) \cup Tags(spec.trailer))
AvailBody == raw.fields \ (Tags(spec.header) \cup Tags(spec.trailer))
AvailTrailer == raw.fields \ Tags(spec.header)

LEMMA Lists3Apart ==
  ASSUME Usable
  PROVE  /\ Apart(spec.header, AvailHeader) /\ Apart(spec.messages[Body], AvailBody)
         /\ Apart(spec.trailer, AvailTrailer)
         /\ AvailHeader \in SUBSET Nat /\ AvailBody \in SUBSET Nat /\ AvailTrailer \in SUBSET Nat
<1>1. raw.fields \in SUBSET Nat
  BY DEF Usable, Loaded
<1> QED BY <1>1, Lists3 DEF Usable, AvailHeader, AvailBody, AvailTrailer

LEMMA HeaderIs ==
  ASSUME Usable
  PROVE  /\ \A i \in 1..3 : /\ i \in DOMAIN spec.header /\ spec.header[i].tag = HeaderTags[i]
                            /\ spec.header[i].required /\ ~spec.header[i].isGroup
         /\ \A i \in DOMAIN HeaderTags :
              \E k \in DOMAIN spec.header : spec.header[k].tag = HeaderTags[i] /\ spec.header[k].required
<1> DEFINE H == spec.header
<1>1. Apart(H, AvailHeader) /\ H \in Seq(Entries)
  BY Lists3Apart DEF Apart
<1>2. /\ \A i \in 1..3 : H[i].tag = HeaderTags[i]
      /\ \A i, j \in DOMAIN HeaderTags : i < j => Position(H, HeaderTags[i]) < Position(H, HeaderTags[j])
  BY DEF Usable, Loaded, WellFormed
<1>3. \A i \in DOMAIN HeaderTags : Demands(H, HeaderTags[i])
  BY DEF Usable, Capable
<1> HIDE DEF H
<1>4. \A i \in DOMAIN HeaderTags :
        /\ Position(H, HeaderTags[i]) \in DOMAIN H /\ H[Position(H, HeaderTags[i])].tag = HeaderTags[i]
        /\ \A k \in DOMAIN H : H[k].tag = HeaderTags[i] => H[k].required /\ ~H[k].isGroup
  BY <1>1, <1>3, Demanded, HeaderTagsAre
<1>5. Len(H) \in Nat /\ DOMAIN H = 1..Len(H)
  BY <1>1
<1>6. Len(H) >= 3
  <2> DEFINE p == Position(H, HeaderTags[1])
             q == Position(H, HeaderTags[2])
             r == Position(H, HeaderTags[3])
  <2>1. p \in 1..Len(H) /\ q \in 1..Len(H) /\ r \in 1..Len(H)
    BY <1>4, <1>5, HeaderTagsAre
  <2>2. p < q /\ q < r
    BY <1>2, HeaderTagsAre
  <2> HIDE DEF p, q, r
  <2> QED BY <1>5, <2>1, <2>2
<1>7. \A i \in 1..3 : i \in DOMAIN H /\ i \in DOMAIN HeaderTags
  <2>1. \A i \in 1..3 : i = 1 \/ i = 2 \/ i = 3
    OBVIOUS
  <2> QED BY <1>5, <1>6, <2>1, HeaderTagsAre
<1>8. \A i \in 1..3 : /\ i \in DOMAIN H /\ H[i].tag = HeaderTags[i] /\ H[i].required /\ ~H[i].isGroup
  BY <1>2, <1>4, <1>7
<1>9. \A i \in DOMAIN HeaderTags : \E k \in DOMAIN H : H[k].tag = HeaderTags[i] /\ H[k].required
  BY <1>4
<1> QED BY <1>8, <1>9 DEF H

LEMMA OneJoined ==
  ASSUME NEW x \in Fields, NEW f \in MsgFields
  PROVE  /\ x \o <<f>> \in Fields /\ Len(x \o <<f>>) = Len(x) + 1 /\ (x \o <<f>>)[Len(x) + 1] = f
         /\ \A i \in 1..Len(x) : (x \o <<f>>)[i] = x[i]
BY DEF Fields

\* A header starts with BeginString, BodyLength and MsgType.
HeaderStarts(h) ==
  Len(h) >= 3 /\ h[1] = Field(BeginString, 0) /\ h[2] = Field(BodyLength, 0) /\ h[3] = Field(MsgType, 0)

LEMMA HeaderBuilt ==
  ASSUME Usable, NEW opts, Repeats(opts)
  PROVE  Build(opts, spec.header) \in Fields /\ HeaderStarts(Build(opts, spec.header))
<1> DEFINE H == spec.header
           add == Adding(opts)
           b == FALSE
           done == AddTurns(add, H, b)
           f(i) == Field(HeaderTags[i], 0)
<1>1. H \in Seq(Entries) /\ b \in BOOLEAN
  BY Lists3Apart DEF Apart
<1>2. Adds(add, H) /\ Build(opts, H) \in Fields
  BY <1>1, BuildType
<1>3. \A i \in 1..3 : /\ i \in DOMAIN H /\ H[i].tag = HeaderTags[i] /\ H[i].required /\ ~H[i].isGroup
  BY HeaderIs
<1>4. AddAll(add, H, b) = Build(opts, H)
  BY DEF Build
<1> HIDE DEF b
<1>5. \A i \in 1..3 : add[<<H[i], Forced(b, i)>>] = <<f(i)>>
  <2> SUFFICES ASSUME NEW i \in 1..3 PROVE add[<<H[i], Forced(b, i)>>] = <<f(i)>>
    OBVIOUS
  <2> DEFINE e == H[i]
             forced == Forced(b, i)
  <2>1. e \in Entries /\ forced \in BOOLEAN /\ e.required /\ ~e.isGroup /\ e.tag = HeaderTags[i]
    BY <1>1, <1>3 DEF Forced
  <2> HIDE DEF e, forced, add
  <2>2. Adding(opts)[<<e, forced>>] = <<Field(e.tag, 0)>>
    BY <2>1, PieceStarts
  <2> QED BY <2>1, <2>2 DEF e, forced, add
<1> HIDE DEF add, H, f
<1>6. /\ done[0] = <<>>
      /\ \A i \in 1..3 : done[i] = done[i - 1] \o <<f(i)>>
  <2>1. TurnsWell(add, H, b)
    BY <1>1, <1>2, TurnsAre
  <2>2. \A i \in 1..3 : i \in 1..Len(H)
    BY <1>1, <1>3
  <2> QED BY <1>5, <2>1, <2>2 DEF TurnsWell
<1> DEFINE three == 3
<1>7. StartsAs(Build(opts, H), done[three])
  <2>1. three \in 0..Len(H)
    BY <1>1, <1>3
  <2> HIDE DEF three
  <2> QED BY <1>1, <1>2, <1>4, <2>1, TurnsKept
<1> HIDE DEF done
<1>8. Len(done[3]) = 3 /\ done[3][1] = f(1) /\ done[3][2] = f(2) /\ done[3][3] = f(3)
  <2>1. f(1) \in MsgFields /\ f(2) \in MsgFields /\ f(3) \in MsgFields
    BY TagNumbers, HeaderTagsAre DEF f
  <2>2. done[1] = done[0] \o <<f(1)>> /\ done[2] = done[1] \o <<f(2)>> /\ done[3] = done[2] \o <<f(3)>>
    <3>1. 1 - 1 = 0 /\ 2 - 1 = 1 /\ 3 - 1 = 2 /\ 1 \in 1..3 /\ 2 \in 1..3 /\ 3 \in 1..3
      OBVIOUS
    <3> QED BY <1>6, <3>1
  <2> DEFINE x == done[0]
             y == done[1]
             z == done[2]
             w == done[3]
  <2>3. x \in Fields /\ Len(x) = 0
    BY <1>6 DEF Fields
  <2> HIDE DEF x, y, z, w
  <2>4. y \in Fields /\ Len(y) = 1 /\ y[1] = f(1)
    <3> DEFINE u == f(1)
    <3>1. y = x \o <<u>> /\ u \in MsgFields
      BY <2>1, <2>2 DEF y, x
    <3> HIDE DEF u
    <3>2. y \in Fields /\ Len(y) = Len(x) + 1 /\ y[Len(x) + 1] = u
          /\ \A i \in 1..Len(x) : y[i] = x[i]
      BY <2>3, <3>1, OneJoined
    <3>3. 0 + 1 = 1
      OBVIOUS
    <3> QED BY <2>3, <3>2, <3>3 DEF u
  <2>5. z \in Fields /\ Len(z) = 2 /\ z[1] = f(1) /\ z[2] = f(2)
    <3> DEFINE u == f(2)
    <3>1. z = y \o <<u>> /\ u \in MsgFields
      BY <2>1, <2>2 DEF z, y
    <3> HIDE DEF u
    <3>2. z \in Fields /\ Len(z) = Len(y) + 1 /\ z[Len(y) + 1] = u
          /\ \A i \in 1..Len(y) : z[i] = y[i]
      BY <2>4, <3>1, OneJoined
    <3>3. 1 + 1 = 2 /\ 1 \in 1..1
      OBVIOUS
    <3> QED BY <2>4, <3>2, <3>3 DEF u
  <2>6. w \in Fields /\ Len(w) = 3 /\ w[1] = f(1) /\ w[2] = f(2) /\ w[3] = f(3)
    <3> DEFINE u == f(3)
    <3>1. w = z \o <<u>> /\ u \in MsgFields
      BY <2>1, <2>2 DEF w, z
    <3> HIDE DEF u
    <3>2. w \in Fields /\ Len(w) = Len(z) + 1 /\ w[Len(z) + 1] = u
          /\ \A i \in 1..Len(z) : w[i] = z[i]
      BY <2>5, <3>1, OneJoined
    <3>3. 2 + 1 = 3 /\ 1 \in 1..2 /\ 2 \in 1..2
      OBVIOUS
    <3> QED BY <2>5, <3>2, <3>3 DEF u
  <2> QED BY <2>6 DEF w
<1>9. f(1) = Field(BeginString, 0) /\ f(2) = Field(BodyLength, 0) /\ f(3) = Field(MsgType, 0)
  BY HeaderTagsAre DEF f
<1> DEFINE built == Build(opts, H)
<1> HIDE DEF built
<1>10. Len(built) >= 3 /\ built[1] = f(1) /\ built[2] = f(2) /\ built[3] = f(3)
  <2>1. Len(done[3]) <= Len(built) /\ \A j \in 1..Len(done[3]) : built[j] = done[3][j]
    BY <1>7 DEF StartsAs, three, built
  <2>2. built \in Fields
    BY <1>2 DEF built
  <2>3. Len(built) \in Nat
    BY <2>2 DEF Fields
  <2> QED BY <1>8, <2>1, <2>3
<1> QED BY <1>2, <1>9, <1>10 DEF H, built, HeaderStarts

\* A trailer ends with CheckSum, which is nowhere before.
LEMMA TrailerBuilt ==
  ASSUME Usable, NEW opts, Repeats(opts)
  PROVE  \E y : /\ Made(y, Nat \ {CheckSum})
                /\ Build(opts, spec.trailer) = y \o <<Field(CheckSum, 0)>>
<1> DEFINE L == spec.trailer
           add == Adding(opts)
           b == FALSE
           n == Len(L)
           done == AddTurns(add, L, b)
           piece(i) == add[<<L[i], Forced(b, i)>>]
           others == Nat \ {CheckSum}
<1>1. Apart(L, AvailTrailer) /\ L \in Seq(Entries) /\ b \in BOOLEAN /\ AvailTrailer \in SUBSET Nat
  BY Lists3Apart DEF Apart
<1>2. Demands(L, CheckSum) /\ L[n].tag = CheckSum
  BY DEF Usable, Capable, Loaded, WellFormed
<1>3. Adds(add, L) /\ PiecesMade(add, L, AvailTrailer)
  BY <1>1, BuildType, PiecesAreMade
<1>4. done[n] = Build(opts, L)
  BY DEF Build, AddAll
<1> HIDE DEF b, L
<1>5. /\ Position(L, CheckSum) \in DOMAIN L /\ CheckSum \in Tags(L)
      /\ \A i \in DOMAIN L : L[i].tag = CheckSum => L[i].required /\ ~L[i].isGroup
  BY <1>1, <1>2, Demanded, HeaderTagsAre
<1>6. n \in Nat /\ n >= 1 /\ DOMAIN L = 1..n /\ n \in DOMAIN L /\ n - 1 \in Nat
  BY <1>1, <1>5
<1>7. L[n].required /\ ~L[n].isGroup /\ L[n] \in Entries
  BY <1>1, <1>2, <1>5, <1>6
<1>8. piece(n) = <<Field(CheckSum, 0)>>
  <2> DEFINE e == L[n]
             forced == Forced(b, n)
  <2>1. e \in Entries /\ forced \in BOOLEAN /\ e.required /\ ~e.isGroup /\ e.tag = CheckSum
    BY <1>1, <1>2, <1>7 DEF Forced
  <2> HIDE DEF e, forced, add
  <2>2. Adding(opts)[<<e, forced>>] = <<Field(e.tag, 0)>>
    BY <2>1, PieceStarts
  <2> QED BY <2>1, <2>2 DEF e, forced, add
<1>9. \A i \in 1..n - 1 : Made(piece(i), others)
  <2> SUFFICES ASSUME NEW i \in 1..n - 1 PROVE Made(piece(i), others)
    OBVIOUS
  <2>0. Forced(b, i) \in BOOLEAN
    BY DEF Forced
  <2>1. i \in DOMAIN L /\ i # n
    <3> HIDE DEF n
    <3> QED BY <1>6
  <2>2. L[i].tag # CheckSum /\ L[i].tag \in Nat
    <3>1. L[i].tag # CheckSum
      BY <1>1, <1>2, <1>6, <2>1, ApartIs
    <3>2. L[i] \in Entries
      BY <1>1, <2>1
    <3> QED BY <3>1, <3>2, EntryParts
  <2> DEFINE tags == {L[i].tag} \cup (AvailTrailer \ Tags(L))
  <2>3. tags \subseteq others
    BY <1>1, <1>5, <2>2
  <2>4. Made(piece(i), tags)
    BY <1>3, <2>0, <2>1 DEF PiecesMade
  <2> HIDE DEF tags, piece, others
  <2> QED BY <2>3, <2>4, MadeMore
<1>10. /\ done[0] = <<>> /\ \A i \in 1..n : done[i] = done[i - 1] \o piece(i)
  <2>1. TurnsWell(add, L, b)
    BY <1>1, <1>3, TurnsAre
  <2> QED BY <2>1 DEF TurnsWell
<1> DEFINE S == {i \in 0..n - 1 : Made(done[i], others)}
<1> HIDE DEF done, piece, others, n, add
<1>11. \A i \in 0..n - 1 : i \in S
  <2>1. 0 \in S
    BY <1>6, <1>10, MadeNothing
  <2>2. ASSUME NEW i \in 1..n - 1, i - 1 \in S PROVE i \in S
    <3>1. Made(done[i - 1], others) /\ Made(piece(i), others)
      BY <1>9, <2>2
    <3>2. Made(done[i - 1] \o piece(i), others)
      BY <3>1, MadeJoined
    <3>3. i \in 1..n /\ i \in 0..n - 1
      BY <1>6
    <3> QED BY <1>10, <3>2, <3>3
  <2> HIDE DEF S
  <2> QED BY <1>6, <2>1, <2>2, CountingUp
<1>12. Made(done[n - 1], others)
  <2>1. n - 1 \in 0..n - 1
    BY <1>6
  <2> QED BY <1>11, <2>1
<1>13. done[n] = done[n - 1] \o <<Field(CheckSum, 0)>>
  <2>1. n \in 1..n
    BY <1>6
  <2> QED BY <1>8, <1>10, <2>1
<1> QED BY <1>4, <1>12, <1>13 DEF others, L

\* The first field with a tag is the one that is found, and replaced.
LEMMA FindFromAt ==
  ASSUME NEW x \in Fields, NEW i \in DOMAIN x, \A j \in 1..i - 1 : x[j].tag # x[i].tag
  PROVE  FindFrom(x, x[i].tag) = i - 1 /\ x[i].tag \in Tags(x)
<1> DEFINE tag == x[i].tag
           k == FindFrom(x, tag)
<1>1. tag \in Tags(x) /\ IsMessage(x) /\ DOMAIN x = 1..Len(x) /\ Len(x) \in Nat
  BY DEF Tags, IsMessage, Fields
<1>2. k + 1 \in DOMAIN x /\ k \in Nat /\ x[k + 1].tag = tag /\ \A j \in 1..k : x[j].tag # tag
  BY <1>1, FindFromFinds
<1> HIDE DEF k
<1>3. ~(k + 1 < i)
  <2> SUFFICES ASSUME k + 1 < i PROVE FALSE
    OBVIOUS
  <2>1. k + 1 \in 1..i - 1
    BY <1>1, <1>2
  <2> QED BY <1>2, <2>1
<1>4. ~(i < k + 1)
  <2> SUFFICES ASSUME i < k + 1 PROVE FALSE
    OBVIOUS
  <2>1. i \in 1..k
    BY <1>1, <1>2
  <2> QED BY <1>2, <2>1
<1>5. k = i - 1
  BY <1>1, <1>2, <1>3, <1>4
<1> QED BY <1>1, <1>5 DEF k

LEMMA SetOrAt ==
  ASSUME NEW x \in Fields, NEW i \in DOMAIN x, \A j \in 1..i - 1 : x[j].tag # x[i].tag,
         NEW f \in MsgFields, f.tag = x[i].tag, NEW idx
  PROVE  SetOr(x, f, idx) = [x EXCEPT ![i] = f]
<1>1. FindFrom(x, f.tag) = i - 1 /\ f.tag \in Tags(x)
  BY FindFromAt
<1>2. (i - 1) + 1 = i
  BY DEF Fields
<1> QED BY <1>1, <1>2 DEF SetOr

LEMMA SetOrSame ==
  ASSUME NEW x \in Fields, NEW i \in DOMAIN x, \A j \in 1..i - 1 : x[j].tag # x[i].tag, NEW idx
  PROVE  SetOr(x, x[i], idx) = x
<1> DEFINE f == x[i]
<1>1. f \in MsgFields /\ [x EXCEPT ![i] = x[i]] = x
  BY DEF Fields
<1> HIDE DEF f
<1>2. f.tag = x[i].tag
  BY DEF f
<1>3. SetOr(x, f, idx) = [x EXCEPT ![i] = f]
  BY <1>1, <1>2, SetOrAt
<1> QED BY <1>1, <1>3 DEF f

\* Where a tag is found, it does not matter which of the two sets it.
LEMMA SetInIs ==
  ASSUME NEW x \in Fields, NEW i \in DOMAIN x, \A j \in 1..i - 1 : x[j].tag # x[i].tag,
         NEW f \in MsgFields, f.tag = x[i].tag
  PROVE  SetIn(x, f) = SetOr(x, f, 0)
<1>1. f.tag \in Tags(x)
  BY FindFromAt
<1> QED BY <1>1 DEF SetIn, SetOr

\* A template: a header that starts as it should, a body, a trailer that ends
\* with the only CheckSum.
Framed(x) ==
  /\ x \in Fields /\ Len(x) >= 4 /\ x[Len(x)] = Field(CheckSum, 0)
  /\ x[1] = Field(BeginString, 0) /\ x[2] = Field(BodyLength, 0) /\ x[3].tag = MsgType
  /\ \A i \in 1..Len(x) - 1 : x[i].tag # CheckSum

LEMMA FramedFinds ==
  ASSUME NEW x, Framed(x)
  PROVE  /\ 1 \in DOMAIN x /\ 2 \in DOMAIN x /\ 3 \in DOMAIN x /\ Len(x) \in DOMAIN x /\ x \in Fields
         /\ x[1].tag = BeginString /\ x[2].tag = BodyLength /\ x[3].tag = MsgType /\ x[Len(x)].tag = CheckSum
         /\ \A i \in {1, 2, 3, Len(x)} : \A j \in 1..i - 1 : x[j].tag # x[i].tag
<1>1. x \in Fields /\ Len(x) \in Nat /\ Len(x) >= 4 /\ DOMAIN x = 1..Len(x)
  BY DEF Framed, Fields
<1>2. x[1].tag = 8 /\ x[2].tag = 9 /\ x[3].tag = 35 /\ x[Len(x)].tag = 10
  BY DEF Framed, Field, BeginString, BodyLength, MsgType, CheckSum
<1>3. \A j \in 1..1 - 1 : x[j].tag # x[1].tag
  OBVIOUS
<1>4. \A j \in 1..2 - 1 : x[j].tag # x[2].tag
  <2>1. \A j \in 1..2 - 1 : j = 1
    OBVIOUS
  <2> QED BY <1>2, <2>1
<1>5. \A j \in 1..3 - 1 : x[j].tag # x[3].tag
  <2>1. \A j \in 1..3 - 1 : j = 1 \/ j = 2
    OBVIOUS
  <2> QED BY <1>2, <2>1
<1>6. \A j \in 1..Len(x) - 1 : x[j].tag # x[Len(x)].tag
  BY <1>2 DEF Framed, CheckSum
<1>7. 1 \in DOMAIN x /\ 2 \in DOMAIN x /\ 3 \in DOMAIN x /\ Len(x) \in DOMAIN x
  BY <1>1
<1>8. x[1].tag = BeginString /\ x[2].tag = BodyLength /\ x[3].tag = MsgType /\ x[Len(x)].tag = CheckSum
  BY <1>2 DEF BeginString, BodyLength, MsgType, CheckSum
<1>9. \A i \in {1, 2, 3, Len(x)} : \A j \in 1..i - 1 : x[j].tag # x[i].tag
  <2> SUFFICES ASSUME NEW i \in {1, 2, 3, Len(x)} PROVE \A j \in 1..i - 1 : x[j].tag # x[i].tag
    OBVIOUS
  <2>1. i = 1 \/ i = 2 \/ i = 3 \/ i = Len(x)
    OBVIOUS
  <2> QED BY <1>3, <1>4, <1>5, <1>6, <2>1
<1> QED BY <1>1, <1>7, <1>8, <1>9

LEMMA FinalizeKeeps == ASSUME NEW x, Framed(x) PROVE Finalize(x) = x
<1> DEFINE n == Len(x)
           two == 2
           sized == SetOr(x, Field(BodyLength, 0), 1)
<1>1. /\ x \in Fields /\ two \in DOMAIN x /\ n \in DOMAIN x
      /\ (\A j \in 1..two - 1 : x[j].tag # x[two].tag) /\ \A j \in 1..n - 1 : x[j].tag # x[n].tag
  <2>1. \A i \in {1, 2, 3, Len(x)} : \A j \in 1..i - 1 : x[j].tag # x[i].tag
    BY FramedFinds
  <2>2. two \in {1, 2, 3, Len(x)} /\ n \in {1, 2, 3, Len(x)}
    OBVIOUS
  <2>3. x \in Fields /\ two \in DOMAIN x /\ n \in DOMAIN x
    BY FramedFinds
  <2> HIDE DEF two, n
  <2> QED BY <2>1, <2>2, <2>3
<1>2. x[two] = Field(BodyLength, 0) /\ x[n] = Field(CheckSum, 0)
  BY DEF Framed
<1> HIDE DEF two, n
<1>3. SetOr(x, x[two], 1) = x
  BY <1>1, SetOrSame
<1>4. SetOr(x, x[n], Len(x)) = x
  BY <1>1, SetOrSame
<1> QED BY <1>2, <1>3, <1>4 DEF Finalize

Templated(opts) == Build(opts, spec.header) \o Build(opts, spec.messages[Body]) \o Build(opts, spec.trailer)

LEMMA TemplateFramed ==
  ASSUME Usable, NEW opts, Repeats(opts)
  PROVE  /\ Framed(Templated(opts)) /\ Made(Templated(opts), Nat)
         /\ Build(opts, spec.header) \in Fields /\ Build(opts, spec.messages[Body]) \in Fields
         /\ Build(opts, spec.trailer) \in Fields
<1> DEFINE h == Build(opts, spec.header)
           b == Build(opts, spec.messages[Body])
           t == Build(opts, spec.trailer)
           others == Nat \ {CheckSum}
           f == Field(CheckSum, 0)
<1>1. /\ Apart(spec.header, AvailHeader) /\ Apart(spec.messages[Body], AvailBody)
      /\ AvailHeader \subseteq others /\ AvailBody \subseteq others
  <2>1. Demands(spec.trailer, CheckSum)
    BY DEF Usable, Capable
  <2>2. CheckSum \in Tags(spec.trailer)
    BY <2>1 DEF Demands
  <2> QED BY <2>2, Lists3Apart DEF AvailHeader, AvailBody
<1>2. PICK y : Made(y, others) /\ t = y \o <<f>>
  BY TrailerBuilt
<1>3. Made(h, AvailHeader) /\ Made(b, AvailBody)
  BY <1>1, BuildMade
<1>4. HeaderStarts(h)
  BY HeaderBuilt
<1>5. f \in MsgFields /\ f.tag = CheckSum /\ f.ok
  BY TagNumbers DEF Field, CheckSum
<1> HIDE DEF h, b, t, f, others
<1>6. Made(h, others) /\ Made(b, others)
  BY <1>1, <1>3, MadeMore
<1> DEFINE w == (h \o b) \o y
<1>7. Made(w, others)
  <2>1. Made(h \o b, others)
    BY <1>6, MadeJoined
  <2> QED BY <1>2, <2>1, MadeJoined
<1>8. h \in Fields /\ b \in Fields /\ y \in Fields /\ w \in Fields /\ h \o b \in Fields
  <2>1. h \in Fields /\ b \in Fields
    BY <1>6 DEF Made
  <2>2. h \o b \in Fields
    BY <2>1 DEF Fields
  <2> QED BY <1>2, <1>7, <2>1, <2>2 DEF Made
<1>9. (h \o b) \o t = w \o <<f>>
  <2> DEFINE x == h \o b
             z == <<f>>
  <2>1. z \in Fields /\ x \in Fields
    BY <1>5, <1>8 DEF Fields
  <2> HIDE DEF x, z
  <2>2. (x \o y) \o z = x \o (y \o z)
    BY <1>8, <2>1, ConcatAssociative DEF Fields
  <2> QED BY <1>2, <2>2 DEF x, z
<1>10. /\ Len(h) \in Nat /\ Len(w) \in Nat /\ Len(w) >= Len(h) /\ \A i \in 1..Len(h) : w[i] = h[i]
  <2> DEFINE x == h \o b
  <2>1. x \in Fields /\ Len(h) \in Nat /\ Len(x) >= Len(h) /\ \A i \in 1..Len(h) : x[i] = h[i]
    BY <1>8 DEF Fields
  <2> HIDE DEF x
  <2>2. Len(x) \in Nat /\ Len(x \o y) >= Len(x) /\ \A i \in 1..Len(x) : (x \o y)[i] = x[i]
    BY <1>8, <2>1 DEF Fields
  <2>3. w = x \o y
    BY DEF x
  <2>4. Len(w) \in Nat
    BY <1>8 DEF Fields
  <2> HIDE DEF w
  <2> QED BY <2>1, <2>2, <2>3, <2>4
<1> DEFINE r == w \o <<f>>
<1> HIDE DEF w
<1>11. r \in Fields /\ Len(r) = Len(w) + 1 /\ r[Len(w) + 1] = f /\ \A i \in 1..Len(w) : r[i] = w[i]
  BY <1>5, <1>8, OneJoined
<1> HIDE DEF r
<1>12. 1 \in 1..Len(h) /\ 2 \in 1..Len(h) /\ 3 \in 1..Len(h)
  BY <1>4, <1>10 DEF HeaderStarts
<1>13. \A i \in 1..Len(h) : r[i] = h[i]
  BY <1>10, <1>11
<1>14. r[1] = Field(BeginString, 0) /\ r[2] = Field(BodyLength, 0) /\ r[3] = Field(MsgType, 0)
  BY <1>4, <1>12, <1>13 DEF HeaderStarts
<1>15. \A i \in 1..Len(w) : w[i].tag \in others /\ w[i].ok
  <2>1. DOMAIN w = 1..Len(w)
    BY <1>8 DEF Fields
  <2> QED BY <1>7, <2>1 DEF Made
<1>16. \A i \in 1..Len(r) - 1 : r[i].tag # CheckSum
  <2>1. \A i \in 1..Len(r) - 1 : i \in 1..Len(w)
    BY <1>10, <1>11
  <2> QED BY <1>11, <1>15, <2>1 DEF others
<1>17. Len(r) >= 4 /\ r[Len(r)] = Field(CheckSum, 0)
  BY <1>4, <1>10, <1>11 DEF HeaderStarts, f
<1>18. r[3].tag = MsgType
  BY <1>14 DEF Field
<1>19. Framed(r)
  BY <1>11, <1>14, <1>16, <1>17, <1>18 DEF Framed
<1>20. Made(r, Nat)
  <2>1. Made(<<f>>, Nat)
    <3>1. <<f>> \in Fields /\ DOMAIN <<f>> = {1} /\ <<f>>[1] = f
      BY <1>5 DEF Fields
    <3>2. f.tag \in Nat
      BY <1>5 DEF MsgFields
    <3> QED BY <1>5, <3>1, <3>2 DEF Made
  <2>2. Made(w, Nat)
    <3>1. others \subseteq Nat
      BY DEF others
    <3> QED BY <1>7, <3>1, MadeMore
  <2> QED BY <2>1, <2>2, MadeJoined DEF r
<1>21. t \in Fields
  BY <1>2, <1>5, <1>8, OneJoined
<1>22. Templated(opts) = r
  BY <1>9 DEF Templated, h, b, t, r
<1> QED BY <1>8, <1>19, <1>20, <1>21, <1>22 DEF h, b, t

LEMMA SampledIs ==
  ASSUME Usable, NEW opts, Repeats(opts)
  PROVE  /\ Sampled(opts) = [Templated(opts) EXCEPT ![3] = Field(MsgType, Body)]
         /\ Framed(Sampled(opts))
<1> DEFINE r == Templated(opts)
           one == 1
           three == 3
           g == Field(MsgType, Body)
           m == [r EXCEPT ![three] = g]
<1>1. Framed(r)
  BY TemplateFramed
<1>2. /\ r \in Fields /\ one \in DOMAIN r /\ three \in DOMAIN r /\ r[three].tag = MsgType
      /\ (\A j \in 1..one - 1 : r[j].tag # r[one].tag) /\ \A j \in 1..three - 1 : r[j].tag # r[three].tag
  <2> HIDE DEF r
  <2>1. \A i \in {1, 2, 3, Len(r)} : \A j \in 1..i - 1 : r[j].tag # r[i].tag
    BY <1>1, FramedFinds
  <2>2. one \in {1, 2, 3, Len(r)} /\ three \in {1, 2, 3, Len(r)}
    OBVIOUS
  <2>3. r \in Fields /\ one \in DOMAIN r /\ three \in DOMAIN r /\ r[three].tag = MsgType
    BY <1>1, FramedFinds
  <2> HIDE DEF one, three
  <2> QED BY <2>1, <2>2, <2>3
<1>3. g \in MsgFields /\ g.tag = MsgType
  <2>1. Body \in Nat
    BY DEF Body
  <2> QED BY <2>1, TagNumbers DEF Field
<1>4. r[one] = Field(BeginString, 0) /\ r[one] \in MsgFields
  BY <1>1, TagNumbers DEF Framed
<1> HIDE DEF r, one, g
<1>5. SetIn(r, r[one]) = r
  <2> DEFINE f == r[one]
  <2>1. f \in MsgFields /\ f.tag = r[one].tag
    BY <1>4
  <2>2. SetOr(r, r[one], 0) = r
    BY <1>2, SetOrSame
  <2>3. SetIn(r, f) = SetOr(r, f, 0)
    <3> HIDE DEF f
    <3> QED BY <1>2, <2>1, SetInIs
  <2> QED BY <2>2, <2>3
<1>6. SetIn(r, g) = m
  <2> HIDE DEF three
  <2>1. SetIn(r, g) = SetOr(r, g, 0)
    BY <1>2, <1>3, SetInIs
  <2> QED BY <1>2, <1>3, <2>1, SetOrAt
<1>7. Framed(m)
  <2>0. Len(r) \in Nat /\ DOMAIN r = 1..Len(r) /\ Len(r) >= 4
    BY <1>1, <1>2 DEF Framed, Fields
  <2>1. m \in Fields
    BY <1>2, <1>3, ExceptType
  <2>2. Len(m) = Len(r) /\ m[3] = g /\ \A i \in 1..Len(r) : i # 3 => m[i] = r[i]
    BY <1>2, <2>0 DEF Fields
  <2> HIDE DEF m
  <2>3. m[1] = r[1] /\ m[2] = r[2] /\ m[Len(r)] = r[Len(r)]
    BY <2>0, <2>2
  <2>4. \A i \in 1..Len(m) - 1 : m[i].tag # CheckSum
    <3> SUFFICES ASSUME NEW i \in 1..Len(r) - 1 PROVE m[i].tag # CheckSum
      BY <2>2
    <3>1. CASE i = 3
      BY <1>3, <2>2, <3>1 DEF MsgType, CheckSum
    <3>2. CASE i # 3
      <4>1. i \in 1..Len(r) /\ m[i] = r[i]
        BY <2>0, <2>2, <3>2
      <4> QED BY <1>1, <4>1 DEF Framed
    <3> QED BY <3>1, <3>2
  <2> QED BY <1>1, <1>3, <2>0, <2>1, <2>2, <2>3, <2>4 DEF Framed
<1>8. Finalize(m) = m
  <2> HIDE DEF m
  <2> QED BY <1>7, FinalizeKeeps
<1>9. Sampled(opts) = m
  <2> HIDE DEF m
  <2> QED BY <1>4, <1>5, <1>6, <1>8 DEF Sampled, r, g, Templated
<1> QED BY <1>7, <1>9 DEF r, g

LEMMA SampledOccurs ==
  ASSUME Usable, NEW opts, Repeats(opts)
  PROVE  Occurs(Sampled(opts), 1, Templated(opts)) /\ Len(Sampled(opts)) = Len(Templated(opts))
<1> DEFINE r == Templated(opts)
           g == Field(MsgType, Body)
           m == Sampled(opts)
<1>1. r \in Fields /\ Len(r) \in Nat /\ DOMAIN r = 1..Len(r) /\ r[3].tag = MsgType /\ Len(r) >= 4
  <2>1. Framed(r)
    BY TemplateFramed
  <2> HIDE DEF r
  <2> QED BY <2>1 DEF Framed, Fields
<1>2. m = [r EXCEPT ![3] = g]
  BY SampledIs
<1>3. g.tag = MsgType /\ MsgType \in Mandatory
  BY HeaderTagsAre DEF Field
<1> HIDE DEF r, g, m
<1>4. Len(m) = Len(r) /\ m[3] = g /\ \A i \in 1..Len(r) : i # 3 => m[i] = r[i]
  BY <1>1, <1>2 DEF Fields
<1>5. ASSUME NEW j \in 1..Len(r)
      PROVE  m[1 + j - 1].tag = r[j].tag /\ (r[j].tag \notin Mandatory => m[1 + j - 1].n = r[j].n)
  <2>1. 1 + j - 1 = j
    BY <1>1
  <2>2. CASE j = 3
    BY <1>1, <1>3, <1>4, <2>1, <2>2
  <2>3. CASE j # 3
    BY <1>4, <2>1, <2>3
  <2> QED BY <2>2, <2>3
<1>6. 1 \in Nat /\ 1 <= 1 /\ 1 + Len(r) <= Len(m) + 1
  BY <1>1, <1>4
<1>7. Occurs(m, 1, r)
  BY <1>5, <1>6 DEF Occurs
<1> QED BY <1>4, <1>7 DEF m, r

LEMMA SampledParted ==
  ASSUME Usable, NEW opts, Repeats(opts)
  PROVE  Parted(Sampled(opts), Body)
<1> DEFINE h == Build(opts, spec.header)
           b == Build(opts, spec.messages[Body])
           t == Build(opts, spec.trailer)
           m == Sampled(opts)
           one == 1
           p == one + Len(h)
           q == one + Len(h \o b)
<1>1. h \in Fields /\ b \in Fields /\ t \in Fields
  BY TemplateFramed
<1>2. Occurs(m, one, (h \o b) \o t) /\ Len(m) = Len((h \o b) \o t)
  BY SampledOccurs DEF Templated
<1>3. IsMessage(m)
  BY SampledIs DEF Framed, IsMessage, Fields
<1>4. Apart(spec.header, AvailHeader) /\ Apart(spec.messages[Body], AvailBody) /\ Apart(spec.trailer, AvailTrailer)
  BY Lists3Apart
<1> HIDE DEF h, b, t, m
<1>5. h \o b \in Fields /\ Len(h \o b) = Len(h) + Len(b) /\ Len(h) \in Nat /\ Len(b) \in Nat /\ Len(t) \in Nat
      /\ Len((h \o b) \o t) = Len(h) + Len(b) + Len(t)
  BY <1>1 DEF Fields
<1> HIDE DEF one
<1>6. Occurs(m, one, h \o b) /\ Occurs(m, q, t)
  BY <1>1, <1>2, <1>3, <1>5, OccursSplit
<1>7. Occurs(m, one, h) /\ Occurs(m, p, b)
  BY <1>1, <1>3, <1>6, OccursSplit
<1>8. one = 1 /\ one \in Nat
  BY DEF one
<1> HIDE DEF p, q
<1>9. /\ Stands(m, Elements(spec.header), one, one + Len(h))
      /\ Stands(m, Elements(spec.messages[Body]), p, p + Len(b))
      /\ Stands(m, Elements(spec.trailer), q, q + Len(t))
  BY <1>3, <1>4, <1>6, <1>7, BuildStands DEF h, b, t
<1>10. p = one + Len(h) /\ q = p + Len(b) /\ q + Len(t) = Len(m) + 1 /\ Len(m) \in Nat
  BY <1>2, <1>5, <1>8 DEF p, q
<1>11. p \in Spots(m) /\ q \in p..Len(m) + 1
  BY <1>5, <1>8, <1>10 DEF Spots
<1>12. /\ Stands(m, Elements(spec.header), 1, p) /\ Stands(m, Elements(spec.messages[Body]), p, q)
       /\ Stands(m, Elements(spec.trailer), q, Len(m) + 1)
  BY <1>8, <1>9, <1>10
<1>13. Parted(m, Body)
  BY <1>11, <1>12 DEF Parted
<1> QED BY <1>13 DEF m

\* A framed message that has all mandatory tags has them in place.
LEMMA FramedInPlace ==
  ASSUME NEW m, Framed(m), m[3] = Field(MsgType, Body), \A i \in DOMAIN HeaderTags : HeaderTags[i] \in Tags(m)
  PROVE  ~Misplaced(m) /\ Get(m, MsgType).n = Body
<1>1. m \in Fields /\ Len(m) \in Nat /\ Len(m) >= 4
  BY DEF Framed, Fields
<1>2. /\ FindFrom(m, BeginString) = 0 /\ FindFrom(m, BodyLength) = 1 /\ FindFrom(m, MsgType) = 2
      /\ FindFrom(m, CheckSum) = Len(m) - 1
  <2> DEFINE one == 1
             two == 2
             three == 3
             n == Len(m)
  <2>1. \A i \in {1, 2, 3, Len(m)} : \A j \in 1..i - 1 : m[j].tag # m[i].tag
    BY FramedFinds
  <2>2. one \in {1, 2, 3, Len(m)} /\ two \in {1, 2, 3, Len(m)} /\ three \in {1, 2, 3, Len(m)} /\ n \in {1, 2, 3, Len(m)}
    OBVIOUS
  <2>3. /\ one \in DOMAIN m /\ two \in DOMAIN m /\ three \in DOMAIN m /\ n \in DOMAIN m
        /\ m[one].tag = BeginString /\ m[two].tag = BodyLength /\ m[three].tag = MsgType /\ m[n].tag = CheckSum
    BY FramedFinds
  <2>4. one - 1 = 0 /\ two - 1 = 1 /\ three - 1 = 2
    OBVIOUS
  <2> HIDE DEF one, two, three, n
  <2>5. \A i \in {one, two, three, n} : i \in DOMAIN m /\ \A j \in 1..i - 1 : m[j].tag # m[i].tag
    BY <2>1, <2>2, <2>3
  <2>6. \A i \in {one, two, three, n} : FindFrom(m, m[i].tag) = i - 1
    BY <1>1, <2>5, FindFromAt
  <2> QED BY <2>3, <2>4, <2>6 DEF n
<1>3. ASSUME NEW i \in DOMAIN HeaderTags
      PROVE  ~(FindFrom(m, HeaderTags[i]) = -1 \/ (i <= 3 /\ FindFrom(m, HeaderTags[i]) # i - 1))
  <2>1. FindFrom(m, HeaderTags[i]) \in Nat
    BY <1>1, FindFromType
  <2>2. i \in Nat /\ i >= 1
    BY HeaderTagsAre
  <2>3. i <= 3 => FindFrom(m, HeaderTags[i]) = i - 1
    <3>1. i <= 3 => i = 1 \/ i = 2 \/ i = 3
      BY <2>2
    <3>2. /\ FindFrom(m, HeaderTags[1]) = 1 - 1 /\ FindFrom(m, HeaderTags[2]) = 2 - 1
          /\ FindFrom(m, HeaderTags[3]) = 3 - 1
      BY <1>2, HeaderTagsAre
    <3> QED BY <3>1, <3>2
  <2> QED BY <2>1, <2>3
<1>4. FindFrom(m, CheckSum) \notin {-1} \cup 0..Len(m) - 2
  BY <1>1, <1>2
<1>5. ~Misplaced(m)
  BY <1>3, <1>4 DEF Misplaced
<1>6. Get(m, MsgType).n = Body
  <2>1. Get(m, MsgType) = m[3]
    <3>1. 2 + 1 = 3
      OBVIOUS
    <3> QED BY <1>2, <3>1 DEF Get
  <2> QED BY <2>1 DEF Field
<1> QED BY <1>5, <1>6

\* A template has its mandatory tags in place.
LEMMA SampledInPlace ==
  ASSUME Usable, NEW opts, Repeats(opts)
  PROVE  ~Misplaced(Sampled(opts)) /\ Get(Sampled(opts), MsgType).n = Body
<1> DEFINE h == Build(opts, spec.header)
           r == Templated(opts)
           m == Sampled(opts)
<1>1. Framed(m) /\ m = [r EXCEPT ![3] = Field(MsgType, Body)]
  BY SampledIs
<1>2. r \in Fields /\ Len(r) >= 4 /\ h \in Fields
  BY TemplateFramed DEF Framed
<1>3. Occurs(m, 1, h)
  <2> DEFINE one == 1
             x == h \o Build(opts, spec.messages[Body])
             t == Build(opts, spec.trailer)
             b == Build(opts, spec.messages[Body])
  <2>1. b \in Fields /\ t \in Fields /\ IsMessage(m)
    BY <1>1, TemplateFramed DEF Framed, IsMessage, Fields
  <2>2. Occurs(m, one, (h \o b) \o t)
    BY SampledOccurs DEF Templated
  <2> HIDE DEF one, b, t, h, m, x
  <2>3. h \o b \in Fields
    BY <1>2, <2>1 DEF Fields
  <2>4. Occurs(m, one, h \o b)
    BY <2>1, <2>2, <2>3, OccursSplit
  <2>5. Occurs(m, one, h)
    BY <1>2, <2>1, <2>4, OccursSplit
  <2> QED BY <2>5 DEF one
<1>4. \A i \in DOMAIN HeaderTags : \E k \in DOMAIN h : h[k].tag = HeaderTags[i]
  <2> SUFFICES ASSUME NEW i \in DOMAIN HeaderTags PROVE \E k \in DOMAIN h : h[k].tag = HeaderTags[i]
    OBVIOUS
  <2>1. PICK k \in DOMAIN spec.header : spec.header[k].tag = HeaderTags[i] /\ spec.header[k].required
    BY HeaderIs
  <2>2. spec.header \in Seq(Entries)
    BY Lists3Apart DEF Apart
  <2>3. spec.header[k].tag \in Tags(h)
    BY <2>1, <2>2, RequiredIsBuilt
  <2> QED BY <2>1, <2>3 DEF Tags
<1> HIDE DEF h, r, m
<1>5. \A i \in DOMAIN HeaderTags : HeaderTags[i] \in Tags(m)
  <2> SUFFICES ASSUME NEW i \in DOMAIN HeaderTags PROVE HeaderTags[i] \in Tags(m)
    OBVIOUS
  <2>1. PICK k \in DOMAIN h : h[k].tag = HeaderTags[i]
    BY <1>4
  <2>2. k \in 1..Len(h) /\ Len(h) \in Nat /\ m \in Fields
    BY <1>1, <1>2 DEF Fields, Framed
  <2>3. m[1 + k - 1].tag = h[k].tag /\ 1 + Len(h) <= Len(m) + 1
    BY <1>3, <2>2 DEF Occurs
  <2>4. 1 + k - 1 = k /\ k \in DOMAIN m
    BY <2>2, <2>3 DEF Fields
  <2> QED BY <2>1, <2>3, <2>4 DEF Tags
<1>6. m[3] = Field(MsgType, Body)
  BY <1>1, <1>2 DEF Fields
<1>7. ~Misplaced(m) /\ Get(m, MsgType).n = Body
  BY <1>1, <1>5, <1>6, FramedInPlace
<1> QED BY <1>7 DEF m

\* A template conforms to its specification.
LEMMA SampledConforms ==
  ASSUME Usable, NEW opts, Repeats(opts)
  PROVE  Conforms(Sampled(opts)) /\ IsMessage(Sampled(opts))
<1> DEFINE r == Templated(opts)
           m == Sampled(opts)
<1>1. ~Misplaced(m) /\ Get(m, MsgType).n = Body /\ Parted(m, Body) /\ Body \in DOMAIN spec.messages
  BY SampledInPlace, SampledParted DEF Usable
<1>2. Made(r, Nat) /\ m = [r EXCEPT ![3] = Field(MsgType, Body)] /\ m \in Fields
  BY TemplateFramed, SampledIs DEF Framed
<1>3. IsMessage(m)
  BY <1>2 DEF IsMessage, Fields
<1> HIDE DEF m, r
<1>4. \A i \in DOMAIN m : m[i].ok
  <2> SUFFICES ASSUME NEW i \in DOMAIN m PROVE m[i].ok
    OBVIOUS
  <2> DEFINE f == Field(MsgType, Body)
  <2>1. f.ok
    BY DEF Field
  <2> HIDE DEF f
  <2>2. i \in DOMAIN r /\ m[i] = IF i = 3 THEN f ELSE r[i]
    BY <1>2 DEF Made, Fields, f
  <2>3. r[i].ok
    BY <1>2, <2>2 DEF Made
  <2> QED BY <2>1, <2>2, <2>3
<1> QED BY <1>1, <1>3, <1>4, ConformsIs DEF m

-----------------------------------------------------------------------------
(* Salvage: what a template loses is put back.  What a list adds is cut and  *)
(* joined, as the list is, and loses what its pieces lose.                   *)

\* Two loops that start the same and go on the same are the same.
GoesOn(n, d, e) == \A i \in 1..n : d[i - 1] = e[i - 1] => d[i] = e[i]
SameTurns(n, d, e) == \A i \in 0..n : d[i] = e[i]

LEMMA TurnsAgree ==
  ASSUME NEW n \in Nat, NEW d, NEW e, d[0] = e[0], GoesOn(n, d, e)
  PROVE  SameTurns(n, d, e)
<1> DEFINE S == {i \in 0..n : d[i] = e[i]}
<1>1. 0 \in S
  OBVIOUS
<1>2. \A i \in 1..n : i - 1 \in S => i \in S
  BY DEF GoesOn
<1>3. \A i \in 0..n : i \in S
  <2> HIDE DEF S
  <2> QED BY <1>1, <1>2, CountingUp
<1> QED BY <1>3 DEF SameTurns

LEMMA ThreeJoined ==
  ASSUME NEW x \in Fields, NEW y \in Fields, NEW z \in Fields
  PROVE  (x \o y) \o z = x \o (y \o z)
BY DEF Fields

\* What a list that is no group adds.
Adding1(add, e) == add[<<e, FALSE>>]
All(add, list) == AddAll(add, list, FALSE)
Turning(d, add, list) ==
  /\ d[0] = <<>> /\ (\A i \in 0..Len(list) : d[i] \in Fields)
  /\ (\A i \in 1..Len(list) : Adding1(add, list[i]) \in Fields /\ d[i] = d[i - 1] \o Adding1(add, list[i]))
  /\ All(add, list) = d[Len(list)] /\ All(add, list) \in Fields

\* What a list adds, one entry after the other.
LEMMA AllTurns ==
  ASSUME NEW list \in Seq(Entries), NEW add, Adds(add, list)
  PROVE  Turning(AddTurns(add, list, FALSE), add, list)
<1> DEFINE d == AddTurns(add, list, FALSE)
<1>1. TurnsWell(add, list, FALSE)
  BY TurnsAre
<1>2. /\ d[0] = <<>> /\ \A i \in 0..Len(list) : d[i] \in Fields
      /\ \A i \in 1..Len(list) : d[i] = d[i - 1] \o add[<<list[i], Forced(FALSE, i)>>]
  BY <1>1 DEF TurnsWell
<1>3. \A i \in 1..Len(list) : Forced(FALSE, i) = FALSE
  BY DEF Forced
<1>4. All(add, list) = d[Len(list)]
  BY DEF All, AddAll
<1> HIDE DEF d
<1>5. Len(list) \in 0..Len(list) /\ DOMAIN list = 1..Len(list)
  OBVIOUS
<1>6. \A i \in 1..Len(list) : Adding1(add, list[i]) \in Fields
  BY <1>5 DEF Adds, Adding1
<1> QED BY <1>2, <1>3, <1>4, <1>5, <1>6 DEF Turning, Adding1, d

\* What two lists add when they are joined.
LEMMA AllJoined ==
  ASSUME NEW u \in Seq(Entries), NEW v \in Seq(Entries), NEW add, Adds(add, u), Adds(add, v)
  PROVE  /\ All(add, u \o v) = All(add, u) \o All(add, v) /\ Adds(add, u \o v)
         /\ All(add, u) \in Fields /\ All(add, v) \in Fields
<1> DEFINE l == u \o v
           p == Len(u)
           q == Len(v)
<1>1. /\ l \in Seq(Entries) /\ Len(l) = p + q /\ p \in Nat /\ q \in Nat
      /\ (\A i \in 1..p : l[i] = u[i]) /\ (\A i \in 1..q : l[p + i] = v[i])
      /\ DOMAIN u = 1..p /\ DOMAIN v = 1..q /\ DOMAIN l = 1..(p + q)
  OBVIOUS
<1> HIDE DEF l, p, q
<1>2. Adds(add, l)
  <2> SUFFICES ASSUME NEW i \in DOMAIN l, NEW b \in BOOLEAN PROVE add[<<l[i], b>>] \in Fields
    BY DEF Adds
  <2>1. CASE i <= p
    <3>1. i \in 1..p
      BY <1>1, <2>1
    <3> QED BY <3>1, <1>1 DEF Adds
  <2>2. CASE i > p
    <3>1. i - p \in 1..q /\ i = p + (i - p)
      BY <1>1, <2>2
    <3> QED BY <3>1, <1>1 DEF Adds
  <2> QED BY <1>1, <2>1, <2>2
<1>3. PICK d : Turning(d, add, l)
  BY <1>1, <1>2, AllTurns
<1>4. PICK f : Turning(f, add, u)
  BY AllTurns
<1>5. PICK g : Turning(g, add, v)
  BY AllTurns
<1>6. \A i \in 0..p : d[i] = f[i]
  <2>1. d[0] = f[0]
    BY <1>3, <1>4 DEF Turning
  <2>2. ASSUME NEW i \in 1..p, d[i - 1] = f[i - 1] PROVE d[i] = f[i]
    <3>1. i \in 1..Len(l) /\ i \in 1..Len(u) /\ l[i] = u[i]
      BY <1>1 DEF p
    <3>2. d[i] = d[i - 1] \o Adding1(add, l[i]) /\ f[i] = f[i - 1] \o Adding1(add, u[i])
      BY <1>3, <1>4, <3>1 DEF Turning
    <3> QED BY <2>2, <3>1, <3>2
  <2>3. GoesOn(p, d, f)
    BY <2>2 DEF GoesOn
  <2>4. SameTurns(p, d, f)
    BY <1>1, <2>1, <2>3, TurnsAgree
  <2> QED BY <2>4 DEF SameTurns
<1> DEFINE x == f[p]
           dd == [i \in 0..q |-> d[p + i]]
           gg == [i \in 0..q |-> x \o g[i]]
<1>7. x = d[p] /\ x = All(add, u) /\ x \in Fields
  BY <1>1, <1>4, <1>6 DEF Turning, p
<1>8. \A i \in 0..q : dd[i] = gg[i]
  <2>1. dd[0] = gg[0]
    <3>1. dd[0] = d[p] /\ gg[0] = x \o <<>>
      <4>1. 0 \in 0..q /\ p + 0 = p /\ g[0] = <<>>
        BY <1>1, <1>5 DEF Turning
      <4> HIDE DEF x
      <4> QED BY <4>1
    <3>2. x \o <<>> = x
      BY <1>7 DEF Fields
    <3> QED BY <3>1, <3>2, <1>7
  <2>2. ASSUME NEW i \in 1..q, dd[i - 1] = gg[i - 1] PROVE dd[i] = gg[i]
    <3> DEFINE e == Adding1(add, v[i])
    <3>1. /\ p + i \in 1..Len(l) /\ i \in 1..Len(v) /\ l[p + i] = v[i] /\ i \in 0..q /\ i - 1 \in 0..q
          /\ p + i - 1 = p + (i - 1) /\ i - 1 \in 0..Len(v)
      BY <1>1 DEF q
    <3>2. d[p + i] = d[p + i - 1] \o e /\ g[i] = g[i - 1] \o e /\ e \in Fields /\ g[i - 1] \in Fields
      <4>1. d[p + i] = d[p + i - 1] \o Adding1(add, l[p + i])
        <5> DEFINE j == p + i
        <5>1. j \in 1..Len(l)
          BY <3>1
        <5> HIDE DEF j
        <5>2. d[j] = d[j - 1] \o Adding1(add, l[j])
          BY <1>3, <5>1 DEF Turning
        <5>3. j - 1 = p + i - 1
          BY <1>1 DEF j
        <5> QED BY <5>2, <5>3 DEF j
      <4>2. g[i] = g[i - 1] \o Adding1(add, v[i]) /\ Adding1(add, v[i]) \in Fields
        BY <1>5, <3>1 DEF Turning
      <4>3. g[i - 1] \in Fields
        BY <1>5, <3>1 DEF Turning
      <4> QED BY <4>1, <4>2, <4>3, <3>1
    <3> HIDE DEF e, x
    <3>3. dd[i] = d[p + i] /\ gg[i] = x \o g[i] /\ d[p + (i - 1)] = x \o g[i - 1]
      BY <2>2, <3>1
    <3>4. (x \o g[i - 1]) \o e = x \o (g[i - 1] \o e)
      BY <1>7, <3>2, ThreeJoined
    <3> QED BY <3>1, <3>2, <3>3, <3>4
  <2> HIDE DEF dd, gg
  <2>3. GoesOn(q, dd, gg)
    BY <2>2 DEF GoesOn
  <2>4. SameTurns(q, dd, gg)
    BY <1>1, <2>1, <2>3, TurnsAgree
  <2> QED BY <2>4 DEF SameTurns
<1>9. d[p + q] = x \o g[q]
  <2>1. q \in 0..q
    BY <1>1
  <2> QED BY <1>8, <2>1
<1> HIDE DEF x
<1>10. All(add, l) = d[p + q] /\ All(add, v) = g[q] /\ All(add, v) \in Fields
  BY <1>1, <1>3, <1>5 DEF Turning, q
<1> QED BY <1>2, <1>7, <1>9, <1>10 DEF l

LEMMA AllOne ==
  ASSUME NEW e \in Entries, NEW add, \A b \in BOOLEAN : add[<<e, b>>] \in Fields
  PROVE  All(add, <<e>>) = add[<<e, FALSE>>] /\ Adds(add, <<e>>) /\ <<e>> \in Seq(Entries)
<1> DEFINE l == <<e>>
<1>1. l \in Seq(Entries) /\ Len(l) = 1 /\ l[1] = e /\ DOMAIN l = 1..1
  OBVIOUS
<1> HIDE DEF l
<1>2. Adds(add, l)
  BY <1>1 DEF Adds
<1>3. PICK d : Turning(d, add, l)
  BY <1>1, <1>2, AllTurns
<1>4. 1 \in 1..Len(l) /\ 1 - 1 = 0
  BY <1>1
<1>5. d[1] = d[1 - 1] \o Adding1(add, l[1]) /\ Adding1(add, l[1]) \in Fields /\ d[0] = <<>> /\ All(add, l) = d[1]
  BY <1>1, <1>3, <1>4 DEF Turning
<1>6. <<>> \o Adding1(add, e) = Adding1(add, e)
  BY <1>1, <1>5 DEF Fields
<1> QED BY <1>1, <1>2, <1>4, <1>5, <1>6 DEF l, Adding1

\* Entries that add the same make lists that do.
LEMMA AllAgree ==
  ASSUME NEW list \in Seq(Entries), NEW add, NEW other, Adds(add, list), Adds(other, list),
         \A i \in DOMAIN list : add[<<list[i], FALSE>>] = other[<<list[i], FALSE>>]
  PROVE  All(add, list) = All(other, list)
<1> DEFINE n == Len(list)
<1>1. PICK d : Turning(d, add, list)
  BY AllTurns
<1>2. PICK f : Turning(f, other, list)
  BY AllTurns
<1>3. n \in Nat /\ n \in 0..n /\ DOMAIN list = 1..n
  OBVIOUS
<1>4. \A i \in 0..n : d[i] = f[i]
  <2>1. d[0] = f[0]
    BY <1>1, <1>2 DEF Turning
  <2>2. ASSUME NEW i \in 1..n, d[i - 1] = f[i - 1] PROVE d[i] = f[i]
    <3>1. d[i] = d[i - 1] \o Adding1(add, list[i]) /\ f[i] = f[i - 1] \o Adding1(other, list[i])
      BY <1>1, <1>2 DEF Turning
    <3>2. Adding1(add, list[i]) = Adding1(other, list[i])
      BY <1>3 DEF Adding1
    <3> QED BY <2>2, <3>1, <3>2
  <2> HIDE DEF n
  <2>3. GoesOn(n, d, f)
    BY <2>2 DEF GoesOn
  <2>4. SameTurns(n, d, f)
    BY <1>3, <2>1, <2>3, TurnsAgree
  <2> QED BY <2>4 DEF SameTurns
<1> QED BY <1>1, <1>2, <1>3, <1>4 DEF Turning

\* Losing(m, lost), turn by turn.
LosingOf(k, m, lost) ==
  /\ k[0] = <<>> /\ (\A i \in 0..Len(m) : k[i] \in Fields)
  /\ (\A i \in 1..Len(m) : k[i] = k[i - 1] \o Kept(m[i], lost) /\ Kept(m[i], lost) \in Fields)
  /\ Losing(m, lost) = k[Len(m)] /\ Losing(m, lost) \in Fields

\* Losing has a function that goes through the fields.
LEMMA LosingTurns ==
  ASSUME NEW m \in Fields, NEW lost
  PROVE  \E k : LosingOf(k, m, lost)
<1> DEFINE n == Len(m)
           piece(i) == Kept(m[i], lost)
           turn == [p \in (1..n) \X Fields |-> p[2] \o piece(p[1])]
           Loop(d) == d = [i \in 0..n |-> IF i = 0 THEN <<>> ELSE d[i - 1] \o piece(i)]
           kept == CHOOSE d : Loop(d)
<1>1. n \in Nat /\ <<>> \in Fields /\ DOMAIN m = 1..n
  BY DEF Fields
<1>2. \A i \in 1..n : piece(i) \in Fields
  <2>1. \A i \in 1..n : m[i] \in MsgFields
    BY DEF Fields
  <2>2. \A f \in MsgFields : Kept(f, lost) \in Fields
    BY DEF Kept, Fields
  <2> QED BY <2>1, <2>2
<1> HIDE DEF piece
<1>3. turn \in [(1..n) \X Fields -> Fields]
  BY <1>2 DEF Fields
<1>4. \A i \in 1..n : \A s \in Fields : turn[<<i, s>>] = s \o piece(i)
  OBVIOUS
<1> HIDE DEF turn, n
<1>5. PICK d : LoopOf(d, n, <<>>, turn) /\ d \in [0..n -> Fields]
  BY <1>1, <1>3, Loops
<1>6. Loop(d)
  <2>1. ASSUME NEW i \in 0..n PROVE d[i] = IF i = 0 THEN <<>> ELSE d[i - 1] \o piece(i)
    <3>1. CASE i = 0
      BY <1>5, <3>1 DEF LoopOf
    <3>2. CASE i # 0
      <4>1. i \in 1..n /\ i - 1 \in 0..n
        BY <1>1, <3>2
      <4>2. d[i] = turn[<<i, d[i - 1]>>] /\ d[i - 1] \in Fields
        BY <1>5, <3>2, <4>1 DEF LoopOf
      <4> QED BY <1>4, <3>2, <4>1, <4>2
    <3> QED BY <3>1, <3>2
  <2>2. d = [i \in 0..n |-> d[i]]
    BY <1>5
  <2> QED BY <2>1, <2>2
<1>7. Loop(kept)
  BY <1>6
<1>8. Losing(m, lost) = kept[n]
  BY DEF Losing, n, piece
<1> HIDE DEF kept
<1>9. kept[0] = <<>> /\ \A i \in 1..n : kept[i] = kept[i - 1] \o piece(i)
  <2>1. \A i \in 0..n : kept[i] = IF i = 0 THEN <<>> ELSE kept[i - 1] \o piece(i)
    BY <1>7
  <2>2. 0 \in 0..n /\ \A i \in 1..n : i \in 0..n /\ i # 0
    BY <1>1
  <2> QED BY <2>1, <2>2
<1>10. d[0] = <<>> /\ \A i \in 1..n : d[i] = d[i - 1] \o piece(i)
  <2>1. \A i \in 0..n : d[i] = IF i = 0 THEN <<>> ELSE d[i - 1] \o piece(i)
    BY <1>6
  <2>2. 0 \in 0..n /\ \A i \in 1..n : i \in 0..n /\ i # 0
    BY <1>1
  <2> QED BY <2>1, <2>2
<1>11. \A i \in 0..n : kept[i] = d[i]
  <2>1. kept[0] = d[0]
    BY <1>9, <1>10
  <2>2. \A i \in 1..n : kept[i - 1] = d[i - 1] => kept[i] = d[i]
    BY <1>9, <1>10
  <2>3. GoesOn(n, kept, d)
    BY <2>2 DEF GoesOn
  <2>4. SameTurns(n, kept, d)
    BY <1>1, <2>1, <2>3, TurnsAgree
  <2> QED BY <2>4 DEF SameTurns
<1>12. \A i \in 0..n : kept[i] \in Fields
  BY <1>5, <1>11
<1>13. n \in 0..n
  BY <1>1
<1>14. LosingOf(kept, m, lost)
  BY <1>2, <1>8, <1>9, <1>12, <1>13 DEF LosingOf, n, piece
<1> QED BY <1>14

\* What is joined loses what its parts lose.
LEMMA LosingJoined ==
  ASSUME NEW x \in Fields, NEW y \in Fields, NEW lost
  PROVE  /\ Losing(x \o y, lost) = Losing(x, lost) \o Losing(y, lost)
         /\ Losing(x, lost) \in Fields /\ Losing(y, lost) \in Fields
<1> DEFINE l == x \o y
           p == Len(x)
           q == Len(y)
<1>1. /\ l \in Fields /\ Len(l) = p + q /\ p \in Nat /\ q \in Nat
      /\ (\A i \in 1..p : l[i] = x[i]) /\ (\A i \in 1..q : l[p + i] = y[i])
  BY DEF Fields
<1> HIDE DEF l, p, q
<1>3. PICK d : LosingOf(d, l, lost)
  BY <1>1, LosingTurns
<1>4. PICK f : LosingOf(f, x, lost)
  BY LosingTurns
<1>5. PICK g : LosingOf(g, y, lost)
  BY LosingTurns
<1>6. \A i \in 0..p : d[i] = f[i]
  <2>1. d[0] = f[0]
    BY <1>3, <1>4 DEF LosingOf
  <2>2. ASSUME NEW i \in 1..p, d[i - 1] = f[i - 1] PROVE d[i] = f[i]
    <3>1. i \in 1..Len(l) /\ i \in 1..Len(x) /\ l[i] = x[i]
      BY <1>1 DEF p
    <3>2. d[i] = d[i - 1] \o Kept(l[i], lost) /\ f[i] = f[i - 1] \o Kept(x[i], lost)
      BY <1>3, <1>4, <3>1 DEF LosingOf
    <3> QED BY <2>2, <3>1, <3>2
  <2>3. GoesOn(p, d, f)
    BY <2>2 DEF GoesOn
  <2>4. SameTurns(p, d, f)
    BY <1>1, <2>1, <2>3, TurnsAgree
  <2> QED BY <2>4 DEF SameTurns
<1> DEFINE w == f[p]
           dd == [i \in 0..q |-> d[p + i]]
           gg == [i \in 0..q |-> w \o g[i]]
<1>7. w = d[p] /\ w = Losing(x, lost) /\ w \in Fields
  BY <1>1, <1>4, <1>6 DEF LosingOf, p
<1>8. \A i \in 0..q : dd[i] = gg[i]
  <2>1. dd[0] = gg[0]
    <3>1. dd[0] = d[p] /\ gg[0] = w \o <<>>
      <4>1. 0 \in 0..q /\ p + 0 = p /\ g[0] = <<>>
        BY <1>1, <1>5 DEF LosingOf
      <4> HIDE DEF w
      <4> QED BY <4>1
    <3>2. w \o <<>> = w
      BY <1>7 DEF Fields
    <3> QED BY <3>1, <3>2, <1>7
  <2>2. ASSUME NEW i \in 1..q, dd[i - 1] = gg[i - 1] PROVE dd[i] = gg[i]
    <3> DEFINE e == Kept(y[i], lost)
    <3>1. /\ p + i \in 1..Len(l) /\ i \in 1..Len(y) /\ l[p + i] = y[i] /\ i \in 0..q /\ i - 1 \in 0..q
          /\ p + i - 1 = p + (i - 1) /\ i - 1 \in 0..Len(y)
      BY <1>1 DEF q
    <3>2. d[p + i] = d[p + i - 1] \o e /\ g[i] = g[i - 1] \o e /\ e \in Fields /\ g[i - 1] \in Fields
      <4>1. d[p + i] = d[p + i - 1] \o Kept(l[p + i], lost)
        <5> DEFINE j == p + i
        <5>1. j \in 1..Len(l)
          BY <3>1
        <5> HIDE DEF j
        <5>2. d[j] = d[j - 1] \o Kept(l[j], lost)
          BY <1>3, <5>1 DEF LosingOf
        <5>3. j - 1 = p + i - 1
          BY <1>1 DEF j
        <5> QED BY <5>2, <5>3 DEF j
      <4>2. g[i] = g[i - 1] \o Kept(y[i], lost) /\ Kept(y[i], lost) \in Fields
        BY <1>5, <3>1 DEF LosingOf
      <4>3. g[i - 1] \in Fields
        BY <1>5, <3>1 DEF LosingOf
      <4> QED BY <4>1, <4>2, <4>3, <3>1
    <3> HIDE DEF e, w
    <3>3. dd[i] = d[p + i] /\ gg[i] = w \o g[i] /\ d[p + (i - 1)] = w \o g[i - 1]
      BY <2>2, <3>1
    <3>4. (w \o g[i - 1]) \o e = w \o (g[i - 1] \o e)
      BY <1>7, <3>2, ThreeJoined
    <3> QED BY <3>1, <3>2, <3>3, <3>4
  <2> HIDE DEF dd, gg
  <2>3. GoesOn(q, dd, gg)
    BY <2>2 DEF GoesOn
  <2>4. SameTurns(q, dd, gg)
    BY <1>1, <2>1, <2>3, TurnsAgree
  <2> QED BY <2>4 DEF SameTurns
<1>9. d[p + q] = w \o g[q]
  <2>1. q \in 0..q
    BY <1>1
  <2> QED BY <1>8, <2>1
<1> HIDE DEF w
<1>10. Losing(l, lost) = d[p + q] /\ Losing(y, lost) = g[q] /\ Losing(y, lost) \in Fields
  BY <1>1, <1>3, <1>5 DEF LosingOf, q
<1> QED BY <1>7, <1>9, <1>10 DEF l

\* What has no lost tag stays.
LEMMA LosingNothing ==
  ASSUME NEW x \in Fields, NEW lost, \A i \in DOMAIN x : x[i].tag \notin lost
  PROVE  Losing(x, lost) = x
<1> DEFINE n == Len(x)
           g == [i \in 0..n |-> SubSeq(x, 1, i)]
<1>1. PICK k : LosingOf(k, x, lost)
  BY LosingTurns
<1>2. n \in Nat /\ DOMAIN x = 1..n /\ n \in 0..n /\ 0 \in 0..n
  BY DEF Fields
<1>3. \A i \in 0..n : k[i] = g[i]
  <2>1. k[0] = g[0]
    <3>1. k[0] = <<>>
      BY <1>1 DEF LosingOf
    <3>2. SubSeq(x, 1, 0) = <<>>
      BY DEF Fields
    <3> QED BY <1>2, <3>1, <3>2
  <2>2. ASSUME NEW i \in 1..n, k[i - 1] = g[i - 1] PROVE k[i] = g[i]
    <3>1. i \in 0..n /\ i - 1 \in 0..n
      BY <1>2
    <3>2. k[i] = k[i - 1] \o <<x[i]>>
      <4>1. k[i] = k[i - 1] \o Kept(x[i], lost)
        BY <1>1 DEF LosingOf
      <4> QED BY <4>1, <1>2 DEF Kept
    <3>3. SubSeq(x, 1, i - 1) \o <<x[i]>> = SubSeq(x, 1, i)
      BY <1>2 DEF Fields
    <3> QED BY <2>2, <3>1, <3>2, <3>3
  <2> HIDE DEF g, n
  <2>3. GoesOn(n, k, g)
    BY <2>2 DEF GoesOn
  <2>4. SameTurns(n, k, g)
    BY <1>2, <2>1, <2>3, TurnsAgree
  <2> QED BY <2>4 DEF SameTurns
<1>4. SubSeq(x, 1, n) = x
  BY DEF Fields
<1> QED BY <1>1, <1>2, <1>3, <1>4 DEF LosingOf

LEMMA LosingOne ==
  ASSUME NEW f \in MsgFields, NEW lost
  PROVE  Losing(<<f>>, lost) = Kept(f, lost)
<1> DEFINE x == <<f>>
<1>1. x \in Fields /\ Len(x) = 1 /\ x[1] = f
  BY DEF Fields
<1> HIDE DEF x
<1>2. PICK k : LosingOf(k, x, lost)
  BY <1>1, LosingTurns
<1>3. 1 \in 1..Len(x) /\ 1 - 1 = 0
  BY <1>1
<1>4. k[1] = k[1 - 1] \o Kept(x[1], lost) /\ k[0] = <<>> /\ Losing(x, lost) = k[1] /\ Kept(x[1], lost) \in Fields
  BY <1>1, <1>2, <1>3 DEF LosingOf
<1>5. <<>> \o Kept(f, lost) = Kept(f, lost)
  BY <1>1, <1>4 DEF Fields
<1> QED BY <1>1, <1>3, <1>4, <1>5 DEF x

\* What a list adds loses what its pieces lose.
LEMMA LosingAll ==
  ASSUME NEW list \in Seq(Entries), NEW add, NEW other, NEW lost, Adds(add, list), Adds(other, list),
         \A i \in DOMAIN list : Losing(add[<<list[i], FALSE>>], lost) = other[<<list[i], FALSE>>]
  PROVE  Losing(All(add, list), lost) = All(other, list)
<1> DEFINE n == Len(list)
           h == [i \in 0..n |-> Losing(AddTurns(add, list, FALSE)[i], lost)]
<1> DEFINE d == AddTurns(add, list, FALSE)
<1>1. Turning(d, add, list)
  BY AllTurns
<1> HIDE DEF d
<1>2. PICK f : Turning(f, other, list)
  BY AllTurns
<1>3. n \in Nat /\ n \in 0..n /\ DOMAIN list = 1..n /\ 0 \in 0..n
  OBVIOUS
<1>4. \A i \in 0..n : h[i] = Losing(d[i], lost)
  BY DEF d
<1> HIDE DEF h
<1>5. Losing(<<>>, lost) = <<>>
  <2>1. <<>> \in Fields /\ DOMAIN <<>> = {}
    BY DEF Fields
  <2> QED BY <2>1, LosingNothing
<1>6. \A i \in 0..n : h[i] = f[i]
  <2>1. h[0] = f[0]
    BY <1>1, <1>2, <1>3, <1>4, <1>5 DEF Turning
  <2>2. ASSUME NEW i \in 1..n, h[i - 1] = f[i - 1] PROVE h[i] = f[i]
    <3> DEFINE e == Adding1(add, list[i])
    <3>1. i \in 0..n /\ i - 1 \in 0..n
      BY <1>3
    <3>2. d[i] = d[i - 1] \o e /\ e \in Fields /\ d[i - 1] \in Fields /\ f[i] = f[i - 1] \o Adding1(other, list[i])
      BY <1>1, <1>2, <3>1 DEF Turning
    <3>3. Losing(e, lost) = Adding1(other, list[i])
      BY <1>3 DEF Adding1
    <3> HIDE DEF e
    <3>4. Losing(d[i - 1] \o e, lost) = Losing(d[i - 1], lost) \o Losing(e, lost)
      BY <3>2, LosingJoined
    <3> QED BY <1>4, <2>2, <3>1, <3>2, <3>3, <3>4
  <2> HIDE DEF n
  <2>3. GoesOn(n, h, f)
    BY <2>2 DEF GoesOn
  <2>4. SameTurns(n, h, f)
    BY <1>3, <2>1, <2>3, TurnsAgree
  <2> QED BY <2>4 DEF SameTurns
<1> QED BY <1>1, <1>2, <1>3, <1>4, <1>6 DEF Turning

\* No tag twice in a list of entries.
Distinct(list) == \A i, j \in DOMAIN list : list[i].tag = list[j].tag => i = j

LEMMA EntriesJoined ==
  ASSUME NEW x \in Seq(Entries), NEW y \in Seq(Entries)
  PROVE  /\ x \o y \in Seq(Entries) /\ Len(x \o y) = Len(x) + Len(y)
         /\ Len(x) \in Nat /\ DOMAIN x = 1..Len(x) /\ Len(y) \in Nat /\ DOMAIN y = 1..Len(y)
         /\ DOMAIN (x \o y) = 1..(Len(x) + Len(y))
         /\ (\A i \in 1..Len(x) : (x \o y)[i] = x[i])
         /\ \A i \in 1..Len(y) : (x \o y)[Len(x) + i] = y[i]
OBVIOUS

LEMMA EntriesAssociate ==
  ASSUME NEW x \in Seq(Entries), NEW y \in Seq(Entries), NEW z \in Seq(Entries)
  PROVE  (x \o y) \o z = x \o (y \o z)
OBVIOUS

\* The entries and tags of a joined list, and when they are distinct.
LEMMA JoinedParts ==
  ASSUME NEW x \in Seq(Entries), NEW y \in Seq(Entries)
  PROVE  /\ x \o y \in Seq(Entries) /\ Len(x \o y) = Len(x) + Len(y)
         /\ Elements(x \o y) = Elements(x) \cup Elements(y)
         /\ Tags(x \o y) = Tags(x) \cup Tags(y)
         /\ Distinct(x \o y) <=> Distinct(x) /\ Distinct(y) /\ Tags(x) \cap Tags(y) = {}
<1> DEFINE l == x \o y
           p == Len(x)
           q == Len(y)
<1>1. /\ l \in Seq(Entries) /\ Len(l) = p + q /\ p \in Nat /\ q \in Nat
      /\ (\A i \in 1..p : l[i] = x[i]) /\ (\A i \in 1..q : l[p + i] = y[i])
      /\ DOMAIN x = 1..p /\ DOMAIN y = 1..q /\ DOMAIN l = 1..(p + q)
  OBVIOUS
<1> HIDE DEF l, p, q
<1>2. \A i \in DOMAIN x : i \in DOMAIN l /\ l[i] = x[i] /\ i <= p
  BY <1>1
<1>3. \A i \in DOMAIN y : p + i \in DOMAIN l /\ l[p + i] = y[i] /\ p + i > p
  BY <1>1
<1>4. \A i \in DOMAIN l : \/ i \in DOMAIN x
                          \/ \E k \in DOMAIN y : i = p + k
  <2> SUFFICES ASSUME NEW i \in DOMAIN l, i \notin DOMAIN x PROVE \E k \in DOMAIN y : i = p + k
    OBVIOUS
  <2>1. i - p \in DOMAIN y /\ i = p + (i - p)
    BY <1>1
  <2> QED BY <2>1
<1>5. Elements(l) = Elements(x) \cup Elements(y)
  <2>1. ASSUME NEW e \in Elements(l) PROVE e \in Elements(x) \cup Elements(y)
    BY <1>2, <1>3, <1>4 DEF Elements
  <2>2. ASSUME NEW e \in Elements(x) PROVE e \in Elements(l)
    BY <1>2 DEF Elements
  <2>3. ASSUME NEW e \in Elements(y) PROVE e \in Elements(l)
    BY <1>3 DEF Elements
  <2> QED BY <2>1, <2>2, <2>3
<1>6. \A s : Tags(s) = {e.tag : e \in Elements(s)}
  BY DEF Tags, Elements
<1>7. Tags(l) = Tags(x) \cup Tags(y)
  BY <1>5, <1>6
<1>8. ASSUME Distinct(l) PROVE Distinct(x) /\ Distinct(y) /\ Tags(x) \cap Tags(y) = {}
  <2>1. Distinct(x)
    BY <1>2, <1>8 DEF Distinct
  <2>2. Distinct(y)
    <3> SUFFICES ASSUME NEW i \in DOMAIN y, NEW j \in DOMAIN y, y[i].tag = y[j].tag PROVE i = j
      BY DEF Distinct
    <3>1. p + i = p + j
      BY <1>3, <1>8 DEF Distinct
    <3> QED BY <1>1, <3>1
  <2>3. ASSUME NEW t \in Tags(x) \cap Tags(y) PROVE FALSE
    <3>1. PICK i \in DOMAIN x : x[i].tag = t
      BY <2>3 DEF Tags
    <3>2. PICK j \in DOMAIN y : y[j].tag = t
      BY <2>3 DEF Tags
    <3>3. i = p + j
      BY <1>2, <1>3, <1>8, <3>1, <3>2 DEF Distinct
    <3> QED BY <1>1, <3>3
  <2> QED BY <2>1, <2>2, <2>3
<1>9. ASSUME Distinct(x), Distinct(y), Tags(x) \cap Tags(y) = {} PROVE Distinct(l)
  <2> SUFFICES ASSUME NEW i \in DOMAIN l, NEW j \in DOMAIN l, l[i].tag = l[j].tag PROVE i = j
    BY DEF Distinct
  <2>1. CASE i \in DOMAIN x /\ j \in DOMAIN x
    BY <1>2, <1>9, <2>1 DEF Distinct
  <2>2. CASE i \in DOMAIN x /\ j \notin DOMAIN x
    <3>1. PICK k \in DOMAIN y : j = p + k
      BY <1>4, <2>2
    <3>2. l[i].tag \in Tags(x) /\ l[j].tag \in Tags(y)
      BY <1>2, <1>3, <2>2, <3>1 DEF Tags
    <3> QED BY <1>9, <3>2
  <2>3. CASE i \notin DOMAIN x /\ j \in DOMAIN x
    <3>1. PICK k \in DOMAIN y : i = p + k
      BY <1>4, <2>3
    <3>2. l[i].tag \in Tags(y) /\ l[j].tag \in Tags(x)
      BY <1>2, <1>3, <2>3, <3>1 DEF Tags
    <3> QED BY <1>9, <3>2
  <2>4. CASE i \notin DOMAIN x /\ j \notin DOMAIN x
    <3>1. PICK k \in DOMAIN y : i = p + k
      BY <1>4, <2>4
    <3>2. PICK h \in DOMAIN y : j = p + h
      BY <1>4, <2>4
    <3>3. k = h
      BY <1>3, <1>9, <3>1, <3>2 DEF Distinct
    <3> QED BY <3>1, <3>2, <3>3
  <2> QED BY <2>1, <2>2, <2>3, <2>4
<1> QED BY <1>1, <1>5, <1>7, <1>8, <1>9 DEF l, p, q

LEMMA OneParts ==
  ASSUME NEW e \in Entries
  PROVE  /\ <<e>> \in Seq(Entries) /\ Len(<<e>>) = 1
         /\ Elements(<<e>>) = {e} /\ Tags(<<e>>) = {e.tag} /\ Distinct(<<e>>)
<1>1. <<e>> \in Seq(Entries) /\ DOMAIN <<e>> = {1} /\ <<e>>[1] = e /\ Len(<<e>>) = 1
  OBVIOUS
<1> QED BY <1>1 DEF Elements, Tags, Distinct

\* A list, cut at one of its entries.
IsCut(v, a, x, y) ==
  /\ x \in Seq(Entries) /\ y \in Seq(Entries) /\ v[a] \in Entries
  /\ v = (x \o <<v[a]>>) \o y /\ Len(x) = a - 1
  /\ \A i \in 1..a - 1 : x[i] = v[i]

\* A list can be cut at each of its entries.
LEMMA CutAt ==
  ASSUME NEW v \in Seq(Entries), NEW a \in DOMAIN v
  PROVE  \E x, y : IsCut(v, a, x, y)
<1> DEFINE x == SubSeq(v, 1, a - 1)
           y == SubSeq(v, a + 1, Len(v))
           one == <<v[a]>>
<1>1. /\ x \in Seq(Entries) /\ y \in Seq(Entries) /\ v[a] \in Entries /\ one \in Seq(Entries)
      /\ Len(x) = a - 1 /\ Len(y) = Len(v) - a /\ Len(one) = 1 /\ one[1] = v[a]
      /\ a \in 1..Len(v) /\ Len(v) \in Nat
  OBVIOUS
<1>2. (\A i \in 1..a - 1 : x[i] = v[i]) /\ \A i \in 1..Len(v) - a : y[i] = v[a + i]
  OBVIOUS
<1> HIDE DEF x, y, one
<1>3. /\ x \o one \in Seq(Entries) /\ Len(x \o one) = a /\ (x \o one)[a] = v[a]
      /\ \A i \in 1..a - 1 : (x \o one)[i] = v[i]
  <2>1. /\ x \o one \in Seq(Entries) /\ Len(x \o one) = Len(x) + Len(one)
        /\ (\A i \in 1..Len(x) : (x \o one)[i] = x[i]) /\ \A i \in 1..Len(one) : (x \o one)[Len(x) + i] = one[i]
    BY <1>1, EntriesJoined
  <2> DEFINE s == x \o one
  <2> HIDE DEF s
  <2>2. s \in Seq(Entries) /\ Len(s) = a /\ Len(x) = a - 1 /\ Len(x) + 1 = a /\ 1 \in 1..Len(one)
    BY <1>1, <2>1 DEF s
  <2>3. s[Len(x) + 1] = one[1] /\ \A i \in 1..Len(x) : s[i] = x[i]
    BY <2>1, <2>2 DEF s
  <2>4. s[a] = v[a] /\ \A i \in 1..a - 1 : s[i] = v[i]
    BY <1>1, <1>2, <2>2, <2>3
  <2> QED BY <2>2, <2>4 DEF s
<1> DEFINE w == x \o one
           z == w \o y
<1> HIDE DEF w
<1>4. /\ z \in Seq(Entries) /\ Len(z) = Len(v) /\ (\A i \in 1..a : z[i] = w[i])
      /\ \A i \in 1..Len(v) - a : z[a + i] = y[i]
  <2>1. w \in Seq(Entries) /\ Len(w) = a
    BY <1>3 DEF w
  <2>2. /\ z \in Seq(Entries) /\ Len(z) = Len(w) + Len(y) /\ (\A i \in 1..Len(w) : z[i] = w[i])
        /\ \A i \in 1..Len(y) : z[Len(w) + i] = y[i]
    BY <1>1, <2>1, EntriesJoined
  <2> HIDE DEF z
  <2>3. Len(z) = Len(v)
    BY <1>1, <2>1, <2>2
  <2> QED BY <1>1, <2>1, <2>2, <2>3
<1> HIDE DEF z
<1>5. \A i \in 1..Len(v) : z[i] = v[i]
  <2> SUFFICES ASSUME NEW i \in 1..Len(v) PROVE z[i] = v[i]
    OBVIOUS
  <2>0. (\A k \in 1..a - 1 : w[k] = v[k]) /\ w[a] = v[a] /\ a \in Nat /\ i \in Nat /\ 1 <= i
    BY <1>1, <1>3 DEF w
  <2>1. CASE i < a
    <3>1. i \in 1..a - 1 /\ i \in 1..a
      BY <2>0, <2>1
    <3> QED BY <1>4, <2>0, <3>1
  <2>2. CASE i = a
    <3>1. a \in 1..a
      BY <1>1
    <3> QED BY <1>4, <2>0, <2>2, <3>1
  <2>3. CASE i > a
    <3>1. i - a \in 1..Len(v) - a /\ a + (i - a) = i
      BY <1>1, <2>3
    <3> QED BY <1>2, <1>4, <3>1
  <2> QED BY <1>1, <2>1, <2>2, <2>3
<1>6. z = v
  BY <1>4, <1>5
<1> QED BY <1>1, <1>2, <1>6 DEF IsCut, z, w, one

-----------------------------------------------------------------------------
\* Salvage has come to the i-th mandatory tag, which the last entry of u has;
\* the next ones are in v, in order.
Heads == {HeaderTags[i] : i \in DOMAIN HeaderTags}
Before(v, s, t) == \A a, b \in DOMAIN v : v[a].tag = s /\ v[b].tag = t => a < b
Ordered(v, i) == \A j, k \in DOMAIN HeaderTags : i < j /\ j < k => Before(v, HeaderTags[j], HeaderTags[k])
StartsWell(l) == \A k \in 1..3 : k \in DOMAIN l /\ l[k].tag = HeaderTags[k]
Rearranged(l) == l \in Seq(Entries) /\ Distinct(l) /\ Elements(l) = Elements(spec.header)

Placing(i, u, v) ==
  /\ u \in Seq(Entries) /\ v \in Seq(Entries) /\ Rearranged(u \o v)
  /\ \A j \in DOMAIN HeaderTags : HeaderTags[j] \in Tags(u) <=> j <= i
  /\ Ordered(v, i)
  /\ IF i < 3 THEN Len(u) = i /\ StartsWell(u \o v) ELSE StartsWell(u)

\* The next mandatory tag, and the two ways to go on: over what is before it,
\* or with it alone.
NextHead(i, u, v, e, x, y) ==
  /\ e \in Elements(spec.header) /\ e \in Entries /\ e.tag = HeaderTags[i + 1]
  /\ x \in Seq(Entries) /\ y \in Seq(Entries) /\ v = (x \o <<e>>) \o y
  /\ Tags(x) \cap Heads = {}
  /\ e.tag \notin Tags(u) /\ e.tag \notin Tags(x) /\ e.tag \notin Tags(y)
  /\ Placing(i + 1, (u \o x) \o <<e>>, y) /\ Placing(i + 1, u \o <<e>>, x \o y)

LEMMA NumbersOfHeads ==
  /\ DOMAIN HeaderTags = 1..Len(HeaderTags) /\ Len(HeaderTags) \in Nat /\ Len(HeaderTags) >= 3
BY HeaderTagsAre

LEMMA HeadsInHeader == ASSUME Usable, NEW j \in DOMAIN HeaderTags PROVE HeaderTags[j] \in Tags(spec.header)
<1>1. PICK k \in DOMAIN spec.header : spec.header[k].tag = HeaderTags[j]
  BY HeaderIs
<1> QED BY <1>1 DEF Tags

LEMMA TagsOfElements == \A s : Tags(s) = {e.tag : e \in Elements(s)}
BY DEF Tags, Elements

\* An order of two tags, with and without what comes before both.
LEMMA BeforeRest ==
  ASSUME NEW x \in Seq(Entries), NEW y \in Seq(Entries), NEW s, NEW t
  PROVE  /\ Before(x \o y, s, t) => Before(y, s, t)
         /\ Before(y, s, t) /\ s \notin Tags(x) /\ t \notin Tags(x) => Before(x \o y, s, t)
<1> DEFINE l == x \o y
           p == Len(x)
           q == Len(y)
<1>1. /\ p \in Nat /\ q \in Nat /\ (\A i \in 1..p : l[i] = x[i]) /\ (\A i \in 1..q : l[p + i] = y[i])
      /\ DOMAIN x = 1..p /\ DOMAIN y = 1..q /\ DOMAIN l = 1..(p + q)
  OBVIOUS
<1> HIDE DEF l, p, q
<1>2. ASSUME Before(l, s, t) PROVE Before(y, s, t)
  <2> SUFFICES ASSUME NEW a \in DOMAIN y, NEW b \in DOMAIN y, y[a].tag = s, y[b].tag = t PROVE a < b
    BY DEF Before
  <2>1. p + a \in DOMAIN l /\ p + b \in DOMAIN l /\ l[p + a].tag = s /\ l[p + b].tag = t
    BY <1>1
  <2>2. p + a < p + b
    BY <1>2, <2>1 DEF Before
  <2> QED BY <1>1, <2>2
<1>3. ASSUME Before(y, s, t), s \notin Tags(x), t \notin Tags(x) PROVE Before(l, s, t)
  <2> SUFFICES ASSUME NEW a \in DOMAIN l, NEW b \in DOMAIN l, l[a].tag = s, l[b].tag = t PROVE a < b
    BY DEF Before
  <2>1. a \notin DOMAIN x /\ b \notin DOMAIN x
    BY <1>1, <1>3 DEF Tags
  <2>2. a - p \in DOMAIN y /\ b - p \in DOMAIN y /\ a = p + (a - p) /\ b = p + (b - p)
    BY <1>1, <2>1
  <2>3. y[a - p].tag = s /\ y[b - p].tag = t
    BY <1>1, <2>2
  <2>4. a - p < b - p
    BY <1>3, <2>2, <2>3 DEF Before
  <2> QED BY <1>1, <2>4
<1> QED BY <1>2, <1>3 DEF l

\* Salvage finds the next mandatory tag in what is left of the header, and
\* whichever way it goes on, the header stays one that may be.
LEMMA PlacingNext ==
  ASSUME Usable, NEW i \in Nat, i + 1 \in DOMAIN HeaderTags, NEW u, NEW v, Placing(i, u, v)
  PROVE  \E e, x, y : NextHead(i, u, v, e, x, y)
<1> DEFINE t == HeaderTags[i + 1]
<1>1. u \in Seq(Entries) /\ v \in Seq(Entries) /\ Rearranged(u \o v)
  BY DEF Placing
<1>2. /\ Tags(u \o v) = Tags(u) \cup Tags(v) /\ Tags(u) \cap Tags(v) = {} /\ Distinct(u) /\ Distinct(v)
      /\ Elements(u \o v) = Elements(u) \cup Elements(v)
  BY <1>1, JoinedParts DEF Rearranged
<1>3. Tags(u \o v) = Tags(spec.header)
  BY <1>1, TagsOfElements DEF Rearranged
<1>4. t \in Tags(v) /\ t \notin Tags(u)
  <2>1. t \notin Tags(u)
    BY DEF Placing
  <2> QED BY <2>1, <1>2, <1>3, HeadsInHeader
<1>5. PICK a \in DOMAIN v : v[a].tag = t
  BY <1>4 DEF Tags
<1>6. PICK x, y : IsCut(v, a, x, y)
  BY <1>1, CutAt
<1> DEFINE e == v[a]
           one == <<e>>
<1>7. /\ x \in Seq(Entries) /\ y \in Seq(Entries) /\ e \in Entries /\ v = (x \o one) \o y
      /\ Len(x) = a - 1 /\ \A k \in 1..a - 1 : x[k] = v[k]
  BY <1>6 DEF IsCut
<1>8. a \in 1..Len(v) /\ Len(v) \in Nat /\ DOMAIN v = 1..Len(v) /\ DOMAIN x = 1..(a - 1)
  BY <1>1, <1>7
<1>9. e \in Elements(v) /\ e.tag = t
  BY <1>5 DEF Elements
<1> HIDE DEF e
<1>10. one \in Seq(Entries) /\ Len(one) = 1 /\ Elements(one) = {e} /\ Tags(one) = {t} /\ Distinct(one)
  BY <1>7, <1>9, OneParts
<1> HIDE DEF one
<1> DEFINE w == x \o one
<1>11. /\ w \in Seq(Entries) /\ Elements(w) = Elements(x) \cup {e} /\ Tags(w) = Tags(x) \cup {t}
       /\ Distinct(w) <=> Distinct(x) /\ t \notin Tags(x)
  BY <1>7, <1>10, JoinedParts
<1>12. v = w \o y
  BY <1>7
<1> HIDE DEF w
<1>13. /\ Elements(v) = Elements(x) \cup {e} \cup Elements(y) /\ Tags(v) = Tags(x) \cup {t} \cup Tags(y)
       /\ Distinct(x) /\ Distinct(y) /\ t \notin Tags(x) /\ t \notin Tags(y) /\ Tags(x) \cap Tags(y) = {}
  BY <1>2, <1>7, <1>11, <1>12, JoinedParts
<1>14. Tags(x) \cap Heads = {}
  <2> SUFFICES ASSUME NEW j \in DOMAIN HeaderTags, HeaderTags[j] \in Tags(x) PROVE FALSE
    BY DEF Heads
  <2>1. j \in Nat
    BY NumbersOfHeads
  <2>2. CASE j <= i
    <3>1. HeaderTags[j] \in Tags(u)
      BY <2>2 DEF Placing
    <3> QED BY <1>2, <1>13, <3>1
  <2>3. CASE j = i + 1
    BY <1>13, <2>3
  <2>4. CASE i + 1 < j
    <3>1. PICK b \in DOMAIN x : x[b].tag = HeaderTags[j]
      BY DEF Tags
    <3>2. b \in 1..a - 1 /\ b \in DOMAIN v /\ v[b].tag = HeaderTags[j]
      BY <1>7, <1>8, <3>1
    <3>3. Before(v, t, HeaderTags[j])
      <4>1. Ordered(v, i)
        BY DEF Placing
      <4>2. i < i + 1
        OBVIOUS
      <4> QED BY <2>4, <4>1, <4>2 DEF Ordered
    <3>4. a < b
      BY <1>5, <3>2, <3>3 DEF Before
    <3> QED BY <1>8, <3>2, <3>4
  <2> QED BY <2>1, <2>2, <2>3, <2>4
<1>15. Ordered(y, i + 1) /\ Ordered(x \o y, i + 1)
  <2> SUFFICES ASSUME NEW j \in DOMAIN HeaderTags, NEW k \in DOMAIN HeaderTags, i + 1 < j, j < k
               PROVE  Before(y, HeaderTags[j], HeaderTags[k]) /\ Before(x \o y, HeaderTags[j], HeaderTags[k])
    BY DEF Ordered
  <2>1. j \in Nat /\ i < j
    BY NumbersOfHeads
  <2>2. Before(v, HeaderTags[j], HeaderTags[k])
    BY <2>1 DEF Placing, Ordered
  <2>3. Before(y, HeaderTags[j], HeaderTags[k])
    BY <1>7, <1>11, <1>12, <2>2, BeforeRest
  <2>4. HeaderTags[j] \notin Tags(x) /\ HeaderTags[k] \notin Tags(x)
    BY <1>14 DEF Heads
  <2> QED BY <1>7, <2>3, <2>4, BeforeRest
<1> DEFINE u1 == (u \o x) \o one
           u2 == u \o one
           v2 == x \o y
<1>16. /\ u \o x \in Seq(Entries) /\ Elements(u \o x) = Elements(u) \cup Elements(x)
       /\ Tags(u \o x) = Tags(u) \cup Tags(x) /\ Distinct(u \o x) /\ Len(u \o x) = Len(u) + Len(x)
  <2>1. Tags(u) \cap Tags(x) = {}
    BY <1>2, <1>13
  <2> HIDE DEF t, e, one
  <2> QED BY <1>1, <1>2, <1>7, <1>13, <2>1, JoinedParts
<1>17. /\ u1 \in Seq(Entries) /\ Elements(u1) = Elements(u) \cup Elements(x) \cup {e}
       /\ Tags(u1) = Tags(u) \cup Tags(x) \cup {t} /\ Distinct(u1)
  <2> DEFINE s == u \o x
  <2>1. s \in Seq(Entries) /\ Distinct(s) /\ Elements(s) = Elements(u) \cup Elements(x) /\ Tags(s) = Tags(u) \cup Tags(x)
    BY <1>16
  <2> HIDE DEF s, t
  <2>2. Tags(s) \cap Tags(one) = {}
    BY <1>4, <1>10, <1>13, <2>1
  <2>3. /\ s \o one \in Seq(Entries) /\ Elements(s \o one) = Elements(s) \cup {e}
        /\ Tags(s \o one) = Tags(s) \cup {t} /\ Distinct(s \o one)
    BY <1>10, <2>1, <2>2, JoinedParts
  <2> QED BY <2>1, <2>3 DEF s
<1>18. /\ u2 \in Seq(Entries) /\ Elements(u2) = Elements(u) \cup {e} /\ Tags(u2) = Tags(u) \cup {t} /\ Distinct(u2)
       /\ Len(u2) = Len(u) + 1
  <2> HIDE DEF t
  <2>1. Tags(u) \cap Tags(one) = {}
    BY <1>4, <1>10
  <2> QED BY <1>1, <1>2, <1>10, <2>1, JoinedParts
<1>19. /\ v2 \in Seq(Entries) /\ Elements(v2) = Elements(x) \cup Elements(y) /\ Tags(v2) = Tags(x) \cup Tags(y)
       /\ Distinct(v2)
  BY <1>7, <1>13, JoinedParts
<1> DEFINE l == u \o v
<1>20. u1 \o y = l
  <2>1. v = (x \o one) \o y
    BY <1>7
  <2>2. u \o ((x \o one) \o y) = ((u \o x) \o one) \o y
    <3> DEFINE s == x \o one
    <3>0. s \in Seq(Entries)
      BY <1>7, <1>10, EntriesJoined
    <3>1. (u \o x) \o one = u \o s
      <4>1. one \in Seq(Entries)
        BY <1>10
      <4> HIDE DEF e
      <4> QED BY <1>1, <1>7, <4>1, EntriesAssociate
    <3> HIDE DEF s
    <3>2. (u \o s) \o y = u \o (s \o y)
      BY <1>1, <1>7, <3>0, EntriesAssociate
    <3> QED BY <3>1, <3>2 DEF s
  <2> QED BY <2>1, <2>2
<1> HIDE DEF u1, u2, v2, l
<1>21. Rearranged(l) /\ l = u \o v
  BY <1>1 DEF l
<1>22. Rearranged(u2 \o v2)
  <2>1. /\ u2 \o v2 \in Seq(Entries) /\ Elements(u2 \o v2) = Elements(u2) \cup Elements(v2)
        /\ Distinct(u2 \o v2) <=> Distinct(u2) /\ Distinct(v2) /\ Tags(u2) \cap Tags(v2) = {}
    BY <1>18, <1>19, JoinedParts
  <2>2. Tags(u2) \cap Tags(v2) = {}
    BY <1>2, <1>13, <1>18, <1>19
  <2>3. Elements(u2) \cup Elements(v2) = Elements(spec.header)
    BY <1>1, <1>2, <1>13, <1>18, <1>19 DEF Rearranged
  <2> QED BY <1>18, <1>19, <2>1, <2>2, <2>3 DEF Rearranged
<1>23. \A j \in DOMAIN HeaderTags : HeaderTags[j] \in Tags(u2) <=> j <= i + 1
  <2> SUFFICES ASSUME NEW j \in DOMAIN HeaderTags PROVE HeaderTags[j] \in Tags(u2) <=> j <= i + 1
    OBVIOUS
  <2>1. j \in Nat /\ (HeaderTags[j] \in Tags(u) <=> j <= i)
    BY NumbersOfHeads DEF Placing
  <2>2. CASE j <= i
    BY <1>18, <2>1, <2>2
  <2>3. CASE j = i + 1
    BY <1>18, <2>3
  <2>4. CASE i + 1 < j
    <3>1. HeaderTags[j] \notin Tags(u)
      BY <2>1, <2>4
    <3>2. HeaderTags[j] # t
      <4>1. Before(v, t, HeaderTags[j])
        <5>1. Ordered(v, i) /\ i < i + 1
          BY DEF Placing
        <5> QED BY <2>4, <5>1 DEF Ordered
      <4>2. HeaderTags[j] = t => a < a
        BY <4>1, <1>5 DEF Before
      <4> QED BY <4>2, <1>8
    <3>3. ~(j <= i + 1)
      BY <2>1, <2>4
    <3> QED BY <1>18, <3>1, <3>2, <3>3
  <2> QED BY <2>1, <2>2, <2>3, <2>4
<1>24. \A j \in DOMAIN HeaderTags : HeaderTags[j] \in Tags(u1) <=> j <= i + 1
  <2>1. \A j \in DOMAIN HeaderTags : HeaderTags[j] \notin Tags(x)
    BY <1>14 DEF Heads
  <2> QED BY <1>17, <1>18, <1>23, <2>1
<1>25. /\ IF i + 1 < 3 THEN Len(u1) = i + 1 /\ StartsWell(l) ELSE StartsWell(u1)
       /\ IF i + 1 < 3 THEN Len(u2) = i + 1 /\ StartsWell(u2 \o v2) ELSE StartsWell(u2)
  <2>0. Len(u) \in Nat /\ DOMAIN u = 1..Len(u)
    BY <1>1
  <2>1. CASE i < 3
    <3>1. Len(u) = i /\ StartsWell(l)
      BY <2>1 DEF Placing, l
    <3>2. i + 1 \in 1..3
      BY <2>1
    <3>3. l[i + 1].tag = t
      BY <3>1, <3>2 DEF StartsWell
    <3>4. l[i + 1] = v[1] /\ 1 \in DOMAIN v
      BY <1>1, <1>8, <3>1 DEF l
    <3>5. a = 1
      BY <1>2, <1>5, <3>3, <3>4 DEF Distinct
    <3>6. x = <<>>
      BY <1>7, <3>5
    <3>7. u \o x = u /\ x \o y = y
      BY <1>1, <1>7, <3>6
    <3>8. u1 = u2 /\ v2 = y
      BY <3>7 DEF u1, u2, v2
    <3>9. Len(u2) = i + 1 /\ u2 \o v2 = l
      BY <1>18, <1>20, <3>1, <3>8
    <3>10. ASSUME ~(i + 1 < 3) PROVE StartsWell(u2)
      <4>1. Len(u2) = 3 /\ DOMAIN u2 = 1..3
        BY <1>18, <2>1, <3>9, <3>10
      <4>2. \A k \in 1..3 : l[k] = u2[k]
        <5>1. \A k \in DOMAIN u2 : (u2 \o v2)[k] = u2[k]
          BY <1>18, <1>19
        <5> QED BY <3>9, <4>1, <5>1
      <4> QED BY <3>1, <4>1, <4>2 DEF StartsWell
    <3> QED BY <3>1, <3>8, <3>9, <3>10
  <2>2. CASE ~(i < 3)
    <3>1. StartsWell(u) /\ ~(i + 1 < 3)
      BY <2>2 DEF Placing
    <3>2. \A k \in DOMAIN u : k \in DOMAIN u2 /\ u2[k] = u[k]
      BY <1>1, <1>10 DEF u2
    <3>3. \A k \in DOMAIN u : k \in DOMAIN (u \o x) /\ (u \o x)[k] = u[k]
      BY <1>1, <1>7
    <3>4. \A k \in DOMAIN (u \o x) : k \in DOMAIN u1 /\ u1[k] = (u \o x)[k]
      BY <1>16, <1>10 DEF u1
    <3> QED BY <3>1, <3>2, <3>3, <3>4 DEF StartsWell
  <2> QED BY <2>1, <2>2
<1>26. Placing(i + 1, u1, y)
  BY <1>7, <1>15, <1>17, <1>20, <1>21, <1>24, <1>25 DEF Placing
<1>27. Placing(i + 1, u2, v2)
  BY <1>15, <1>18, <1>19, <1>22, <1>23, <1>25 DEF Placing, v2
<1>28. e \in Elements(spec.header)
  BY <1>1, <1>2, <1>9 DEF Rearranged
<1>29. NextHead(i, u, v, e, x, y)
  BY <1>4, <1>7, <1>9, <1>13, <1>14, <1>26, <1>27, <1>28 DEF NextHead, u1, u2, v2, one
<1> QED BY <1>29

-----------------------------------------------------------------------------
\* What an entry of the header adds to a template, where MsgType has its
\* number, and what is left of that.  Inside are the tags that groups may have.
Inside == AvailHeader \ Tags(spec.header)
HeadField(t) == Field(t, IF t = MsgType THEN Body ELSE 0)
Typed(opts) == [c \in Pairs |-> IF c[1].tag = MsgType THEN <<HeadField(MsgType)>> ELSE Adding(opts)[c]]
Remaining(opts, lost) == [c \in Pairs |-> IF c[1].tag \in lost THEN <<>> ELSE Typed(opts)[c]]
Losable(lost) == lost \subseteq Mandatory \ {MsgType}
OfHeader(u) == u \in Seq(Entries) /\ Elements(u) \subseteq Elements(spec.header)

\* Heads are in the header, and what groups have is not mandatory.
LEMMA HeaderFacts ==
  ASSUME Usable
  PROVE  /\ spec.header \in Seq(Entries) /\ Heads \subseteq Tags(spec.header) /\ MsgType \in Heads
         /\ CheckSum \notin AvailHeader /\ Tags(spec.header) \subseteq AvailHeader /\ AvailHeader \subseteq Nat
         /\ Inside \cap Tags(spec.header) = {} /\ Inside \cap Mandatory = {} /\ Mandatory = Heads \cup {CheckSum}
         /\ CheckSum \notin Heads /\ Heads \subseteq Nat
<1>1. spec.header \in Seq(Entries) /\ Tags(spec.header) \subseteq AvailHeader /\ AvailHeader \subseteq Nat
  BY Lists3Apart, ApartIs DEF Apart
<1>2. Heads \subseteq Tags(spec.header)
  BY HeadsInHeader DEF Heads
<1>3. CheckSum \in Tags(spec.trailer)
  BY DEF Usable, Capable, Demands
<1>4. CheckSum \notin AvailHeader
  BY <1>3 DEF AvailHeader
<1>5. Mandatory = Heads \cup {CheckSum}
  BY DEF Mandatory, Heads
<1>6. MsgType \in Heads
  BY HeaderTagsAre DEF Heads
<1> QED BY <1>1, <1>2, <1>4, <1>5, <1>6 DEF Inside

\* The mandatory entries of the header are required fields.
LEMMA HeadEntries ==
  ASSUME Usable, NEW e \in Elements(spec.header), e.tag \in Heads
  PROVE  e.required /\ ~e.isGroup
<1>1. PICK k \in DOMAIN spec.header : e = spec.header[k]
  BY DEF Elements
<1>2. PICK i \in DOMAIN HeaderTags : e.tag = HeaderTags[i]
  BY DEF Heads
<1>3. PICK j \in DOMAIN spec.header : spec.header[j].tag = HeaderTags[i] /\ spec.header[j].required
  BY HeaderIs
<1>4. Apart(spec.header, AvailHeader)
  BY Lists3Apart
<1>5. k = j
  BY <1>1, <1>2, <1>3, <1>4, ApartIs
<1>6. e.tag \in Mandatory
  BY <1>2, HeaderTagsAre
<1> QED BY <1>1, <1>3, <1>4, <1>5, <1>6, ApartIs

\* What an entry of the header adds, with the number that MsgType has.
LEMMA TypedIs ==
  ASSUME Usable, NEW opts, Repeats(opts), NEW c \in Pairs, c[1] \in Elements(spec.header)
  PROVE  /\ Made(Typed(opts)[c], {c[1].tag} \cup Inside)
         /\ c[1].tag = MsgType => Typed(opts)[c] = <<HeadField(MsgType)>>
         /\ c[1].tag # MsgType => Typed(opts)[c] = Adding(opts)[c]
         /\ c[1].tag \in Heads => Typed(opts)[c] = <<HeadField(c[1].tag)>>
<1> DEFINE e == c[1]
           b == c[2]
           H == spec.header
<1>1. PICK k \in DOMAIN H : e = H[k]
  BY DEF Elements
<1>2. Apart(H, AvailHeader) /\ H \in Seq(Entries)
  BY Lists3Apart DEF Apart
<1>3. e \in Entries /\ b \in BOOLEAN /\ c = <<e, b>>
  BY DEF Pairs
<1>5. PiecesMade(Adding(opts), H, AvailHeader)
  BY <1>2, PiecesAreMade
<1>6. Made(Adding(opts)[c], {e.tag} \cup Inside)
  BY <1>1, <1>3, <1>5 DEF PiecesMade, Inside
<1>7. (e.tag = MsgType => Typed(opts)[c] = <<HeadField(MsgType)>>) /\ (e.tag # MsgType => Typed(opts)[c] = Adding(opts)[c])
  BY DEF Typed
<1> HIDE DEF e, b, H
<1>8. Made(<<HeadField(MsgType)>>, {MsgType})
  <2> DEFINE f == HeadField(MsgType)
  <2>1. f \in MsgFields /\ f.tag = MsgType /\ f.ok
    <3>1. Body \in Nat /\ f = Field(MsgType, Body)
      BY DEF HeadField, Body
    <3> HIDE DEF f
    <3> QED BY <3>1, TagNumbers DEF Field
  <2> HIDE DEF f
  <2>2. <<f>> \in Fields /\ DOMAIN <<f>> = {1} /\ <<f>>[1] = f
    BY <2>1 DEF Fields
  <2> QED BY <2>1, <2>2 DEF Made, f
<1>9. Made(Typed(opts)[c], {e.tag} \cup Inside)
  <2>1. CASE e.tag = MsgType
    <3>1. {MsgType} \subseteq {e.tag} \cup Inside
      BY <2>1
    <3>2. Made(<<HeadField(MsgType)>>, {e.tag} \cup Inside)
      BY <1>8, <3>1, MadeMore
    <3> QED BY <1>7, <2>1, <3>2
  <2>2. CASE e.tag # MsgType
    BY <1>6, <1>7, <2>2
  <2> QED BY <2>1, <2>2
<1>10. ASSUME e.tag \in Heads PROVE Typed(opts)[c] = <<HeadField(e.tag)>>
  <2>1. CASE e.tag = MsgType
    BY <1>7, <2>1
  <2>2. CASE e.tag # MsgType
    <3>1. e.required /\ ~e.isGroup
      BY <1>10, HeadEntries DEF e
    <3>2. Adding(opts)[<<e, b>>] = <<Field(e.tag, 0)>>
      BY <1>3, <3>1, PieceStarts
    <3> QED BY <1>3, <1>7, <2>2, <3>2 DEF HeadField
  <2> QED BY <2>1, <2>2
<1> QED BY <1>7, <1>9, <1>10 DEF e

\* ... and what is left of it.
LEMMA RemainingIs ==
  ASSUME Usable, NEW opts, Repeats(opts), NEW lost, Losable(lost), NEW c \in Pairs, c[1] \in Elements(spec.header)
  PROVE  /\ Made(Remaining(opts, lost)[c], {c[1].tag} \cup Inside)
         /\ c[1].tag \in lost => Remaining(opts, lost)[c] = <<>>
         /\ c[1].tag \notin lost => Remaining(opts, lost)[c] = Typed(opts)[c]
         /\ Losing(Typed(opts)[c], lost) = Remaining(opts, lost)[c]
<1> DEFINE e == c[1]
           x == Typed(opts)[c]
           y == Remaining(opts, lost)[c]
           S == {e.tag} \cup Inside
<1>1. Made(x, S) /\ (e.tag \in Heads => x = <<HeadField(e.tag)>>)
  BY TypedIs
<1>3. (e.tag \in lost => y = <<>>) /\ (e.tag \notin lost => y = x)
  BY DEF Remaining
<1> HIDE DEF x, y
<1>4. Made(y, S)
  <2> HIDE DEF S
  <2> QED BY <1>1, <1>3, MadeNothing
<1>5. CASE e.tag \in lost
  <2>1. e.tag \in Heads /\ e.tag \in Nat
    <3>1. e.tag \in Tags(spec.header)
      BY DEF Elements, Tags
    <3> QED BY <1>5, <3>1, HeaderFacts DEF Losable
  <2> DEFINE f == HeadField(e.tag)
  <2>2. f \in MsgFields /\ f.tag = e.tag
    <3>1. f = Field(e.tag, 0) \/ f = Field(e.tag, Body)
      BY DEF HeadField
    <3>2. 0 \in Nat /\ Body \in Nat
      BY DEF Body
    <3> HIDE DEF f
    <3> QED BY <2>1, <3>1, <3>2, NewField DEF Field
  <2> HIDE DEF f
  <2>3. Losing(<<f>>, lost) = <<>>
    BY <1>5, <2>2, LosingOne DEF Kept
  <2>4. x = <<f>>
    BY <1>1, <2>1 DEF f
  <2> QED BY <1>3, <1>4, <1>5, <2>3, <2>4 DEF x, y
<1>6. CASE e.tag \notin lost
  <2>1. \A t \in S : t \notin lost
    BY <1>6, HeaderFacts DEF Losable
  <2>2. x \in Fields /\ \A i \in DOMAIN x : x[i].tag \notin lost
    BY <1>1, <2>1 DEF Made
  <2>3. Losing(x, lost) = x
    BY <2>2, LosingNothing
  <2> QED BY <1>3, <1>4, <1>6, <2>3 DEF x, y
<1> QED BY <1>5, <1>6

\* What lists of such entries add.
LEMMA HeaderAdds ==
  ASSUME Usable, NEW opts, Repeats(opts), NEW lost, Losable(lost), NEW u, OfHeader(u)
  PROVE  /\ Adds(Typed(opts), u) /\ Adds(Remaining(opts, lost), u)
         /\ Made(All(Typed(opts), u), Tags(u) \cup Inside)
         /\ Made(All(Remaining(opts, lost), u), Tags(u) \cup Inside)
         /\ Losing(All(Typed(opts), u), lost) = All(Remaining(opts, lost), u)
         /\ Tags(u) \cap Heads = {} => All(Remaining(opts, lost), u) = All(Typed(opts), u)
<1> DEFINE A == Typed(opts)
           P == Remaining(opts, lost)
           avail == Tags(u) \cup Inside
           no == FALSE
<1>1. u \in Seq(Entries) /\ \A i \in DOMAIN u : u[i] \in Elements(spec.header) /\ u[i] \in Entries
  BY DEF OfHeader, Elements
<1>2. \A i \in DOMAIN u : \A b \in BOOLEAN :
        /\ Made(A[<<u[i], b>>], {u[i].tag} \cup Inside) /\ Made(P[<<u[i], b>>], {u[i].tag} \cup Inside)
        /\ u[i].tag \notin lost => P[<<u[i], b>>] = A[<<u[i], b>>]
        /\ Losing(A[<<u[i], b>>], lost) = P[<<u[i], b>>]
  <2> SUFFICES ASSUME NEW i \in DOMAIN u, NEW b \in BOOLEAN
               PROVE  /\ Made(A[<<u[i], b>>], {u[i].tag} \cup Inside) /\ Made(P[<<u[i], b>>], {u[i].tag} \cup Inside)
                      /\ u[i].tag \notin lost => P[<<u[i], b>>] = A[<<u[i], b>>]
                      /\ Losing(A[<<u[i], b>>], lost) = P[<<u[i], b>>]
    OBVIOUS
  <2> DEFINE c == <<u[i], b>>
  <2>1. c \in Pairs /\ c[1] = u[i] /\ c[1] \in Elements(spec.header)
    BY <1>1 DEF Pairs
  <2> HIDE DEF c
  <2>2. Made(A[c], {c[1].tag} \cup Inside)
    BY <2>1, TypedIs
  <2>3. /\ Made(P[c], {c[1].tag} \cup Inside)
        /\ c[1].tag \notin lost => P[c] = A[c]
        /\ Losing(A[c], lost) = P[c]
    BY <2>1, RemainingIs
  <2> QED BY <2>1, <2>2, <2>3 DEF c
<1> HIDE DEF A, P
<1>3. Tags(u) \subseteq Tags(spec.header)
  BY TagsOfElements DEF OfHeader
<1>4. avail \ Tags(u) = Inside /\ Tags(u) \subseteq avail
  BY <1>3, HeaderFacts
<1>5. Adds(A, u) /\ Adds(P, u)
  BY <1>2 DEF Adds, Made
<1>6. PiecesMade(A, u, avail) /\ PiecesMade(P, u, avail)
  BY <1>2, <1>4 DEF PiecesMade
<1>7. no \in BOOLEAN
  OBVIOUS
<1> HIDE DEF avail, no
<1>8. Made(AddAll(A, u, no), avail) /\ Made(AddAll(P, u, no), avail)
  BY <1>1, <1>4, <1>5, <1>6, <1>7, AddAllMade
<1>9. Made(All(A, u), avail) /\ Made(All(P, u), avail)
  BY <1>8 DEF All, no
<1>10. \A i \in DOMAIN u : Losing(A[<<u[i], FALSE>>], lost) = P[<<u[i], FALSE>>]
  BY <1>2
<1>11. Losing(All(A, u), lost) = All(P, u)
  BY <1>1, <1>5, <1>10, LosingAll
<1>12. ASSUME Tags(u) \cap Heads = {} PROVE All(P, u) = All(A, u)
  <2>1. \A i \in DOMAIN u : u[i].tag \notin lost
    <3>1. \A i \in DOMAIN u : u[i].tag \in Tags(u)
      BY DEF Tags
    <3> QED BY <1>3, <1>12, <3>1, HeaderFacts DEF Losable
  <2>2. \A i \in DOMAIN u : P[<<u[i], FALSE>>] = A[<<u[i], FALSE>>]
    BY <1>2, <2>1
  <2> QED BY <1>1, <1>5, <2>2, AllAgree
<1> QED BY <1>5, <1>9, <1>11, <1>12 DEF A, P, avail

LEMMA MadeHas == ASSUME NEW x, NEW S, Made(x, S) PROVE Tags(x) \subseteq S /\ x \in Fields
BY DEF Made, Tags

-----------------------------------------------------------------------------
\* A field that is found where it should be, and one that is put there.
LEMMA FieldsJoined ==
  ASSUME NEW x \in Fields, NEW y \in Fields
  PROVE  /\ x \o y \in Fields /\ Len(x \o y) = Len(x) + Len(y)
         /\ Len(x) \in Nat /\ DOMAIN x = 1..Len(x) /\ Len(y) \in Nat /\ DOMAIN y = 1..Len(y)
         /\ DOMAIN (x \o y) = 1..(Len(x) + Len(y))
         /\ (\A i \in 1..Len(x) : (x \o y)[i] = x[i])
         /\ \A i \in 1..Len(y) : (x \o y)[Len(x) + i] = y[i]
BY DEF Fields

\* The first field with its tag is found where it is, and put there again
\* changes nothing.
LEMMA FoundAfter ==
  ASSUME NEW a \in Fields, NEW f \in MsgFields, NEW b \in Fields, f.tag \notin Tags(a)
  PROVE  /\ FindFrom((a \o <<f>>) \o b, f.tag) = Len(a)
         /\ [(a \o <<f>>) \o b EXCEPT ![Len(a) + 1] = f] = (a \o <<f>>) \o b
         /\ (a \o <<f>>) \o b \in Fields /\ Len(a) \in Nat
<1> DEFINE w == a \o <<f>>
           m == w \o b
           n == Len(a)
           k == n + 1
<1>1. w \in Fields /\ Len(w) = k /\ w[k] = f /\ \A i \in 1..n : w[i] = a[i]
  BY OneJoined
<1>2. n \in Nat /\ DOMAIN a = 1..n
  BY DEF Fields
<1> HIDE DEF w, n
<1>3. m \in Fields /\ DOMAIN m = 1..(k + Len(b)) /\ Len(b) \in Nat /\ \A i \in 1..k : m[i] = w[i]
  <2> HIDE DEF k
  <2>1. w \in Fields /\ Len(w) = k
    BY <1>1
  <2>2. /\ w \o b \in Fields /\ DOMAIN (w \o b) = 1..(Len(w) + Len(b)) /\ Len(b) \in Nat
        /\ \A i \in 1..Len(w) : (w \o b)[i] = w[i]
    BY <2>1, FieldsJoined
  <2> QED BY <2>1, <2>2
<1> HIDE DEF m
<1>4. k \in 1..k /\ k \in DOMAIN m /\ (\A i \in 1..k - 1 : i \in 1..k /\ i \in 1..n) /\ k - 1 = n
  BY <1>2, <1>3
<1>5. m[k] = f /\ \A i \in 1..k - 1 : m[i] = a[i] /\ i \in DOMAIN a
  BY <1>1, <1>2, <1>3, <1>4
<1>6. \A i \in 1..k - 1 : m[i].tag # m[k].tag
  BY <1>5 DEF Tags
<1> HIDE DEF k
<1>7. FindFrom(m, m[k].tag) = k - 1
  BY <1>3, <1>4, <1>6, FindFromAt
<1>8. [m EXCEPT ![k] = m[k]] = m
  BY <1>3 DEF Fields
<1> QED BY <1>2, <1>3, <1>4, <1>5, <1>7, <1>8 DEF m, w, k, n

\* A field is inserted between two parts.
LEMMA PutAt ==
  ASSUME NEW a \in Fields, NEW f \in MsgFields, NEW b \in Fields
  PROVE  Insert(a \o b, Len(a), f) = (a \o <<f>>) \o b
<1> DEFINE m == a \o b
           n == Len(a)
<1>1. /\ m \in Fields /\ Len(m) = n + Len(b) /\ n \in Nat /\ Len(b) \in Nat
      /\ (\A i \in 1..n : m[i] = a[i]) /\ \A i \in 1..Len(b) : m[n + i] = b[i]
  BY FieldsJoined
<1> HIDE DEF m, n
<1>2. CASE n >= Len(m)
  <2>1. b = <<>>
    <3>1. Len(b) = 0
      BY <1>1, <1>2
    <3> QED BY <3>1 DEF Fields
  <2>2. m = a
    BY <2>1 DEF m, Fields
  <2>3. Append(a, f) = a \o <<f>>
    BY DEF Fields
  <2>4. (a \o <<f>>) \o b = a \o <<f>>
    <3>1. a \o <<f>> \in Fields
      BY OneJoined
    <3> QED BY <2>1, <3>1 DEF Fields
  <2> QED BY <1>2, <2>2, <2>3, <2>4 DEF Insert, m, n
<1>3. CASE ~(n >= Len(m))
  <2>1. Insert(m, n, f) = SubSeq(m, 1, n) \o <<f>> \o SubSeq(m, n + 1, Len(m))
    <3>1. ~(n < 0 \/ n >= Len(m))
      BY <1>1, <1>3
    <3> QED BY <3>1, Zenon DEF Insert
  <2>2. SubSeq(m, 1, n) = a
    <3> DEFINE s == SubSeq(m, 1, n)
    <3>1. s \in Seq(MsgFields) /\ Len(s) = n /\ \A i \in 1..n : s[i] = m[i]
      BY <1>1 DEF Fields
    <3> HIDE DEF s
    <3> QED BY <1>1, <3>1 DEF s, n, Fields
  <2>3. SubSeq(m, n + 1, Len(m)) = b
    <3> DEFINE s == SubSeq(m, n + 1, Len(m))
               q == Len(b)
    <3>1. s \in Seq(MsgFields) /\ Len(s) = Len(m) - n /\ \A i \in 1..Len(m) - n : s[i] = m[n + i]
      BY <1>1, <1>3 DEF Fields
    <3>2. Len(m) - n = q
      BY <1>1
    <3> HIDE DEF s
    <3> HIDE DEF q
    <3>3. Len(s) = q /\ \A i \in 1..q : s[i] = b[i]
      BY <1>1, <3>1, <3>2 DEF q
    <3>4. b \in Seq(MsgFields) /\ Len(b) = q
      BY DEF Fields, q
    <3>5. s = b
      BY <3>1, <3>3, <3>4
    <3> QED BY <3>5 DEF s
  <2> QED BY <2>1, <2>2, <2>3 DEF m, n
<1> QED BY <1>2, <1>3 DEF m, n

-----------------------------------------------------------------------------
\* The tags of what is joined.
LEMMA TagsJoined ==
  ASSUME NEW x \in Fields, NEW y \in Fields PROVE Tags(x \o y) = Tags(x) \cup Tags(y)
<1> DEFINE m == x \o y
           n == Len(x)
           q == Len(y)
<1>1. /\ n \in Nat /\ q \in Nat /\ DOMAIN x = 1..n /\ DOMAIN y = 1..q /\ DOMAIN m = 1..(n + q)
      /\ (\A i \in 1..n : m[i] = x[i]) /\ \A i \in 1..q : m[n + i] = y[i]
  BY FieldsJoined
<1> HIDE DEF m, n, q
<1>2. ASSUME NEW i \in DOMAIN x PROVE x[i].tag \in Tags(m)
  <2>1. i \in DOMAIN m /\ m[i] = x[i]
    BY <1>1
  <2> QED BY <2>1 DEF Tags
<1>3. ASSUME NEW i \in DOMAIN y PROVE y[i].tag \in Tags(m)
  <2>1. n + i \in DOMAIN m /\ m[n + i] = y[i]
    BY <1>1
  <2> QED BY <2>1 DEF Tags
<1>4. ASSUME NEW i \in DOMAIN m PROVE m[i].tag \in Tags(x) \cup Tags(y)
  <2>1. CASE i <= n
    <3>1. i \in DOMAIN x /\ m[i] = x[i]
      BY <1>1, <2>1
    <3> QED BY <3>1 DEF Tags
  <2>2. CASE ~(i <= n)
    <3>1. i - n \in DOMAIN y /\ i = n + (i - n)
      BY <1>1, <2>2
    <3>2. m[i] = y[i - n]
      BY <1>1, <3>1
    <3> QED BY <3>1, <3>2 DEF Tags
  <2> QED BY <2>1, <2>2
<1>5. Tags(m) = {m[i].tag : i \in DOMAIN m} /\ Tags(x) = {x[i].tag : i \in DOMAIN x} /\ Tags(y) = {y[i].tag : i \in DOMAIN y}
  BY DEF Tags
<1>6. Tags(m) \subseteq Tags(x) \cup Tags(y)
  BY <1>4, <1>5
<1>7. Tags(x) \subseteq Tags(m) /\ Tags(y) \subseteq Tags(m)
  BY <1>2, <1>3, <1>5
<1> QED BY <1>6, <1>7 DEF m

\* Parts of the header, joined and apart.
LEMMA OfHeaderJoined ==
  ASSUME NEW x \in Seq(Entries), NEW y \in Seq(Entries)
  PROVE  OfHeader(x \o y) <=> OfHeader(x) /\ OfHeader(y)
BY JoinedParts DEF OfHeader

\* What salvage has made of a template that lost some tags, when it has come
\* to the i-th mandatory tag: the rest of the message has none of them.
Salvaging(opts, lost, rest, i, done) ==
  \E u, v : /\ Placing(i, u, v)
            /\ done.m = (All(Typed(opts), u) \o All(Remaining(opts, lost), v)) \o rest
            /\ done.pos = Len(All(Typed(opts), u))

\* The fields that an entry with a mandatory tag adds, and what is left of it.
LEMMA HeadAdds ==
  ASSUME Usable, NEW opts, Repeats(opts), NEW lost, Losable(lost), NEW e \in Elements(spec.header), e.tag \in Heads
  PROVE  /\ e \in Entries /\ OfHeader(<<e>>)
         /\ HeadField(e.tag) \in MsgFields /\ HeadField(e.tag).tag = e.tag
         /\ All(Typed(opts), <<e>>) = <<HeadField(e.tag)>>
         /\ e.tag \in lost => All(Remaining(opts, lost), <<e>>) = <<>>
         /\ e.tag \notin lost => All(Remaining(opts, lost), <<e>>) = <<HeadField(e.tag)>>
<1> DEFINE A == Typed(opts)
           P == Remaining(opts, lost)
           c == <<e, FALSE>>
           f == HeadField(e.tag)
<1>1. e \in Entries
  BY HeaderFacts DEF Elements
<1>2. <<e>> \in Seq(Entries) /\ Elements(<<e>>) = {e}
  BY <1>1, OneParts
<1>3. OfHeader(<<e>>)
  BY <1>2 DEF OfHeader
<1>4. f \in MsgFields /\ f.tag = e.tag
  <2>1. f = Field(e.tag, 0) \/ f = Field(e.tag, Body)
    BY DEF HeadField
  <2>2. 0 \in Nat /\ Body \in Nat /\ e.tag \in Nat
    BY HeaderFacts DEF Body
  <2> HIDE DEF f
  <2> QED BY <2>1, <2>2, NewField DEF Field
<1> HIDE DEF f
<1>5. \A b \in BOOLEAN : A[<<e, b>>] \in Fields /\ P[<<e, b>>] \in Fields
  <2> SUFFICES ASSUME NEW b \in BOOLEAN PROVE A[<<e, b>>] \in Fields /\ P[<<e, b>>] \in Fields
    OBVIOUS
  <2> DEFINE d == <<e, b>>
  <2>1. d \in Pairs /\ d[1] \in Elements(spec.header)
    BY <1>1 DEF Pairs
  <2> HIDE DEF d
  <2>2. Made(A[d], {d[1].tag} \cup Inside) /\ Made(P[d], {d[1].tag} \cup Inside)
    BY <2>1, TypedIs, RemainingIs
  <2> QED BY <2>2 DEF Made, d
<1>6. c \in Pairs /\ c[1] = e
  BY <1>1 DEF Pairs
<1> HIDE DEF c
<1>7. A[c] = <<f>> /\ (e.tag \in lost => P[c] = <<>>) /\ (e.tag \notin lost => P[c] = <<f>>)
  <2>1. c[1] \in Elements(spec.header) /\ c[1].tag \in Heads
    BY <1>6
  <2>2. A[c] = <<HeadField(c[1].tag)>>
    BY <1>6, <2>1, TypedIs
  <2>3. (c[1].tag \in lost => P[c] = <<>>) /\ (c[1].tag \notin lost => P[c] = A[c])
    BY <1>6, <2>1, RemainingIs
  <2> QED BY <1>6, <2>2, <2>3 DEF f
<1> HIDE DEF A, P
<1>8. All(A, <<e>>) = A[<<e, FALSE>>] /\ All(P, <<e>>) = P[<<e, FALSE>>]
  BY <1>1, <1>5, AllOne
<1> QED BY <1>1, <1>3, <1>4, <1>7, <1>8 DEF A, P, c, f

\* SalvageTag comes from one mandatory tag to the next, whether the message
\* still has it or it got lost.
LEMMA SalvageGoesOn ==
  ASSUME Usable, NEW opts, Repeats(opts), NEW lost, Losable(lost), NEW rest, Made(rest, Nat \ Heads),
         NEW i \in Nat, i + 1 \in DOMAIN HeaderTags, NEW done, Salvaging(opts, lost, rest, i, done)
  PROVE  Salvaging(opts, lost, rest, i + 1, SalvageTag(HeaderTags[i + 1], done))
<1> DEFINE A == Typed(opts)
           P == Remaining(opts, lost)
           t == HeaderTags[i + 1]
<1>1. PICK u, v : /\ Placing(i, u, v)
                  /\ done.m = (All(A, u) \o All(P, v)) \o rest
                  /\ done.pos = Len(All(A, u))
  BY DEF Salvaging
<1>2. PICK e, x, y : NextHead(i, u, v, e, x, y)
  BY <1>1, PlacingNext
<1> DEFINE one == <<e>>
           f == HeadField(t)
<1>3. /\ e \in Elements(spec.header) /\ e.tag = t /\ t \in Heads
      /\ x \in Seq(Entries) /\ y \in Seq(Entries) /\ v = (x \o one) \o y
      /\ Tags(x) \cap Heads = {} /\ t \notin Tags(u) /\ t \notin Tags(x) /\ t \notin Tags(y)
      /\ u \in Seq(Entries) /\ v \in Seq(Entries) /\ OfHeader(u \o v)
  <2>1. t \in Heads
    BY DEF Heads
  <2>2. u \in Seq(Entries) /\ v \in Seq(Entries) /\ Rearranged(u \o v)
    BY <1>1 DEF Placing
  <2>3. OfHeader(u \o v)
    BY <2>2 DEF Rearranged, OfHeader
  <2> QED BY <1>2, <2>1, <2>2, <2>3 DEF NextHead
<1>4. Placing(i + 1, (u \o x) \o one, y) /\ Placing(i + 1, u \o one, x \o y)
  BY <1>2 DEF NextHead
<1>5. /\ OfHeader(one) /\ f \in MsgFields /\ f.tag = t /\ All(A, one) = <<f>>
      /\ t \in lost => All(P, one) = <<>>
      /\ t \notin lost => All(P, one) = <<f>>
  BY <1>3, HeadAdds
<1> HIDE DEF one, f, t, A, P
<1>6. one \in Seq(Entries)
  BY <1>5 DEF OfHeader
<1> DEFINE xe == x \o one
           ux == u \o x
<1>7. xe \in Seq(Entries) /\ ux \in Seq(Entries)
  BY <1>3, <1>6, EntriesJoined
<1>8. OfHeader(u) /\ OfHeader(v)
  BY <1>3, OfHeaderJoined
<1>9. OfHeader(xe) /\ OfHeader(y)
  <2> HIDE DEF xe
  <2> QED BY <1>3, <1>7, <1>8, OfHeaderJoined DEF xe
<1>10. OfHeader(x)
  BY <1>3, <1>6, <1>9, OfHeaderJoined
<1>11. \A l : OfHeader(l) => /\ l \in Seq(Entries) /\ Adds(A, l) /\ Adds(P, l)
                             /\ Made(All(A, l), Tags(l) \cup Inside) /\ Made(All(P, l), Tags(l) \cup Inside)
  BY HeaderAdds DEF A, P, OfHeader
<1> DEFINE a == All(A, u)
           ax == All(A, x)
           px == All(P, x)
           pe == All(P, one)
           py == All(P, y)
<1>12. /\ a \in Fields /\ ax \in Fields /\ px \in Fields /\ pe \in Fields /\ py \in Fields
       /\ Tags(a) \subseteq Tags(u) \cup Inside /\ Tags(ax) \subseteq Tags(x) \cup Inside
       /\ Tags(py) \subseteq Tags(y) \cup Inside
  BY <1>5, <1>8, <1>9, <1>10, <1>11, MadeHas
<1>13. px = ax
  BY <1>3, <1>10, HeaderAdds DEF A, P
<1>14. All(A, ux) = a \o ax /\ Adds(A, ux)
  BY <1>3, <1>8, <1>10, <1>11, AllJoined
<1>15. All(A, ux \o one) = (a \o ax) \o <<f>>
  <2>1. Adds(A, one) /\ Adds(A, ux) /\ ux \in Seq(Entries)
    BY <1>5, <1>7, <1>11, <1>14
  <2> HIDE DEF ux
  <2>2. All(A, ux \o one) = All(A, ux) \o All(A, one)
    BY <1>6, <2>1, AllJoined
  <2> HIDE DEF a, ax
  <2> QED BY <1>5, <1>14, <2>2 DEF ux
<1>16. All(A, u \o one) = a \o <<f>>
  <2>1. Adds(A, one) /\ Adds(A, u)
    BY <1>5, <1>8, <1>11
  <2>2. All(A, u \o one) = All(A, u) \o All(A, one)
    BY <1>3, <1>6, <2>1, AllJoined
  <2> QED BY <1>5, <2>2
<1>17. All(P, xe) = px \o pe /\ Adds(P, xe)
  <2>1. x \in Seq(Entries) /\ one \in Seq(Entries) /\ Adds(P, x) /\ Adds(P, one)
    BY <1>3, <1>5, <1>6, <1>10, <1>11
  <2> HIDE DEF one, A, P, f
  <2>2. All(P, x \o one) = All(P, x) \o All(P, one) /\ Adds(P, x \o one)
    BY <2>1, AllJoined
  <2> QED BY <2>2
<1>18. All(P, v) = (px \o pe) \o py
  <2>1. All(P, xe \o y) = All(P, xe) \o py
    <3>1. xe \in Seq(Entries) /\ Adds(P, xe) /\ Adds(P, y)
      BY <1>7, <1>9, <1>11, <1>17
    <3> HIDE DEF xe
    <3> QED BY <1>3, <3>1, AllJoined
  <2> QED BY <1>3, <1>17, <2>1
<1>19. All(P, x \o y) = px \o py
  BY <1>3, <1>9, <1>10, <1>11, AllJoined
<1>20. rest \in Fields /\ Tags(rest) \cap Heads = {} /\ t \notin Inside
  <2>1. t \in Tags(spec.header) /\ Inside \cap Tags(spec.header) = {}
    BY <1>3, HeaderFacts
  <2> QED BY <2>1, MadeHas
<1> HIDE DEF a, ax, px, pe, py, ux, xe
<1>21. t \notin Tags(a) /\ t \notin Tags(ax) /\ t \notin Tags(py) /\ t \notin Tags(rest)
  BY <1>3, <1>12, <1>20
<1>22. done.m = (a \o ((ax \o pe) \o py)) \o rest /\ done.pos = Len(a)
  BY <1>1, <1>13, <1>18 DEF a
<1>23. CASE t \notin lost
  <2> DEFINE w == a \o ax
             b == py \o rest
             m == (w \o <<f>>) \o b
             made == SalvageTag(t, done)
  <2>1. w \in Fields /\ b \in Fields /\ <<f>> \in Fields
    <3>1. <<f>> \in Fields
      BY <1>5 DEF Fields
    <3> QED BY <1>12, <1>20, <3>1, FieldsJoined
  <2>2. t \notin Tags(w)
    BY <1>12, <1>21, TagsJoined
  <2>3. done.m = m
    <3> DEFINE one1 == <<f>>
    <3>1. one1 \in Fields /\ pe = one1
      BY <1>5, <1>23, <2>1 DEF pe
    <3> HIDE DEF one1
    <3>2. ax \o one1 \in Fields /\ (ax \o one1) \o py \in Fields /\ w \o one1 \in Fields
      BY <1>12, <2>1, <3>1, FieldsJoined
    <3>3. a \o ((ax \o one1) \o py) = (a \o (ax \o one1)) \o py
      <4> DEFINE g == ax \o one1
      <4>1. a \in Fields /\ g \in Fields /\ py \in Fields
        BY <1>12, <3>2
      <4> HIDE DEF g
      <4>2. (a \o g) \o py = a \o (g \o py)
        BY <4>1, ThreeJoined
      <4> QED BY <4>2 DEF g
    <3>4. a \o (ax \o one1) = w \o one1
      <4>1. a \in Fields /\ ax \in Fields /\ one1 \in Fields
        BY <1>12, <3>1
      <4>2. (a \o ax) \o one1 = a \o (ax \o one1)
        BY <4>1, ThreeJoined
      <4> QED BY <4>2
    <3> HIDE DEF w
    <3>5. ((w \o one1) \o py) \o rest = (w \o one1) \o (py \o rest)
      <4> DEFINE g == w \o one1
      <4>1. g \in Fields /\ py \in Fields /\ rest \in Fields
        BY <1>12, <1>20, <3>2
      <4> HIDE DEF g
      <4>2. (g \o py) \o rest = g \o (py \o rest)
        BY <4>1, ThreeJoined
      <4> QED BY <4>2 DEF g
    <3> QED BY <1>22, <3>1, <3>3, <3>4, <3>5 DEF one1
  <2> HIDE DEF w, b
  <2>4. FindFrom(m, t) = Len(w) /\ [m EXCEPT ![Len(w) + 1] = f] = m /\ m \in Fields /\ Len(w) \in Nat
    <3>1. f \in MsgFields /\ f.tag = t /\ f.tag \notin Tags(w) /\ w \in Fields /\ b \in Fields
      BY <1>5, <2>1, <2>2
    <3>2. /\ FindFrom((w \o <<f>>) \o b, f.tag) = Len(w)
          /\ [(w \o <<f>>) \o b EXCEPT ![Len(w) + 1] = f] = (w \o <<f>>) \o b
          /\ (w \o <<f>>) \o b \in Fields /\ Len(w) \in Nat
      BY <3>1, FoundAfter
    <3> HIDE DEF m
    <3>3. FindFrom(m, f.tag) = Len(w) /\ [m EXCEPT ![Len(w) + 1] = f] = m /\ m \in Fields /\ Len(w) \in Nat
      BY <3>2 DEF m
    <3> QED BY <3>1, <3>3
  <2>5. Len(w) = Len(a) + Len(ax) /\ Len(a) \in Nat /\ Len(ax) \in Nat
    BY <1>12, FieldsJoined DEF w
  <2>6. t \in {BeginString, 52} => Field(t, 0) = f
    BY DEF f, HeadField, BeginString, MsgType
  <2> HIDE DEF m
  <2>7. Len(w) # -1
    BY <2>4
  <2>8. made = [m |-> IF t \in {BeginString, 52} THEN [m EXCEPT ![Len(w) + 1] = Field(t, 0)] ELSE m,
                pos |-> NextPlace(Len(a), Len(w))]
    BY <1>22, <2>3, <2>4, <2>7 DEF SalvageTag
  <2>9. made.m = m
    BY <2>4, <2>6, <2>8
  <2>10. made.pos = Len(w) + 1
    <3>1. NextPlace(Len(a), Len(w)) = Len(w) + 1
      BY <2>5 DEF NextPlace
    <3> QED BY <2>8, <3>1
  <2> HIDE DEF made
  <2>11. Len(w \o <<f>>) = Len(w) + 1
    BY <1>5, <2>1, OneJoined
  <2>12. (All(A, ux \o one) \o All(P, y)) \o rest = m
    <3> DEFINE g == w \o <<f>>
    <3>1. g \in Fields
      BY <2>1, FieldsJoined
    <3> HIDE DEF g
    <3>2. (g \o py) \o rest = g \o (py \o rest)
      <4>1. g \in Fields /\ py \in Fields /\ rest \in Fields
        BY <1>12, <1>20, <3>1
      <4> QED BY <4>1, ThreeJoined
    <3> QED BY <1>15, <3>2 DEF g, w, m, b, py
  <2>13. Placing(i + 1, ux \o one, y)
    BY <1>4 DEF ux
  <2>14. /\ made.m = (All(A, ux \o one) \o All(P, y)) \o rest
         /\ made.pos = Len(All(A, ux \o one))
    BY <1>15, <2>9, <2>10, <2>11, <2>12 DEF w
  <2>15. Salvaging(opts, lost, rest, i + 1, made)
    BY <2>13, <2>14 DEF Salvaging, A, P
  <2> QED BY <2>15 DEF made, t
<1>24. CASE t \in lost
  <2> DEFINE xy == px \o py
             b == xy \o rest
             m == a \o b
             made == SalvageTag(t, done)
  <2>1. xy \in Fields /\ b \in Fields
    BY <1>12, <1>20, FieldsJoined
  <2>2. t \notin Tags(b)
    <3>1. t \notin Tags(xy)
      BY <1>12, <1>13, <1>21, TagsJoined
    <3> HIDE DEF xy
    <3> QED BY <1>20, <1>21, <2>1, <3>1, TagsJoined
  <2>3. done.m = m
    <3>1. ax \o pe = px
      <4>1. pe = <<>>
        BY <1>5, <1>24 DEF pe
      <4> QED BY <1>12, <1>13, <4>1 DEF Fields
    <3> HIDE DEF xy
    <3>2. (a \o xy) \o rest = a \o (xy \o rest)
      <4>1. a \in Fields /\ xy \in Fields /\ rest \in Fields
        BY <1>12, <1>20, <2>1
      <4> QED BY <4>1, ThreeJoined
    <3> QED BY <1>22, <3>1, <3>2 DEF xy
  <2> HIDE DEF xy, b
  <2>4. FindFrom(m, t) = -1
    <3>1. t \notin Tags(m)
      BY <1>12, <1>21, <2>1, <2>2, TagsJoined
    <3> QED BY <3>1 DEF FindFrom
  <2>5. Field(t, 0) = f
    <3>1. t # MsgType
      BY <1>24 DEF Losable
    <3> QED BY <3>1 DEF f, HeadField
  <2>6. Insert(m, Len(a), f) = (a \o <<f>>) \o b
    BY <1>5, <1>12, <2>1, PutAt
  <2> HIDE DEF m
  <2>7. made = [m |-> Insert(m, Len(a), f), pos |-> Len(a) + 1]
    BY <1>22, <2>3, <2>4, <2>5 DEF SalvageTag
  <2>8. made.m = (a \o <<f>>) \o b /\ made.pos = Len(a) + 1
    BY <2>6, <2>7
  <2> HIDE DEF made
  <2>9. a \o <<f>> \in Fields /\ Len(a \o <<f>>) = Len(a) + 1
    BY <1>5, <1>12, OneJoined
  <2>10. ((a \o <<f>>) \o xy) \o rest = (a \o <<f>>) \o b
    <3> DEFINE g == a \o <<f>>
    <3>1. g \in Fields
      BY <2>9
    <3> HIDE DEF g
    <3>2. (g \o xy) \o rest = g \o (xy \o rest)
      BY <1>20, <2>1, <3>1, ThreeJoined, Zenon
    <3> QED BY <3>2 DEF g, b
  <2>11. /\ made.m = (All(A, u \o one) \o All(P, x \o y)) \o rest
         /\ made.pos = Len(All(A, u \o one))
    BY <1>16, <1>19, <2>8, <2>9, <2>10 DEF xy
  <2>12. Salvaging(opts, lost, rest, i + 1, made)
    BY <1>4, <2>11 DEF Salvaging, A, P
  <2> QED BY <2>12 DEF made, t
<1> QED BY <1>23, <1>24

-----------------------------------------------------------------------------
\* The mandatory tags of the header are in order, and differ.
LEMMA HeadsInOrder ==
  ASSUME Usable, NEW j \in DOMAIN HeaderTags, NEW k \in DOMAIN HeaderTags, j < k
  PROVE  Before(spec.header, HeaderTags[j], HeaderTags[k]) /\ HeaderTags[j] # HeaderTags[k]
<1> DEFINE H == spec.header
           s == HeaderTags[j]
           t == HeaderTags[k]
<1>1. Apart(H, AvailHeader) /\ H \in Seq(Entries)
  BY Lists3Apart DEF Apart
<1>2. Position(H, s) < Position(H, t)
  BY DEF Usable, Loaded, WellFormed
<1>3. Demands(H, s) /\ Demands(H, t)
  BY DEF Usable, Capable
<1>4. s \in Mandatory /\ t \in Mandatory
  BY HeaderTagsAre
<1> HIDE DEF H, s, t
<1>5. /\ Position(H, s) \in DOMAIN H /\ H[Position(H, s)].tag = s
      /\ Position(H, t) \in DOMAIN H /\ H[Position(H, t)].tag = t
  BY <1>1, <1>3, <1>4, Demanded
<1>6. \A a \in DOMAIN H : (H[a].tag = s => a = Position(H, s)) /\ (H[a].tag = t => a = Position(H, t))
  BY <1>1, <1>5, ApartIs
<1>7. Before(H, s, t)
  BY <1>2, <1>6 DEF Before
<1>8. s # t
  <2>1. Position(H, s) \in Nat
    BY <1>1, <1>5
  <2> QED BY <1>2, <2>1
<1> QED BY <1>7, <1>8 DEF H, s, t

\* Before the first of them nothing is placed.
LEMMA SalvageStarts == ASSUME Usable PROVE Placing(0, <<>>, spec.header)
<1> DEFINE H == spec.header
           none == <<>>
<1>1. Apart(H, AvailHeader) /\ H \in Seq(Entries) /\ none \in Seq(Entries) /\ Len(none) = 0 /\ Tags(none) = {}
  BY Lists3Apart DEF Apart, Tags
<1>2. none \o H = H
  BY <1>1
<1>3. StartsWell(H)
  BY HeaderIs DEF StartsWell
<1>4. \A i, j \in DOMAIN H : H[i].tag = H[j].tag => i = j
  BY <1>1, ApartIs
<1>5. Ordered(H, 0)
  BY HeadsInOrder DEF Ordered
<1>6. \A j \in DOMAIN HeaderTags : ~(j <= 0)
  BY NumbersOfHeads
<1> HIDE DEF none
<1>7. Rearranged(none \o H)
  <2> HIDE DEF H
  <2>1. Rearranged(H)
    BY <1>1, <1>4 DEF Rearranged, Distinct, H
  <2> QED BY <1>2, <2>1
<1>8. Placing(0, none, H)
  <2>1. 0 < 3
    OBVIOUS
  <2> QED BY <1>1, <1>2, <1>3, <1>5, <1>6, <1>7, <2>1 DEF Placing
<1> QED BY <1>8 DEF none, H

\* When all mandatory tags are seen to, the header has lost nothing, though it
\* may be in another order.
LEMMA SalvagedHeader ==
  ASSUME Usable, NEW opts, Repeats(opts), NEW lost, Losable(lost), NEW rest, Made(rest, Nat \ Heads)
  PROVE  \E l : /\ Rearranged(l) /\ StartsWell(l)
                /\ SalvageTags(All(Remaining(opts, lost), spec.header) \o rest)[Len(HeaderTags)].m =
                     All(Typed(opts), l) \o rest
<1> DEFINE A == Typed(opts)
           P == Remaining(opts, lost)
           H == spec.header
           m == All(P, H) \o rest
           n == Len(HeaderTags)
           done == SalvageTags(m)
           S == {i \in 0..n : Salvaging(opts, lost, rest, i, done[i])}
<1>1. n \in Nat /\ n >= 3 /\ DOMAIN HeaderTags = 1..n
  BY NumbersOfHeads
<1>2. OfHeader(H) /\ H \in Seq(Entries)
  BY HeaderFacts DEF OfHeader
<1>3. All(P, H) \in Fields /\ rest \in Fields
  <2>1. Made(All(P, H), Tags(H) \cup Inside)
    BY <1>2, HeaderAdds
  <2> QED BY <2>1, MadeHas
<1>4. m \in Fields
  BY <1>3, FieldsJoined
<1>5. All(A, <<>>) = <<>>
  <2> DEFINE none == <<>>
  <2>1. none \in Seq(Entries) /\ Len(none) = 0 /\ DOMAIN none = {}
    OBVIOUS
  <2> HIDE DEF none
  <2>2. Adds(A, none)
    BY <2>1 DEF Adds
  <2>3. Turning(AddTurns(A, none, FALSE), A, none)
    BY <2>1, <2>2, AllTurns
  <2> QED BY <2>1, <2>3 DEF Turning, none
<1>6. done[0] = [m |-> m, pos |-> 0] /\ \A i \in 1..n : done[i] = SalvageTag(HeaderTags[i], done[i - 1])
  <2>1. SalvageWell(m)
    BY <1>4, SalvageTagsAre
  <2> QED BY <2>1 DEF SalvageWell
<1>7. Salvaging(opts, lost, rest, 0, done[0])
  <2> DEFINE none == <<>>
  <2>1. Placing(0, none, H)
    BY SalvageStarts
  <2>2. (none \o All(P, H)) \o rest = m
    <3>1. none \o All(P, H) = All(P, H)
      BY <1>3 DEF Fields
    <3> QED BY <3>1
  <2>3. Len(none) = 0 /\ All(A, none) = none
    BY <1>5
  <2> HIDE DEF none, A, P, H, m
  <2>4. done[0].m = (All(A, none) \o All(P, H)) \o rest /\ done[0].pos = Len(All(A, none))
    BY <1>6, <2>2, <2>3
  <2> QED BY <2>1, <2>4 DEF Salvaging, A, P
<1> HIDE DEF A, P, H, m, done, n
<1>8. \A i \in 0..n : i \in S
  <2>1. 0 \in S
    BY <1>1, <1>7
  <2>2. ASSUME NEW i \in 1..n, i - 1 \in S PROVE i \in S
    <3> DEFINE j == i - 1
    <3>1. j \in Nat /\ j + 1 = i /\ j + 1 \in DOMAIN HeaderTags /\ i \in 0..n
      BY <1>1
    <3>2. Salvaging(opts, lost, rest, j, done[j])
      BY <2>2
    <3> HIDE DEF j
    <3>3. Salvaging(opts, lost, rest, j + 1, SalvageTag(HeaderTags[j + 1], done[j]))
      BY <3>1, <3>2, SalvageGoesOn
    <3>4. done[i] = SalvageTag(HeaderTags[j + 1], done[j])
      BY <1>6, <3>1 DEF j
    <3> QED BY <3>1, <3>3, <3>4
  <2> HIDE DEF S
  <2> QED BY <1>1, <2>1, <2>2, CountingUp
<1>9. Salvaging(opts, lost, rest, n, done[n])
  <2>1. n \in 0..n
    BY <1>1
  <2> QED BY <1>8, <2>1
<1>10. PICK u, v : Placing(n, u, v) /\ done[n].m = (All(A, u) \o All(P, v)) \o rest
  BY <1>9 DEF Salvaging, A, P
<1>11. /\ u \in Seq(Entries) /\ v \in Seq(Entries) /\ Rearranged(u \o v) /\ StartsWell(u)
       /\ \A j \in DOMAIN HeaderTags : HeaderTags[j] \in Tags(u)
  <2>1. ~(n < 3) /\ \A j \in DOMAIN HeaderTags : j <= n
    BY <1>1
  <2> QED BY <1>10, <2>1 DEF Placing
<1>12. Tags(v) \cap Heads = {}
  <2>1. Tags(u) \cap Tags(v) = {}
    BY <1>11, JoinedParts DEF Rearranged
  <2> QED BY <1>11, <2>1 DEF Heads
<1>13. OfHeader(u) /\ OfHeader(v)
  <2>1. OfHeader(u \o v)
    BY <1>11 DEF Rearranged, OfHeader
  <2> QED BY <1>11, <2>1, OfHeaderJoined
<1>14. All(P, v) = All(A, v) /\ Adds(A, u) /\ Adds(A, v)
  BY <1>12, <1>13, HeaderAdds DEF A, P
<1>15. All(A, u \o v) = All(A, u) \o All(A, v)
  BY <1>11, <1>14, AllJoined
<1>16. StartsWell(u \o v)
  <2>1. \A k \in DOMAIN u : k \in DOMAIN (u \o v) /\ (u \o v)[k] = u[k]
    BY <1>11
  <2> QED BY <1>11, <2>1 DEF StartsWell
<1>17. done[n].m = All(A, u \o v) \o rest
  BY <1>10, <1>14, <1>15
<1> QED BY <1>11, <1>16, <1>17 DEF A, P, H, m, done, n

-----------------------------------------------------------------------------
\* A template is what its lists add, and what is left of it is what is left of
\* the header, the body and the trailer, with or without its CheckSum.
Holding(m, a, f, b) == m = (a \o <<f>>) \o b
Behind(k, a) == k = Len(a) + 1

\* A field that takes the place of another.
LEMMA PutInstead ==
  ASSUME NEW a \in Fields, NEW f \in MsgFields, NEW g \in MsgFields, NEW b \in Fields,
         NEW m, Holding(m, a, f, b), NEW k, Behind(k, a)
  PROVE  Holding([m EXCEPT ![k] = g], a, g, b)
<1> DEFINE w == a \o <<f>>
           x == a \o <<g>>
           q == Len(b)
           z == x \o b
<1>1. /\ w \in Fields /\ Len(w) = k /\ w[k] = f /\ \A i \in 1..Len(a) : w[i] = a[i]
      /\ x \in Fields /\ Len(x) = k /\ x[k] = g /\ \A i \in 1..Len(a) : x[i] = a[i]
  BY OneJoined DEF Behind
<1>2. k \in Nat /\ k >= 1 /\ \A i \in 1..k : i # k => i \in 1..Len(a)
  BY DEF Fields, Behind
<1>0. m = w \o b
  BY DEF Holding
<1> HIDE DEF w, x
<1>3. \A i \in 1..k : i # k => w[i] = x[i]
  BY <1>1, <1>2
<1> HIDE DEF z
<1>4. /\ m \in Fields /\ Len(m) = k + q /\ q \in Nat
      /\ (\A i \in 1..k : m[i] = w[i]) /\ \A i \in 1..q : m[k + i] = b[i]
  <2>1. w \in Fields /\ Len(w) = k
    BY <1>1
  <2>2. /\ w \o b \in Fields /\ Len(w \o b) = Len(w) + Len(b) /\ Len(b) \in Nat
        /\ (\A i \in 1..Len(w) : (w \o b)[i] = w[i]) /\ \A i \in 1..Len(b) : (w \o b)[Len(w) + i] = b[i]
    BY <2>1, FieldsJoined
  <2> QED BY <1>0, <2>1, <2>2
<1>5. /\ z \in Fields /\ Len(z) = k + q
      /\ (\A i \in 1..k : z[i] = x[i]) /\ \A i \in 1..q : z[k + i] = b[i]
  <2>1. x \in Fields /\ Len(x) = k
    BY <1>1
  <2>2. /\ x \o b \in Fields /\ Len(x \o b) = Len(x) + Len(b)
        /\ (\A i \in 1..Len(x) : (x \o b)[i] = x[i]) /\ \A i \in 1..Len(b) : (x \o b)[Len(x) + i] = b[i]
    BY <2>1, FieldsJoined
  <2> QED BY <2>1, <2>2 DEF z
<1> HIDE DEF q
<1> DEFINE y == [m EXCEPT ![k] = g]
<1>6. y \in Fields
  BY <1>4, ExceptType
<1>7. Len(y) = k + q /\ \A i \in 1..(k + q) : y[i] = IF i = k THEN g ELSE m[i]
  BY <1>2, <1>4 DEF Fields
<1> HIDE DEF y
<1>8. \A i \in 1..(k + q) : y[i] = z[i]
  <2> SUFFICES ASSUME NEW i \in 1..(k + q) PROVE y[i] = z[i]
    OBVIOUS
  <2>0. k \in 1..k
    BY <1>2
  <2>1. CASE i = k
    BY <1>1, <1>5, <1>7, <2>0, <2>1
  <2>2. CASE i < k
    <3>1. i \in 1..k /\ i # k
      BY <1>2, <2>2
    <3> QED BY <1>3, <1>4, <1>5, <1>7, <3>1
  <2>3. CASE i > k
    <3>1. i - k \in 1..q /\ i = k + (i - k) /\ i # k
      BY <1>2, <1>4, <2>3
    <3> QED BY <1>4, <1>5, <1>7, <3>1
  <2> QED BY <1>2, <2>1, <2>2, <2>3
<1>9. y = z
  BY <1>5, <1>6, <1>7, <1>8 DEF Fields
<1> QED BY <1>9 DEF y, z, x, Holding

\* A template is its typed header, its body and its trailer.
LEMMA SampledAdds ==
  ASSUME Usable, NEW opts, Repeats(opts)
  PROVE  Sampled(opts) = (All(Typed(opts), spec.header) \o Build(opts, spec.messages[Body])) \o Build(opts, spec.trailer)
<1> DEFINE A == Typed(opts)
           D == Adding(opts)
           H == spec.header
           B == Build(opts, spec.messages[Body])
           T == Build(opts, spec.trailer)
           g == HeadField(MsgType)
           f == Field(MsgType, 0)
           three == 3
           e == H[three]
           one == <<e>>
<1>1. Apart(H, AvailHeader) /\ H \in Seq(Entries) /\ OfHeader(H) /\ three \in DOMAIN H /\ e.tag = MsgType
  BY Lists3Apart, HeaderIs, HeaderTagsAre DEF Apart, OfHeader
<1>2. PICK x, y : IsCut(H, three, x, y)
  BY <1>1, CutAt
<1>3. x \in Seq(Entries) /\ y \in Seq(Entries) /\ e \in Entries /\ H = (x \o one) \o y
  BY <1>2 DEF IsCut
<1>4. e \in Elements(H) /\ e.tag \in Heads
  BY <1>1, HeaderFacts DEF Elements
<1>5. /\ OfHeader(one) /\ All(A, one) = <<g>> /\ g \in MsgFields /\ g.tag = MsgType
  <2>1. Losable({})
    BY DEF Losable
  <2> HIDE DEF e
  <2> QED BY <1>1, <1>4, <2>1, HeadAdds
<1>6. e.required /\ ~e.isGroup
  BY <1>4, HeadEntries
<1>7. \A b \in BOOLEAN : D[<<e, b>>] \in Fields
  BY <1>3, AddingEntry
<1>8. All(D, one) = <<f>> /\ f \in MsgFields /\ f.tag = MsgType
  <2> DEFINE no == FALSE
  <2>1. All(D, one) = D[<<e, FALSE>>]
    BY <1>3, <1>7, AllOne
  <2>2. no \in BOOLEAN
    OBVIOUS
  <2> HIDE DEF no, e
  <2>3. D[<<e, no>>] = <<Field(e.tag, 0)>>
    BY <1>3, <1>6, <2>2, PieceStarts
  <2>4. f \in MsgFields /\ f.tag = MsgType
    BY TagNumbers DEF Field
  <2> QED BY <1>1, <2>1, <2>3, <2>4 DEF no
<1> HIDE DEF H, B, T, g, f, e, one
<1> DEFINE xe == x \o one
<1>9. one \in Seq(Entries) /\ xe \in Seq(Entries) /\ Tags(one) = {MsgType} /\ Distinct(one)
  BY <1>1, <1>3, OneParts, EntriesJoined DEF one
<1>10. OfHeader(x) /\ OfHeader(y) /\ MsgType \notin Tags(x) /\ MsgType \notin Tags(y)
  <2>1. Distinct(H)
    BY <1>1, ApartIs DEF Distinct
  <2>2. Distinct(xe) /\ Tags(xe) \cap Tags(y) = {} /\ OfHeader(xe) /\ OfHeader(y)
    <3> HIDE DEF xe
    <3>1. H = xe \o y
      BY <1>3 DEF xe
    <3>2. Distinct(xe) /\ Tags(xe) \cap Tags(y) = {}
      BY <1>3, <1>9, <2>1, <3>1, JoinedParts
    <3>3. OfHeader(xe) /\ OfHeader(y)
      BY <1>1, <1>3, <1>9, <3>1, OfHeaderJoined
    <3> QED BY <3>2, <3>3
  <2>3. Tags(xe) = Tags(x) \cup {MsgType} /\ Tags(x) \cap {MsgType} = {}
    BY <1>3, <1>9, <2>2, JoinedParts
  <2>4. OfHeader(x)
    BY <1>3, <1>9, <2>2, OfHeaderJoined
  <2> QED BY <2>2, <2>3, <2>4
<1>11. \A l : OfHeader(l) /\ MsgType \notin Tags(l) => All(D, l) = All(A, l)
  <2> SUFFICES ASSUME NEW l, OfHeader(l), MsgType \notin Tags(l) PROVE All(D, l) = All(A, l)
    OBVIOUS
  <2>1. l \in Seq(Entries) /\ Losable({})
    BY DEF OfHeader, Losable
  <2>2. Adds(D, l)
    BY <2>1, BuildType
  <2>3. Adds(A, l)
    BY <2>1, HeaderAdds
  <2>4. ASSUME NEW i \in DOMAIN l PROVE D[<<l[i], FALSE>>] = A[<<l[i], FALSE>>]
    <3> DEFINE c == <<l[i], FALSE>>
    <3>1. c \in Pairs /\ c[1] = l[i]
      <4>1. l[i] \in Entries
        BY <2>1
      <4> QED BY <4>1 DEF Pairs
    <3>2. l[i].tag # MsgType
      BY DEF Tags
    <3> HIDE DEF c
    <3>3. A[c] = D[c]
      BY <3>1, <3>2 DEF Typed
    <3> QED BY <3>3 DEF c
  <2> HIDE DEF A, D
  <2> QED BY <2>1, <2>2, <2>3, <2>4, AllAgree
<1>12. /\ All(D, H) = (All(A, x) \o <<f>>) \o All(A, y) /\ All(A, H) = (All(A, x) \o <<g>>) \o All(A, y)
       /\ Made(All(A, x), Tags(x) \cup Inside) /\ All(A, y) \in Fields
  <2>1. Losable({})
    BY DEF Losable
  <2>2. Adds(A, x) /\ Adds(A, one) /\ Adds(A, y) /\ Made(All(A, x), Tags(x) \cup Inside) /\ Made(All(A, y), Tags(y) \cup Inside)
    BY <1>5, <1>10, <2>1, HeaderAdds
  <2>3. Adds(D, x) /\ Adds(D, one) /\ Adds(D, y)
    BY <1>3, <1>9, BuildType
  <2>4. All(D, x) = All(A, x) /\ All(D, y) = All(A, y)
    BY <1>10, <1>11
  <2> HIDE DEF A, D
  <2>5. All(A, xe) = All(A, x) \o All(A, one) /\ Adds(A, xe)
    BY <1>3, <1>9, <2>2, AllJoined
  <2>6. All(D, xe) = All(D, x) \o All(D, one) /\ Adds(D, xe)
    BY <1>3, <1>9, <2>3, AllJoined
  <2> HIDE DEF xe
  <2>7. All(A, xe \o y) = All(A, xe) \o All(A, y)
    BY <1>3, <1>9, <2>2, <2>5, AllJoined
  <2>8. All(D, xe \o y) = All(D, xe) \o All(D, y)
    BY <1>3, <1>9, <2>3, <2>6, AllJoined
  <2>9. H = xe \o y
    BY <1>3 DEF xe
  <2>10. All(A, y) \in Fields
    BY <2>2 DEF Made
  <2> QED BY <1>5, <1>8, <2>2, <2>4, <2>5, <2>6, <2>7, <2>8, <2>9, <2>10
<1> DEFINE a == All(A, x)
           ay == All(A, y)
           b == (ay \o B) \o T
<1>13. a \in Fields /\ MsgType \notin Tags(a)
  <2>1. MsgType \notin Inside
    BY HeaderFacts
  <2> QED BY <1>10, <1>12, <2>1, MadeHas
<1>14. B \in Fields /\ T \in Fields /\ ay \in Fields /\ ay \o B \in Fields /\ b \in Fields
  <2>1. B \in Fields /\ T \in Fields
    BY TemplateFramed DEF B, T
  <2>2. ay \in Fields
    BY <1>12
  <2> HIDE DEF ay
  <2>3. ay \o B \in Fields
    BY <2>1, <2>2, FieldsJoined
  <2>4. (ay \o B) \o T \in Fields
    BY <2>1, <2>3, FieldsJoined
  <2> QED BY <2>1, <2>2, <2>3, <2>4
<1> HIDE DEF a, ay, A, D
<1>15. \A h \in MsgFields : ((((a \o <<h>>) \o ay) \o B) \o T) = (a \o <<h>>) \o b
  <2> SUFFICES ASSUME NEW h \in MsgFields PROVE ((((a \o <<h>>) \o ay) \o B) \o T) = (a \o <<h>>) \o b
    OBVIOUS
  <2> DEFINE w == a \o <<h>>
             r == ay \o B
  <2>1. w \in Fields /\ r \in Fields
    BY <1>13, <1>14, OneJoined
  <2> HIDE DEF w
  <2>2. (w \o ay) \o B = w \o (ay \o B)
    BY <1>14, <2>1, ThreeJoined
  <2> HIDE DEF r
  <2>3. (w \o r) \o T = w \o (r \o T)
    <3>1. w \in Fields /\ r \in Fields /\ T \in Fields
      BY <1>14, <2>1 DEF r
    <3> QED BY <3>1, ThreeJoined
  <2> QED BY <2>2, <2>3 DEF w, r
<1> HIDE DEF b
<1>16. Templated(opts) = (a \o <<f>>) \o b
  <2>1. Build(opts, H) = All(D, H)
    BY DEF Build, All, D
  <2>2. Templated(opts) = (All(D, H) \o B) \o T
    BY <2>1 DEF Templated, H, B, T
  <2> QED BY <1>8, <1>12, <1>15, <2>2 DEF a, ay
<1>17. Len(a) + 1 = three
  <2> DEFINE r == Templated(opts)
  <2>1. Framed(r)
    BY TemplateFramed
  <2>2. FindFrom((a \o <<f>>) \o b, f.tag) = Len(a) /\ Len(a) \in Nat
    BY <1>8, <1>13, <1>14, FoundAfter
  <2> HIDE DEF r, three
  <2>3. \A i \in {1, 2, 3, Len(r)} : \A j \in 1..i - 1 : r[j].tag # r[i].tag
    BY <2>1, FramedFinds
  <2>4. three \in {1, 2, 3, Len(r)}
    BY DEF three
  <2>5. r \in Fields /\ three \in DOMAIN r /\ r[three].tag = MsgType
    BY <2>1, FramedFinds DEF three
  <2>6. \A j \in 1..three - 1 : r[j].tag # r[three].tag
    BY <2>3, <2>4
  <2>7. FindFrom(r, r[three].tag) = three - 1
    BY <2>5, <2>6, FindFromAt
  <2>8. FindFrom(r, MsgType) = Len(a)
    BY <1>8, <1>16, <2>2 DEF r
  <2>9. three - 1 + 1 = three
    BY DEF three
  <2> QED BY <2>5, <2>7, <2>8, <2>9
<1>18. Sampled(opts) = [Templated(opts) EXCEPT ![three] = g]
  BY SampledIs DEF g, HeadField
<1>19. Holding([Templated(opts) EXCEPT ![three] = g], a, g, b)
  <2> DEFINE m == Templated(opts)
  <2>1. a \in Fields /\ f \in MsgFields /\ g \in MsgFields /\ b \in Fields
    BY <1>5, <1>8, <1>13, <1>14 DEF b
  <2>2. Holding(m, a, f, b) /\ Behind(three, a)
    BY <1>16, <1>17 DEF Holding, Behind
  <2> HIDE DEF m, three
  <2>3. Holding([m EXCEPT ![three] = g], a, g, b)
    BY <2>1, <2>2, PutInstead
  <2> QED BY <2>3 DEF m
<1>20. Sampled(opts) = (a \o <<g>>) \o b
  BY <1>18, <1>19 DEF Holding
<1>21. Sampled(opts) = (((a \o <<g>>) \o ay) \o B) \o T
  BY <1>5, <1>15, <1>20
<1> QED BY <1>12, <1>21 DEF a, ay, A, B, T, H

-----------------------------------------------------------------------------
\* Three fields are where they were put.
LEMMA ThreePut ==
  ASSUME NEW d, NEW f \in MsgFields, NEW g \in MsgFields, NEW h \in MsgFields,
         d[0] = <<>>, d[1] = d[0] \o <<f>>, d[2] = d[1] \o <<g>>, d[3] = d[2] \o <<h>>
  PROVE  Len(d[3]) = 3 /\ d[3][1] = f /\ d[3][2] = g /\ d[3][3] = h
<1> DEFINE x == d[0]
           y == d[1]
           z == d[2]
           w == d[3]
<1>1. x \in Fields /\ Len(x) = 0
  BY DEF Fields
<1>2. y = x \o <<f>> /\ z = y \o <<g>> /\ w = z \o <<h>>
  OBVIOUS
<1> HIDE DEF x, y, z, w
<1>3. y \in Fields /\ Len(y) = Len(x) + 1 /\ y[Len(x) + 1] = f
  BY <1>1, <1>2, OneJoined
<1>4. y[1] = f /\ Len(y) = 1
  <2>1. 0 + 1 = 1
    OBVIOUS
  <2> QED BY <1>1, <1>3, <2>1
<1>5. z \in Fields /\ Len(z) = Len(y) + 1 /\ z[Len(y) + 1] = g /\ \A i \in 1..Len(y) : z[i] = y[i]
  BY <1>2, <1>3, OneJoined
<1>6. z[1] = f /\ z[2] = g /\ Len(z) = 2
  <2>1. 1 + 1 = 2 /\ 1 \in 1..1
    OBVIOUS
  <2> QED BY <1>4, <1>5, <2>1
<1>7. w \in Fields /\ Len(w) = Len(z) + 1 /\ w[Len(z) + 1] = h /\ \A i \in 1..Len(z) : w[i] = z[i]
  BY <1>2, <1>5, OneJoined
<1>8. w[1] = f /\ w[2] = g /\ w[3] = h /\ Len(w) = 3
  <2>1. 2 + 1 = 3 /\ 1 \in 1..2 /\ 2 \in 1..2
    OBVIOUS
  <2> QED BY <1>6, <1>7, <2>1
<1> QED BY <1>8 DEF w

\* A header that starts with BeginString, BodyLength and MsgType, with its number.
TypedStart(h) ==
  /\ h \in Fields /\ Len(h) >= 3
  /\ h[1] = Field(BeginString, 0) /\ h[2] = Field(BodyLength, 0) /\ h[3] = Field(MsgType, Body)

\* The header starts with its three fields however it is rearranged.
LEMMA TypedStarts ==
  ASSUME Usable, NEW opts, Repeats(opts), NEW l, Rearranged(l), StartsWell(l)
  PROVE  TypedStart(All(Typed(opts), l))
<1> DEFINE A == Typed(opts)
           no == FALSE
           done == AddTurns(A, l, no)
           f(k) == HeadField(HeaderTags[k])
           three == 3
<1>1. l \in Seq(Entries) /\ OfHeader(l) /\ Losable({})
  BY DEF Rearranged, OfHeader, Losable
<1>2. Adds(A, l)
  BY <1>1, HeaderAdds
<1>3. \A k \in 1..3 : k \in DOMAIN l /\ l[k].tag = HeaderTags[k] /\ l[k] \in Elements(spec.header) /\ HeaderTags[k] \in Heads
  <2>1. \A k \in 1..3 : k = 1 \/ k = 2 \/ k = 3
    OBVIOUS
  <2>2. \A k \in 1..3 : HeaderTags[k] \in Heads
    BY <2>1, HeaderTagsAre DEF Heads
  <2>3. \A k \in 1..3 : k \in DOMAIN l /\ l[k].tag = HeaderTags[k]
    BY DEF StartsWell
  <2>4. \A k \in DOMAIN l : l[k] \in Elements(spec.header)
    BY <1>1 DEF OfHeader, Elements
  <2> QED BY <2>2, <2>3, <2>4
<1>4. \A k \in 1..3 : Adding1(A, l[k]) = <<f(k)>> /\ f(k) \in MsgFields
  <2> SUFFICES ASSUME NEW k \in 1..3 PROVE Adding1(A, l[k]) = <<f(k)>> /\ f(k) \in MsgFields
    OBVIOUS
  <2> DEFINE e == l[k]
             c == <<e, FALSE>>
  <2>1. e \in Elements(spec.header) /\ e.tag \in Heads /\ e.tag = HeaderTags[k]
    BY <1>3
  <2>2. c \in Pairs /\ c[1] = e
    <3>1. e \in Entries
      BY <1>1, <1>3
    <3> HIDE DEF e
    <3> QED BY <3>1 DEF Pairs
  <2> HIDE DEF c, e
  <2>3. A[c] = <<HeadField(c[1].tag)>>
    BY <2>1, <2>2, TypedIs
  <2>4. HeadField(e.tag) \in MsgFields
    BY <1>1, <2>1, HeadAdds
  <2> QED BY <2>1, <2>2, <2>3, <2>4 DEF Adding1, c, e
<1>5. Turning(AddTurns(A, l, FALSE), A, l)
  BY <1>1, <1>2, AllTurns
<1>6. done[0] = <<>> /\ (\A k \in 1..3 : done[k] = done[k - 1] \o <<f(k)>>) /\ All(A, l) \in Fields
  <2>1. \A k \in 1..3 : k \in 1..Len(l)
    BY <1>1, <1>3
  <2>2. done[0] = <<>> /\ (\A k \in 1..Len(l) : done[k] = done[k - 1] \o Adding1(A, l[k])) /\ All(A, l) \in Fields
    BY <1>5 DEF Turning
  <2> HIDE DEF done, f, A
  <2> QED BY <1>4, <2>1, <2>2
<1>7. StartsAs(All(A, l), done[three])
  <2>1. three \in 0..Len(l) /\ no \in BOOLEAN
    BY <1>1, <1>3
  <2> HIDE DEF three, no, A
  <2>2. StartsAs(AddAll(A, l, no), AddTurns(A, l, no)[three])
    BY <1>1, <1>2, <2>1, TurnsKept
  <2> QED BY <2>2 DEF All, no
<1> HIDE DEF done, A
<1>8. Len(done[3]) = 3 /\ done[3][1] = f(1) /\ done[3][2] = f(2) /\ done[3][3] = f(3)
  <2>1. f(1) \in MsgFields /\ f(2) \in MsgFields /\ f(3) \in MsgFields
    BY <1>4
  <2>2. done[1] = done[0] \o <<f(1)>> /\ done[2] = done[1] \o <<f(2)>> /\ done[3] = done[2] \o <<f(3)>>
    <3>1. 1 - 1 = 0 /\ 2 - 1 = 1 /\ 3 - 1 = 2 /\ 1 \in 1..3 /\ 2 \in 1..3 /\ 3 \in 1..3
      OBVIOUS
    <3> QED BY <1>6, <3>1
  <2> HIDE DEF f
  <2> QED BY <1>6, <2>1, <2>2, ThreePut
<1>9. f(1) = Field(BeginString, 0) /\ f(2) = Field(BodyLength, 0) /\ f(3) = Field(MsgType, Body)
  BY HeaderTagsAre DEF HeadField, BeginString, BodyLength, MsgType
<1> DEFINE h == All(A, l)
<1> HIDE DEF h, f
<1>10. Len(h) >= 3 /\ h[1] = f(1) /\ h[2] = f(2) /\ h[3] = f(3)
  <2>1. Len(done[3]) <= Len(h) /\ \A j \in 1..Len(done[3]) : h[j] = done[3][j]
    BY <1>7 DEF StartsAs, three, h
  <2>2. Len(h) \in Nat
    BY <1>6 DEF Fields, h
  <2> QED BY <1>8, <2>1, <2>2
<1> QED BY <1>6, <1>9, <1>10 DEF TypedStart, h, A

\* What salvage makes of a template.
Repaired(opts, l) ==
  All(Typed(opts), l) \o (Build(opts, spec.messages[Body]) \o Build(opts, spec.trailer))

\* ... and what of it is there before it is finalized, when CheckSum got lost.
LEMMA RepairedParts ==
  ASSUME Usable, NEW opts, Repeats(opts), NEW l, Rearranged(l), StartsWell(l),
         NEW y, Made(y, Nat \ {CheckSum}), Build(opts, spec.trailer) = y \o <<Field(CheckSum, 0)>>
  PROVE  LET w == All(Typed(opts), l) \o (Build(opts, spec.messages[Body]) \o y) IN
         /\ Made(w, Nat \ {CheckSum}) /\ TypedStart(w)
         /\ Repaired(opts, l) = w \o <<Field(CheckSum, 0)>>
<1> DEFINE h == All(Typed(opts), l)
           b == Build(opts, spec.messages[Body])
           f == Field(CheckSum, 0)
           others == Nat \ {CheckSum}
           by == b \o y
           w == h \o by
<1>1. OfHeader(l) /\ Losable({})
  BY DEF Rearranged, OfHeader, Losable
<1>2. Made(h, Tags(l) \cup Inside)
  BY <1>1, HeaderAdds
<1>3. Tags(l) = Tags(spec.header)
  BY TagsOfElements DEF Rearranged
<1>4. Tags(l) \cup Inside \subseteq others
  BY <1>3, HeaderFacts DEF Inside
<1>5. Apart(spec.messages[Body], AvailBody) /\ AvailBody \subseteq others
  <2>1. CheckSum \in Tags(spec.trailer)
    BY DEF Usable, Capable, Demands
  <2> QED BY <2>1, Lists3Apart DEF AvailBody
<1>6. Made(b, AvailBody)
  BY <1>5, BuildMade
<1>7. TypedStart(h)
  BY TypedStarts
<1>8. f \in MsgFields
  BY TagNumbers
<1> HIDE DEF h, b, f, others
<1>9. Made(h, others) /\ Made(b, others) /\ Made(y, others)
  BY <1>2, <1>4, <1>5, <1>6, MadeMore DEF others
<1>10. Made(by, others)
  BY <1>9, MadeJoined
<1>11. h \in Fields /\ by \in Fields /\ b \in Fields /\ y \in Fields
  BY <1>9, <1>10 DEF Made
<1> HIDE DEF by
<1>12. Made(w, others)
  BY <1>9, <1>10, MadeJoined
<1>13. w \in Fields /\ Len(w) = Len(h) + Len(by) /\ Len(h) \in Nat /\ Len(by) \in Nat /\ \A i \in 1..Len(h) : w[i] = h[i]
  BY <1>11, FieldsJoined
<1> DEFINE one == <<f>>
<1>14. one \in Fields
  BY <1>8 DEF Fields
<1> HIDE DEF w, one
<1>15. TypedStart(w)
  <2>1. Len(h) >= 3
    BY <1>7 DEF TypedStart
  <2>2. 1 \in 1..Len(h) /\ 2 \in 1..Len(h) /\ 3 \in 1..Len(h) /\ Len(w) >= 3
    BY <1>13, <2>1
  <2> QED BY <1>7, <1>13, <2>2 DEF TypedStart
<1>16. Repaired(opts, l) = w \o one
  <2>1. Repaired(opts, l) = h \o (b \o (y \o one))
    BY DEF Repaired, h, b, one, f
  <2>2. (b \o y) \o one = b \o (y \o one)
    BY <1>11, <1>14, ThreeJoined
  <2>3. (h \o by) \o one = h \o (by \o one)
    BY <1>11, <1>14, ThreeJoined
  <2> QED BY <2>1, <2>2, <2>3 DEF by, w
<1> QED BY <1>12, <1>15, <1>16 DEF w, by, h, b, one, f, others

\* Finalize puts the CheckSum that is not there behind everything.
LEMMA FinalizeAdds ==
  ASSUME NEW w, Made(w, Nat \ {CheckSum}), TypedStart(w)
  PROVE  Finalize(w) = w \o <<Field(CheckSum, 0)>> /\ Framed(w \o <<Field(CheckSum, 0)>>)
<1> DEFINE f == Field(CheckSum, 0)
           two == 2
           z == w \o <<f>>
           n == Len(w)
<1>1. /\ w \in Fields /\ n \in Nat /\ n >= 3 /\ DOMAIN w = 1..n /\ two \in DOMAIN w
      /\ w[1] = Field(BeginString, 0) /\ w[two] = Field(BodyLength, 0) /\ w[3] = Field(MsgType, Body)
  BY DEF TypedStart, Fields
<1>2. \A j \in 1..two - 1 : w[j].tag # w[two].tag
  <2>1. \A j \in 1..two - 1 : j = 1
    OBVIOUS
  <2> QED BY <1>1, <2>1 DEF Field, BeginString, BodyLength
<1>3. SetOr(w, w[two], 1) = w
  <2> HIDE DEF two
  <2> QED BY <1>1, <1>2, SetOrSame
<1>4. f \in MsgFields /\ f.tag = CheckSum
  BY TagNumbers DEF Field
<1>5. CheckSum \notin Tags(w)
  BY DEF Made, Tags
<1> HIDE DEF f, n
<1>6. SetOr(w, f, Len(w)) = z
  <2>1. SetOr(w, f, Len(w)) = Insert(w, Len(w), f)
    BY <1>4, <1>5 DEF SetOr
  <2>2. Insert(w, Len(w), f) = Append(w, f)
    <3>1. Len(w) >= Len(w)
      BY <1>1 DEF n
    <3> QED BY <3>1 DEF Insert
  <2>3. Append(w, f) = w \o <<f>>
    BY <1>1 DEF Fields
  <2> QED BY <2>1, <2>2, <2>3
<1>7. Finalize(w) = z
  BY <1>1, <1>3, <1>6 DEF Finalize, f
<1>8. z \in Fields /\ Len(z) = n + 1 /\ z[n + 1] = f /\ \A i \in 1..n : z[i] = w[i]
  BY <1>1, <1>4, OneJoined DEF n
<1> HIDE DEF z
<1>9. z[1] = w[1] /\ z[2] = w[two] /\ z[3] = w[3] /\ z[Len(z)] = f /\ Len(z) >= 4
  <2>1. 1 \in 1..n /\ 2 \in 1..n /\ 3 \in 1..n
    BY <1>1
  <2> QED BY <1>1, <1>8, <2>1
<1>10. \A i \in 1..Len(z) - 1 : z[i].tag # CheckSum
  <2>1. \A i \in 1..Len(z) - 1 : i \in 1..n
    BY <1>1, <1>8
  <2>2. \A i \in 1..n : w[i].tag # CheckSum
    BY <1>1, <1>5 DEF Tags
  <2> QED BY <1>8, <2>1, <2>2
<1>11. z[3].tag = MsgType
  BY <1>1, <1>9 DEF Field
<1>12. Framed(z)
  BY <1>1, <1>8, <1>9, <1>10, <1>11 DEF Framed, f
<1> QED BY <1>7, <1>12 DEF z, f

\* What is repaired is framed and has all mandatory tags.
LEMMA RepairedFramed ==
  ASSUME Usable, NEW opts, Repeats(opts), NEW l, Rearranged(l), StartsWell(l)
  PROVE  /\ Framed(Repaired(opts, l)) /\ Made(Repaired(opts, l), Nat)
         /\ Repaired(opts, l)[3] = Field(MsgType, Body)
         /\ \A i \in DOMAIN HeaderTags : HeaderTags[i] \in Tags(Repaired(opts, l))
<1> DEFINE z == Repaired(opts, l)
           f == Field(CheckSum, 0)
           b == Build(opts, spec.messages[Body])
           h == All(Typed(opts), l)
<1>1. PICK y : Made(y, Nat \ {CheckSum}) /\ Build(opts, spec.trailer) = y \o <<f>>
  BY TrailerBuilt
<1> DEFINE w == h \o (b \o y)
<1>2. Made(w, Nat \ {CheckSum}) /\ TypedStart(w) /\ z = w \o <<f>>
  BY <1>1, RepairedParts
<1> HIDE DEF w, z, b, f, h
<1>3. Framed(z)
  BY <1>2, FinalizeAdds DEF f
<1>4. f \in MsgFields /\ f.ok
  BY TagNumbers DEF Field, f
<1>5. Made(<<f>>, Nat)
  <2>1. <<f>> \in Fields /\ DOMAIN <<f>> = {1} /\ <<f>>[1] = f
    BY <1>4 DEF Fields
  <2>2. f.tag \in Nat
    BY <1>4 DEF MsgFields
  <2> QED BY <1>4, <2>1, <2>2 DEF Made
<1>6. Made(w, Nat)
  <2>1. Nat \ {CheckSum} \subseteq Nat
    OBVIOUS
  <2> QED BY <1>2, <2>1, MadeMore
<1>7. Made(z, Nat)
  BY <1>2, <1>5, <1>6, MadeJoined
<1>8. z[3] = Field(MsgType, Body)
  <2>1. w \in Fields /\ Len(w) >= 3 /\ w[3] = Field(MsgType, Body)
    BY <1>2 DEF TypedStart
  <2>2. 3 \in 1..Len(w)
    BY <2>1 DEF Fields
  <2> QED BY <1>2, <1>4, <2>1, <2>2, OneJoined
<1>9. h \in Fields /\ b \in Fields /\ y \in Fields /\ b \o y \in Fields /\ w \in Fields
  <2>1. b \in Fields
    BY TemplateFramed DEF b
  <2>2. h \in Fields
    BY TypedStarts DEF TypedStart, h
  <2>3. y \in Fields
    BY <1>1 DEF Made
  <2>4. b \o y \in Fields
    BY <2>1, <2>3, FieldsJoined
  <2>5. w \in Fields
    BY <1>2 DEF Made
  <2> QED BY <2>1, <2>2, <2>3, <2>4, <2>5
<1>10. Tags(h) \subseteq Tags(z)
  <2> DEFINE by == b \o y
             one == <<f>>
  <2>1. by \in Fields /\ w = h \o by /\ one \in Fields /\ z = w \o one
    BY <1>2, <1>5, <1>9 DEF w, Made
  <2> HIDE DEF by, one
  <2>2. Tags(w) = Tags(h) \cup Tags(by) /\ Tags(z) = Tags(w) \cup Tags(one)
    BY <1>9, <2>1, TagsJoined
  <2> QED BY <2>2
<1>11. ASSUME NEW i \in DOMAIN HeaderTags PROVE HeaderTags[i] \in Tags(h)
  <2> DEFINE t == HeaderTags[i]
             A == Typed(opts)
  <2>0. l \in Seq(Entries) /\ OfHeader(l) /\ Losable({}) /\ Tags(l) = Tags(spec.header)
    BY TagsOfElements DEF Rearranged, OfHeader, Losable
  <2>1. t \in Tags(l) /\ t \in Heads
    BY <2>0, HeadsInHeader DEF Heads
  <2>2. PICK a \in DOMAIN l : l[a].tag = t
    BY <2>1 DEF Tags
  <2>3. PICK u, v : IsCut(l, a, u, v)
    BY <2>0, CutAt
  <2> DEFINE e == l[a]
             one == <<e>>
             ue == u \o one
  <2>4. e \in Elements(spec.header) /\ e.tag \in Heads
    BY <2>0, <2>1, <2>2 DEF OfHeader, Elements
  <2> HIDE DEF e
  <2>5. u \in Seq(Entries) /\ v \in Seq(Entries) /\ l = ue \o v
    BY <2>3 DEF IsCut, e
  <2>6. All(A, one) = <<HeadField(e.tag)>> /\ OfHeader(one) /\ HeadField(e.tag).tag = e.tag /\ HeadField(e.tag) \in MsgFields
    BY <2>0, <2>4, HeadAdds
  <2> HIDE DEF one
  <2>7. ue \in Seq(Entries) /\ one \in Seq(Entries)
    BY <2>5, <2>6, EntriesJoined DEF OfHeader
  <2>8. OfHeader(ue) /\ OfHeader(v)
    <3> HIDE DEF ue
    <3> QED BY <2>0, <2>5, <2>7, OfHeaderJoined
  <2>9. OfHeader(u)
    BY <2>5, <2>7, <2>8, OfHeaderJoined
  <2>10. Adds(A, u) /\ Adds(A, one) /\ Adds(A, v)
    BY <2>0, <2>6, <2>8, <2>9, HeaderAdds
  <2> HIDE DEF A
  <2>11. All(A, ue) = All(A, u) \o All(A, one) /\ Adds(A, ue) /\ All(A, u) \in Fields /\ All(A, one) \in Fields
    BY <2>5, <2>7, <2>10, AllJoined
  <2> HIDE DEF ue
  <2>12. h = All(A, ue) \o All(A, v) /\ All(A, ue) \in Fields /\ All(A, v) \in Fields
    BY <2>5, <2>7, <2>10, <2>11, AllJoined DEF h, A
  <2>13. Tags(h) = Tags(All(A, ue)) \cup Tags(All(A, v)) /\ Tags(All(A, ue)) = Tags(All(A, u)) \cup Tags(All(A, one))
    BY <2>11, <2>12, TagsJoined
  <2>14. t \in Tags(All(A, one))
    <3> DEFINE g == HeadField(e.tag)
    <3>1. g.tag = t
      BY <2>2, <2>6 DEF e
    <3> HIDE DEF g
    <3>2. 1 \in DOMAIN <<g>> /\ <<g>>[1] = g
      OBVIOUS
    <3>3. t \in Tags(<<g>>)
      BY <3>1, <3>2 DEF Tags
    <3> QED BY <2>6, <3>3 DEF g
  <2> QED BY <2>13, <2>14
<1> QED BY <1>3, <1>7, <1>8, <1>10, <1>11 DEF z

-----------------------------------------------------------------------------
\* What is left of the body and the trailer of a template.
RestOf(opts, lost, rest) ==
  IF CheckSum \notin lost THEN rest = Build(opts, spec.messages[Body]) \o Build(opts, spec.trailer)
  ELSE \E y : /\ Made(y, Nat \ {CheckSum}) /\ Build(opts, spec.trailer) = y \o <<Field(CheckSum, 0)>>
              /\ rest = Build(opts, spec.messages[Body]) \o y

\* Body and trailer have none of the mandatory tags of the header.
LEMMA RestFacts ==
  ASSUME Usable
  PROVE  /\ Apart(spec.messages[Body], AvailBody) /\ Apart(spec.trailer, AvailTrailer)
         /\ AvailBody \cap (Heads \cup {CheckSum}) = {} /\ AvailTrailer \cap Heads = {}
         /\ AvailBody \subseteq Nat \ Heads /\ AvailTrailer \subseteq Nat \ Heads
<1>1. CheckSum \in Tags(spec.trailer)
  BY DEF Usable, Capable, Demands
<1>2. Heads \subseteq Tags(spec.header)
  BY HeaderFacts
<1>3. AvailBody \subseteq Nat /\ AvailTrailer \subseteq Nat
  BY Lists3Apart
<1> QED BY <1>1, <1>2, <1>3, Lists3Apart DEF AvailBody, AvailTrailer

\* A trailer loses nothing but its CheckSum.
LEMMA LosingTrailer ==
  ASSUME Usable, NEW opts, Repeats(opts), NEW lost, Losable(lost)
  PROVE  \E x : /\ Losing(Build(opts, spec.trailer), lost) = x /\ Made(x, Nat \ Heads)
                /\ RestOf(opts, lost, Build(opts, spec.messages[Body]) \o x)
<1> DEFINE t == Build(opts, spec.trailer)
           f == Field(CheckSum, 0)
           one == <<f>>
<1>1. Made(t, AvailTrailer)
  BY RestFacts, BuildMade
<1>2. Made(t, Nat \ Heads)
  BY <1>1, RestFacts, MadeMore
<1>3. PICK y : Made(y, Nat \ {CheckSum}) /\ t = y \o <<f>>
  BY TrailerBuilt
<1>4. y \in Fields /\ f \in MsgFields /\ one \in Fields
  <2>1. f \in MsgFields
    BY TagNumbers
  <2> QED BY <1>3, <2>1 DEF Made, Fields
<1> HIDE DEF t, one
<1>5. t = y \o one
  BY <1>3 DEF one
<1>6. Made(y, AvailTrailer)
  <2> DEFINE w == y \o one
  <2>0. /\ DOMAIN y = 1..Len(y) /\ DOMAIN w = 1..(Len(y) + Len(one)) /\ Len(y) \in Nat /\ Len(one) \in Nat
        /\ \A i \in 1..Len(y) : w[i] = y[i]
    <3>1. y \in Fields /\ one \in Fields
      BY <1>4
    <3> QED BY <3>1, FieldsJoined
  <2> HIDE DEF w
  <2>1. DOMAIN y \subseteq DOMAIN t /\ \A i \in DOMAIN y : t[i] = y[i]
    <3>1. t = w
      BY <1>5 DEF w
    <3> QED BY <2>0, <3>1
  <2> QED BY <1>1, <1>4, <2>1 DEF Made
<1>7. lost \subseteq Heads \cup {CheckSum} /\ AvailTrailer \cap Heads = {}
  BY HeaderFacts, RestFacts DEF Losable
<1>8. CASE CheckSum \notin lost
  <2>1. \A i \in DOMAIN t : t[i].tag \notin lost
    BY <1>1, <1>7, <1>8 DEF Made
  <2>2. Losing(t, lost) = t
    BY <1>2, <2>1, LosingNothing DEF Made
  <2> QED BY <1>2, <1>8, <2>2 DEF RestOf, t
<1>9. CASE CheckSum \in lost
  <2>1. \A i \in DOMAIN y : y[i].tag \notin lost
    BY <1>3, <1>6, <1>7 DEF Made
  <2>2. Losing(y, lost) = y
    BY <1>4, <2>1, LosingNothing
  <2>3. Losing(one, lost) = <<>>
    <3>1. Kept(f, lost) = <<>>
      BY <1>9 DEF Kept, Field
    <3> QED BY <1>4, <3>1, LosingOne DEF one
  <2>4. Losing(t, lost) = Losing(y, lost) \o Losing(one, lost)
    BY <1>4, <1>5, LosingJoined
  <2>5. Losing(t, lost) = y
    BY <1>4, <2>2, <2>3, <2>4 DEF Fields
  <2>6. Made(y, Nat \ Heads)
    BY <1>6, RestFacts, MadeMore
  <2> QED BY <1>3, <1>9, <2>5, <2>6 DEF RestOf, t
<1> QED BY <1>8, <1>9 DEF t

\* What is left of a template.
LEMMA LosingSampled ==
  ASSUME Usable, NEW opts, Repeats(opts), NEW lost, Losable(lost)
  PROVE  \E rest : /\ Made(rest, Nat \ Heads) /\ RestOf(opts, lost, rest)
                   /\ Losing(Sampled(opts), lost) = All(Remaining(opts, lost), spec.header) \o rest
<1> DEFINE h == All(Typed(opts), spec.header)
           b == Build(opts, spec.messages[Body])
           t == Build(opts, spec.trailer)
           hb == h \o b
           P == All(Remaining(opts, lost), spec.header)
<1>1. PICK x : /\ Losing(t, lost) = x /\ Made(x, Nat \ Heads) /\ RestOf(opts, lost, b \o x)
  BY LosingTrailer
<1>2. OfHeader(spec.header)
  BY HeaderFacts DEF OfHeader
<1>3. Made(h, Tags(spec.header) \cup Inside) /\ Made(P, Tags(spec.header) \cup Inside) /\ Losing(h, lost) = P
  BY <1>2, HeaderAdds
<1>4. Made(b, AvailBody)
  BY RestFacts, BuildMade
<1>5. Losing(b, lost) = b
  <2>1. lost \subseteq Heads \cup {CheckSum}
    BY HeaderFacts DEF Losable
  <2>2. \A i \in DOMAIN b : b[i].tag \notin lost
    BY <1>4, <2>1, RestFacts DEF Made
  <2>3. b \in Fields
    BY <1>4 DEF Made
  <2> HIDE DEF b
  <2> QED BY <2>2, <2>3, LosingNothing
<1>6. t \in Fields
  BY TemplateFramed
<1>7. Sampled(opts) = hb \o t
  BY SampledAdds
<1>8. Made(b, Nat \ Heads)
  BY <1>4, RestFacts, MadeMore
<1> HIDE DEF h, b, t, P
<1>9. h \in Fields /\ b \in Fields /\ P \in Fields /\ x \in Fields
  BY <1>1, <1>3, <1>4 DEF Made
<1>10. hb \in Fields
  BY <1>9, FieldsJoined
<1>11. Losing(hb, lost) = Losing(h, lost) \o Losing(b, lost)
  <2>1. h \in Fields /\ b \in Fields
    BY <1>9
  <2>2. Losing(h \o b, lost) = Losing(h, lost) \o Losing(b, lost)
    BY <2>1, LosingJoined
  <2> QED BY <2>2
<1> HIDE DEF hb
<1>12. Losing(hb \o t, lost) = Losing(hb, lost) \o Losing(t, lost)
  BY <1>6, <1>10, LosingJoined
<1>13. (P \o b) \o x = P \o (b \o x)
  BY <1>9, ThreeJoined
<1>14. Losing(Sampled(opts), lost) = P \o (b \o x)
  BY <1>1, <1>3, <1>5, <1>7, <1>11, <1>12, <1>13
<1>15. Made(b \o x, Nat \ Heads)
  BY <1>1, <1>8, MadeJoined
<1> QED BY <1>1, <1>14, <1>15 DEF P, b

\* What salvage makes of what is left.
LEMMA SalvagedIs ==
  ASSUME Usable, NEW opts, Repeats(opts), NEW lost, Losable(lost)
  PROVE  \E l : /\ Rearranged(l) /\ StartsWell(l)
                /\ Salvage(Losing(Sampled(opts), lost)) = Repaired(opts, l)
<1> DEFINE m == Losing(Sampled(opts), lost)
<1>1. PICK rest : /\ Made(rest, Nat \ Heads) /\ RestOf(opts, lost, rest)
                  /\ m = All(Remaining(opts, lost), spec.header) \o rest
  BY LosingSampled
<1>2. PICK l : /\ Rearranged(l) /\ StartsWell(l)
               /\ SalvageTags(m)[Len(HeaderTags)].m = All(Typed(opts), l) \o rest
  BY <1>1, SalvagedHeader
<1> HIDE DEF m
<1>3. Salvage(m) = Finalize(All(Typed(opts), l) \o rest)
  BY <1>2 DEF Salvage
<1>4. CASE CheckSum \notin lost
  <2>1. All(Typed(opts), l) \o rest = Repaired(opts, l)
    BY <1>1, <1>4 DEF RestOf, Repaired
  <2>2. Framed(Repaired(opts, l))
    BY <1>2, RepairedFramed
  <2>3. Finalize(Repaired(opts, l)) = Repaired(opts, l)
    BY <2>2, FinalizeKeeps
  <2> QED BY <1>2, <1>3, <2>1, <2>3 DEF m
<1>5. CASE CheckSum \in lost
  <2>1. PICK y : /\ Made(y, Nat \ {CheckSum}) /\ Build(opts, spec.trailer) = y \o <<Field(CheckSum, 0)>>
                 /\ rest = Build(opts, spec.messages[Body]) \o y
    BY <1>1, <1>5 DEF RestOf
  <2> DEFINE w == All(Typed(opts), l) \o (Build(opts, spec.messages[Body]) \o y)
  <2>2. Made(w, Nat \ {CheckSum}) /\ TypedStart(w) /\ Repaired(opts, l) = w \o <<Field(CheckSum, 0)>>
    BY <1>2, <2>1, RepairedParts
  <2>3. All(Typed(opts), l) \o rest = w
    BY <2>1
  <2> HIDE DEF w
  <2>4. Finalize(w) = w \o <<Field(CheckSum, 0)>>
    BY <2>2, FinalizeAdds
  <2> QED BY <1>2, <1>3, <2>2, <2>3, <2>4 DEF m
<1> QED BY <1>4, <1>5 DEF m

\* A header in another order is as well separated.
LEMMA RearrangedApart ==
  ASSUME Usable, NEW l, Rearranged(l)
  PROVE  Apart(l, AvailHeader) /\ Tags(l) = Tags(spec.header)
<1> DEFINE H == spec.header
           c == <<l, AvailHeader>>
<1>1. Apart(H, AvailHeader)
  BY Lists3Apart
<1>2. Tags(l) = Tags(H)
  BY TagsOfElements DEF Rearranged
<1>3. c \in Lists /\ c[1] = l /\ c[2] = AvailHeader
  BY <1>1 DEF Lists, Apart, Rearranged
<1>4. Tags(l) \subseteq AvailHeader
  BY <1>1, <1>2, ApartIs
<1>5. \A i, j \in DOMAIN l : l[i].tag = l[j].tag => i = j
  BY DEF Rearranged, Distinct
<1>6. ASSUME NEW i \in DOMAIN l, l[i].isGroup
      PROVE  /\ l[i].tag \notin Mandatory /\ l[i].entries # <<>>
             /\ Separate[<<l[i].entries, AvailHeader \ Tags(l)>>]
  <2>1. PICK k \in DOMAIN H : l[i] = H[k]
    BY DEF Rearranged, Elements
  <2>2. H[k].isGroup => /\ H[k].tag \notin Mandatory /\ H[k].entries # <<>>
                        /\ Apart(H[k].entries, AvailHeader \ Tags(H))
    BY <1>1, ApartIs
  <2> QED BY <1>2, <1>6, <2>1, <2>2 DEF Apart
<1>7. SeparateList(Separate, c)
  <2> HIDE DEF c
  <2> QED BY <1>3, <1>4, <1>5, <1>6 DEF SeparateList
<1>8. Separate[c]
  <2> HIDE DEF c
  <2> QED BY <1>3, <1>7, SeparateIs
<1>9. l \in Seq(Entries) /\ AvailHeader \in SUBSET Nat
  BY <1>1 DEF Rearranged, Apart
<1> QED BY <1>2, <1>8, <1>9 DEF Apart

\* Typed pieces of the header tell their entries.
LEMMA TypedTold ==
  ASSUME Usable, NEW opts, Repeats(opts), NEW l, Rearranged(l), NEW m, IsMessage(m)
  PROVE  EntriesTold(m, Typed(opts), l)
<1> DEFINE A == Typed(opts)
           D == Adding(opts)
           H == spec.header
<1>1. EntriesTold(m, D, H)
  BY Lists3Apart, EntriesAreTold
<1>2. \A i \in DOMAIN l : \A b \in BOOLEAN : \A at :
        Occurs(m, at, A[<<l[i], b>>]) => EntryTold(m, l[i], A[<<l[i], b>>], at)
  <2> SUFFICES ASSUME NEW i \in DOMAIN l, NEW b \in BOOLEAN, NEW at, Occurs(m, at, A[<<l[i], b>>])
               PROVE  EntryTold(m, l[i], A[<<l[i], b>>], at)
    OBVIOUS
  <2> DEFINE e == l[i]
             c == <<e, b>>
  <2>1. e \in Elements(H) /\ e \in Entries
    <3>1. l \in Seq(Entries) /\ Elements(l) = Elements(H)
      BY DEF Rearranged
    <3>2. l[i] \in Entries
      BY <3>1
    <3>3. l[i] \in Elements(l)
      BY DEF Elements
    <3> QED BY <3>1, <3>2, <3>3
  <2>2. PICK k \in DOMAIN H : e = H[k]
    BY <2>1 DEF Elements
  <2>3. Occurs(m, at, D[c]) => EntryTold(m, e, D[c], at)
    BY <1>1, <2>2 DEF EntriesTold
  <2>4. Occurs(m, at, A[c])
    OBVIOUS
  <2>5. c \in Pairs /\ c[1] = e
    <3> HIDE DEF e
    <3> QED BY <2>1 DEF Pairs
  <2>6. e.tag = MsgType => e.required /\ ~e.isGroup
    BY <2>1, HeaderFacts, HeadEntries
  <2> HIDE DEF e, c, A, D
  <2>7. (e.tag = MsgType => A[c] = <<HeadField(MsgType)>>) /\ (e.tag # MsgType => A[c] = D[c])
    BY <2>1, <2>5, TypedIs DEF A, D
  <2>8. ASSUME e.tag = MsgType PROVE EntryTold(m, e, A[c], at)
    <3> DEFINE g == HeadField(MsgType)
    <3>1. g.tag = MsgType
      BY DEF HeadField, Field
    <3> HIDE DEF g
    <3>2. <<g>> # <<>> /\ <<g>>[1] = g /\ Len(<<g>>) = 1
      OBVIOUS
    <3>3. EntryTold(m, e, <<g>>, at)
      BY <2>6, <2>8, <3>1, <3>2 DEF EntryTold
    <3> QED BY <2>7, <2>8, <3>3 DEF g
  <2>9. ASSUME e.tag # MsgType PROVE EntryTold(m, e, A[c], at)
    BY <2>3, <2>4, <2>7, <2>9
  <2>10. EntryTold(m, e, A[c], at)
    BY <2>8, <2>9
  <2> QED BY <2>10 DEF e, c, A
<1> HIDE DEF A
<1>3. EntriesTold(m, A, l)
  BY <1>2 DEF EntriesTold
<1> QED BY <1>3 DEF A

\* What is repaired has the three blocks of its specification.
LEMMA RepairedParted ==
  ASSUME Usable, NEW opts, Repeats(opts), NEW l, Rearranged(l), StartsWell(l)
  PROVE  Parted(Repaired(opts, l), Body)
<1> DEFINE A == Typed(opts)
           h == All(A, l)
           b == Build(opts, spec.messages[Body])
           t == Build(opts, spec.trailer)
           bt == b \o t
           m == Repaired(opts, l)
           no == FALSE
           one == 1
           p == one + Len(h)
           q == p + Len(b)
<1>1. h \in Fields /\ b \in Fields /\ t \in Fields
  BY TypedStarts, TemplateFramed DEF TypedStart
<1>2. m = h \o bt /\ Made(m, Nat)
  BY RepairedFramed DEF Repaired
<1>3. IsMessage(m)
  BY <1>2 DEF Made, IsMessage, Fields
<1>4. Adds(A, l) /\ l \in Seq(Entries)
  <2>1. OfHeader(l) /\ Losable({}) /\ l \in Seq(Entries)
    BY DEF Rearranged, OfHeader, Losable
  <2> QED BY <2>1, HeaderAdds
<1>5. EntriesTold(m, A, l)
  BY <1>3, TypedTold
<1> HIDE DEF A
<1>6. h = AddAll(A, l, no) /\ no \in BOOLEAN
  BY DEF All
<1> HIDE DEF h, b, t, m, no
<1>7. bt \in Fields /\ Len(bt) = Len(b) + Len(t) /\ Len(b) \in Nat /\ Len(t) \in Nat
  BY <1>1, FieldsJoined
<1> HIDE DEF bt
<1>8. Len(m) = Len(h) + Len(bt) /\ Len(h) \in Nat /\ Len(m) \in Nat /\ \A j \in 1..Len(m) : 1 + j - 1 = j
  <2>1. h \in Fields /\ bt \in Fields
    BY <1>1, <1>7
  <2>2. h \o bt \in Fields /\ Len(h \o bt) = Len(h) + Len(bt) /\ Len(h) \in Nat /\ Len(bt) \in Nat
    BY <2>1, FieldsJoined
  <2> QED BY <1>2, <2>2
<1>9. Occurs(m, one, m)
  BY <1>8 DEF Occurs
<1>10. one = 1 /\ one \in Nat
  OBVIOUS
<1> HIDE DEF one
<1>11. Occurs(m, one, h) /\ Occurs(m, p, bt)
  <2>1. Occurs(m, one, h \o bt)
    BY <1>2, <1>9
  <2> QED BY <1>1, <1>3, <1>7, <2>1, OccursSplit
<1> HIDE DEF p
<1>12. Occurs(m, p, b) /\ Occurs(m, q, t)
  <2>1. Occurs(m, p, b \o t)
    BY <1>11 DEF bt
  <2> QED BY <1>1, <1>3, <2>1, OccursSplit
<1> HIDE DEF q
<1>13. Stands(m, Elements(l), one, one + Len(h))
  <2>1. Occurs(m, one, AddAll(A, l, no)) /\ Apart(l, AvailHeader)
    BY <1>6, <1>11, RearrangedApart
  <2>2. Stands(m, Elements(l), one, one + Len(AddAll(A, l, no)))
    BY <1>3, <1>4, <1>5, <1>6, <2>1, ListStands
  <2> QED BY <1>6, <2>2
<1>14. /\ Stands(m, Elements(spec.messages[Body]), p, p + Len(b))
       /\ Stands(m, Elements(spec.trailer), q, q + Len(t))
  BY <1>3, <1>12, BuildStands, Lists3Apart DEF b, t
<1>15. Elements(l) = Elements(spec.header)
  BY DEF Rearranged
<1>16. p = one + Len(h) /\ q = p + Len(b) /\ q + Len(t) = Len(m) + 1
  BY <1>7, <1>8, <1>10 DEF p, q
<1>17. p \in Spots(m) /\ q \in p..Len(m) + 1
  BY <1>7, <1>8, <1>10, <1>16 DEF Spots
<1>18. /\ Stands(m, Elements(spec.header), 1, p) /\ Stands(m, Elements(spec.messages[Body]), p, q)
       /\ Stands(m, Elements(spec.trailer), q, Len(m) + 1)
  BY <1>10, <1>13, <1>14, <1>15, <1>16
<1>19. Parted(m, Body)
  BY <1>17, <1>18 DEF Parted
<1> QED BY <1>19 DEF m

\* What is repaired conforms to the specification.
LEMMA RepairedConforms ==
  ASSUME Usable, NEW opts, Repeats(opts), NEW l, Rearranged(l), StartsWell(l)
  PROVE  Conforms(Repaired(opts, l)) /\ IsMessage(Repaired(opts, l))
<1> DEFINE m == Repaired(opts, l)
<1>1. /\ Framed(m) /\ Made(m, Nat) /\ m[3] = Field(MsgType, Body)
      /\ \A i \in DOMAIN HeaderTags : HeaderTags[i] \in Tags(m)
  BY RepairedFramed
<1>2. Parted(m, Body)
  BY RepairedParted
<1> HIDE DEF m
<1>3. ~Misplaced(m) /\ Get(m, MsgType).n = Body
  BY <1>1, FramedInPlace
<1>4. IsMessage(m) /\ \A i \in DOMAIN m : m[i].ok
  BY <1>1 DEF Made, Fields, IsMessage
<1>5. Body \in DOMAIN spec.messages
  BY DEF Usable
<1> QED BY <1>2, <1>3, <1>4, <1>5, ConformsIs DEF m

-----------------------------------------------------------------------------
\* The mandatory tags but MsgType are what can get lost.
LEMMA LostTags ==
  ASSUME Usable, NEW lost, lost \subseteq {BeginString, BodyLength, CheckSum} \cup Elements(Routing)
  PROVE  Losable(lost)
<1>1. \A i \in 1..3 : i \in DOMAIN HeaderTags
  BY NumbersOfHeads
<1>2. \A j \in DOMAIN Routing : 3 + j \in DOMAIN HeaderTags /\ HeaderTags[3 + j] = Routing[j] /\ 3 < 3 + j
  BY RoutingAssumption DEF HeaderTags
<1>3. ASSUME NEW j \in DOMAIN Routing PROVE Routing[j] \in Mandatory \ {MsgType}
  <2> DEFINE k == 3 + j
             three == 3
  <2>1. k \in DOMAIN HeaderTags /\ HeaderTags[k] = Routing[j] /\ three < k /\ three \in DOMAIN HeaderTags
    BY <1>1, <1>2
  <2>2. HeaderTags[three] = MsgType
    BY HeaderTagsAre
  <2> HIDE DEF k, three
  <2>3. HeaderTags[three] # HeaderTags[k]
    BY <2>1, HeadsInOrder
  <2>4. HeaderTags[k] \in Mandatory
    BY <2>1, HeaderTagsAre
  <2> QED BY <2>1, <2>2, <2>3, <2>4
<1>4. BeginString \in Mandatory /\ BodyLength \in Mandatory /\ CheckSum \in Mandatory
  BY HeaderTagsAre
<1>5. BeginString # MsgType /\ BodyLength # MsgType /\ CheckSum # MsgType
  BY DEF BeginString, BodyLength, MsgType, CheckSum
<1>6. Elements(Routing) \subseteq Mandatory \ {MsgType}
  BY <1>3 DEF Elements
<1> QED BY <1>4, <1>5, <1>6 DEF Losable

-----------------------------------------------------------------------------
(* The state machine.                                                        *)

\* A specification that is in use is what LoadSpec made of the file, which
\* SpecsAssumption says is well formed; a template is what Sample made of it.

InUse == phase \notin {"new", "raw", "failed"}

DictInv ==
  /\ phase \in {"new", "raw", "loaded", "failed", "sampled", "edited", "finalized", "salvaged"}
  /\ msg \in Fields
  /\ phase # "new" => raw \in RawSpecs
  /\ InUse => spec = SpecOf(raw) /\ spec # NoSpec
  /\ phase = "sampled" => \E opts \in Options : msg = Sampled(opts)

LEMMA InUseIsUsable == ASSUME DictInv, InUse PROVE Usable
<1>1. raw \in RawSpecs /\ spec = SpecOf(raw) /\ spec # NoSpec
  BY DEF DictInv, InUse
<1>2. raw.fields \subseteq Nat /\ WellFormed(SpecOf(raw), raw.fields)
  BY <1>1, SpecsAssumption
<1>3. Loaded
  BY <1>1, <1>2 DEF Loaded
<1>4. Body \in DOMAIN spec.messages /\ Capable(spec.header, spec.trailer)
  BY <1>1 DEF SpecOf
<1> QED BY <1>3, <1>4 DEF Usable

LEMMA OptionsRepeat == ASSUME NEW opts \in Options PROVE Repeats(opts)
BY OptionsAssumption DEF Repeats

LEMMA DictInvInit == DictInit => DictInv
BY DEF DictInit, DictInv, InUse, Fields

LEMMA DictInvNext == DictInv /\ [DictNext]_dictVars => DictInv'
<1> SUFFICES ASSUME DictInv, [DictNext]_dictVars PROVE DictInv'
  OBVIOUS
<1>1. CASE LoadRawSpec
  BY <1>1 DEF LoadRawSpec, DictInv, InUse
<1>2. CASE LoadSpec
  <2> DEFINE made == SpecOf(raw)
  <2>1. spec' = made /\ raw' = raw /\ msg' = msg /\ phase = "raw"
        /\ phase' = IF spec' = NoSpec THEN "failed" ELSE "loaded"
    BY <1>2 DEF LoadSpec
  <2> QED BY <2>1 DEF DictInv, InUse
<1>3. CASE Edit
  <2>1. phase \in {"sampled", "edited"} /\ phase' = "edited" /\ raw' = raw /\ spec' = spec
    BY <1>3 DEF Edit
  <2>2. PICK i \in DOMAIN msg : msg' \in Edited(msg, i)
    BY <1>3 DEF Edit
  <2>3. msg' \in Fields
    BY <2>2, EditedType DEF DictInv
  <2> QED BY <2>1, <2>3 DEF DictInv, InUse
<1>4. CASE Finish
  <2>1. phase = "edited" /\ phase' \in {"finalized", "salvaged"} /\ raw' = raw /\ spec' = spec
    BY <1>4 DEF Finish
  <2>2. msg' = Finalize(msg) \/ msg' = Salvage(msg)
    BY <1>4 DEF Finish
  <2>3. msg' \in Fields
    BY <2>2, FinalizeType, SalvageType DEF DictInv
  <2> QED BY <2>1, <2>3 DEF DictInv, InUse
<1>5. ASSUME NEW opts \in Options, Sample(opts) PROVE DictInv'
  <2>1. phase = "loaded" /\ phase' = "sampled" /\ raw' = raw /\ spec' = spec /\ msg' = Sampled(opts)
    BY <1>5 DEF Sample
  <2>2. Usable
    BY <2>1, InUseIsUsable DEF InUse
  <2>3. Sampled(opts) \in Fields
    BY <2>2, OptionsRepeat, SampledType DEF Usable
  <2>4. msg' \in Fields
    BY <2>1, <2>3
  <2>5. Sampled(opts)' = Sampled(opts)
    BY <2>1 DEF Sampled
  <2>6. \E o \in Options : msg' = Sampled(o)'
    BY <2>1, <2>5
  <2> QED BY <2>1, <2>4, <2>6 DEF DictInv, InUse
<1>6. CASE UNCHANGED dictVars
  <2>1. phase' = phase /\ raw' = raw /\ spec' = spec /\ msg' = msg
    BY <1>6 DEF dictVars
  <2>2. \A opts \in Options : Sampled(opts)' = Sampled(opts)
    BY <2>1 DEF Sampled
  <2> QED BY <2>1, <2>2 DEF DictInv, InUse
<1> QED BY <1>1, <1>2, <1>3, <1>4, <1>5, <1>6 DEF DictNext

LEMMA DictInvAlways == DictSpec => []DictInv
BY DictInvInit, DictInvNext, PTL DEF DictSpec

\* Whatever the dictionary and the message, a strict validation is silent
\* exactly of the messages the specification describes, and of those a basic
\* one is silent too: walkSpec, with its contexts and its groups, against the
\* grammar that can be read off the entries.
THEOREM StrictValidationIsTheLanguage == DictSpec => []StrictIsTheLanguage
<1>1. DictInv => StrictIsTheLanguage
  <2> SUFFICES ASSUME DictInv, HasMessage
               PROVE  /\ Validate(msg, "strict") = {} <=> Conforms(msg)
                      /\ Conforms(msg) => Validate(msg, "basic") = {}
    BY DEF StrictIsTheLanguage
  <2>1. Loaded
    BY InUseIsUsable DEF HasMessage, InUse, Usable
  <2>2. IsMessage(msg)
    BY DEF DictInv, Fields, IsMessage
  <2>3. Validate(msg, "strict") = {} => Conforms(msg)
    BY <2>1, <2>2, StrictConforms
  <2>4. Conforms(msg) => Validate(msg, "strict") = {} /\ Validate(msg, "basic") = {}
    BY <2>1, <2>2, ConformingPasses
  <2> QED BY <2>3, <2>4
<1> QED BY <1>1, DictInvAlways, PTL

\* Whatever the dictionary, whichever optional fields are asked for and however
\* often groups are repeated, a strict validation is silent of what Sample
\* built, MsgType, BodyLength and CheckSum included.
THEOREM TemplatesAreValid == DictSpec => []SamplesAreValid
<1>1. DictInv => SamplesAreValid
  <2> SUFFICES ASSUME DictInv, phase = "sampled" PROVE Validate(msg, "strict") = {}
    BY DEF SamplesAreValid
  <2>1. Usable
    BY InUseIsUsable DEF InUse
  <2>2. PICK opts \in Options : msg = Sampled(opts)
    BY DEF DictInv
  <2>3. Conforms(Sampled(opts)) /\ IsMessage(Sampled(opts))
    BY <2>1, OptionsRepeat, SampledConforms
  <2>4. Validate(Sampled(opts), "strict") = {}
    BY <2>1, <2>3, ConformingPasses DEF Usable
  <2> QED BY <2>2, <2>4
<1> QED BY <1>1, DictInvAlways, PTL

\* Whichever mandatory fields but MsgType a template loses, a strict validation
\* is silent of what Salvage makes of the rest: SalvageTag puts each of them
\* where the header may have it, and Finalize puts the CheckSum last.
THEOREM SalvageAlwaysRepairs == DictSpec => []SalvageRepairs
<1>1. DictInv => SalvageRepairs
  <2> SUFFICES ASSUME DictInv, phase = "sampled",
                      NEW lost \in SUBSET (({BeginString, BodyLength, CheckSum} \cup Elements(Routing)) \cap Tags(msg))
               PROVE  Validate(Salvage(Losing(msg, lost)), "strict") = {}
    BY DEF SalvageRepairs
  <2>1. Usable
    BY InUseIsUsable DEF InUse
  <2>2. PICK opts \in Options : msg = Sampled(opts)
    BY DEF DictInv
  <2>3. Repeats(opts)
    BY OptionsRepeat
  <2>4. Losable(lost)
    <3>1. lost \subseteq {BeginString, BodyLength, CheckSum} \cup Elements(Routing)
      OBVIOUS
    <3> QED BY <2>1, <3>1, LostTags
  <2>5. PICK l : Rearranged(l) /\ StartsWell(l) /\ Salvage(Losing(Sampled(opts), lost)) = Repaired(opts, l)
    BY <2>1, <2>3, <2>4, SalvagedIs
  <2>6. Conforms(Repaired(opts, l)) /\ IsMessage(Repaired(opts, l))
    BY <2>1, <2>3, <2>5, RepairedConforms
  <2>7. Validate(Repaired(opts, l), "strict") = {}
    BY <2>1, <2>6, ConformingPasses DEF Usable
  <2> QED BY <2>2, <2>5, <2>7
<1> QED BY <1>1, DictInvAlways, PTL

=============================================================================
