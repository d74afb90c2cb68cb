------------------------------ MODULE BlockFlow ------------------------------
(***************************************************************************)
(* What the help text of pkg/executor promises of its control flow: blocks *)
(* nest, an if runs its first clause whose condition succeeds, a while runs *)
(* as long as its condition succeeds, break and continue belong to the     *)
(* innermost loop.  A script is a sequence of instructions; at is the next *)
(* one with an effect of its own, a command, a condition or an exit, and   *)
(* there is no jump table: blocks are found by counting.                   *)
(***************************************************************************)
EXTENDS Integers, Sequences, FiniteSets

CONSTANT Kinds   \* the kinds of instruction a script may hold

VARIABLES
  phase,  \* "reading", "running", or how the script ended
  code,   \* the instructions read
  at      \* the next instruction with an effect, or one beyond the last

Opens == {"if", "while"}
Closes == {"endif", "endwhile"}
Positions == 1..Len(code)

Least(S) == CHOOSE i \in S : \A j \in S : i <= j
Greatest(S) == CHOOSE i \in S : \A j \in S : i >= j

\* How many blocks are open before instruction i.
Level(i) ==
  Cardinality({j \in 1..(i - 1) : code[j] \in Opens})
    - Cardinality({j \in 1..(i - 1) : code[j] \in Closes})

\* The opening instructions of the blocks around i, innermost last.
Around(i) ==
  {o \in 1..(i - 1) : /\ code[o] \in Opens
                      /\ \A j \in (o + 1)..i : Level(j) > Level(o)}
Inside(i) == Around(i) # {}
OpenOf(i) == Greatest(Around(i))
LoopsOf(i) == {o \in Around(i) : code[o] = "while"}
LoopOf(i) == Greatest(LoopsOf(i))

\* Where the block that o opens is closed, and the clause after i in it.
CloseOf(o) == Least({j \in (o + 1)..Len(code) : code[j] \in Closes /\ Level(j) = Level(o) + 1})
ClausesAfter(i, o) ==
  {j \in (i + 1)..Len(code) :
     code[j] \in {"elif", "else", "endif"} /\ Inside(j) /\ OpenOf(j) = o}
HeadOf(i) == IF code[i] = "if" THEN i ELSE OpenOf(i)
NextClause(i) == Least(ClausesAfter(i, HeadOf(i)))

\* Nothing in the script so far is out of place.
Sound(i) ==
  CASE code[i] = "junk" -> FALSE
    [] code[i] \in {"elif", "else"} ->
         /\ Inside(i) /\ code[OpenOf(i)] = "if"
         /\ \A j \in (OpenOf(i) + 1)..(i - 1) :
              code[j] = "else" => OpenOf(j) # OpenOf(i)
    [] code[i] = "endif" -> Inside(i) /\ code[OpenOf(i)] = "if"
    [] code[i] = "endwhile" -> Inside(i) /\ code[OpenOf(i)] = "while"
    [] code[i] \in {"break", "continue"} -> LoopsOf(i) # {}
    [] OTHER -> TRUE

Completable == \A i \in Positions : Sound(i)
WellFormed == Completable /\ Level(Len(code) + 1) = 0

(***************************************************************************)
(* The instruction with an effect that control reaches from i, when i is   *)
(* reached from the one before it: a clause goes on behind its if, a break *)
(* behind its loop, and a loop starts again.                               *)
(***************************************************************************)
Beyond(i) ==
  CASE code[i] \in {"elif", "else"} -> CloseOf(OpenOf(i))
    [] code[i] = "break" -> CloseOf(LoopOf(i)) + 1
    [] OTHER -> i + 1

Reaches[i \in 1..(Len(code) + 1)] ==
  IF i \in Positions /\ code[i] \in {"elif", "else", "endif", "break"} THEN Reaches[Beyond(i)]
  ELSE IF i \in Positions /\ code[i] \in {"endwhile", "continue"} THEN LoopOf(i)
  ELSE i

\* The same when i may have been reached because a condition failed or a loop
\* was left: an elif has its turn, an else or the end of a loop is passed.
Settle(i, left) ==
  IF left /\ i \in Positions /\ code[i] = "elif" THEN i
  ELSE Reaches[IF left /\ i \in Positions /\ code[i] \in {"else", "endwhile"} THEN i + 1 ELSE i]

-----------------------------------------------------------------------------
Init == phase = "reading" /\ code = <<>> /\ at = 0

Read ==
  /\ phase = "reading"
  /\ \E k \in Kinds : code' = Append(code, k)
  /\ at' = at
  /\ phase' = IF Completable' THEN "reading" ELSE "syntax"

Load ==
  /\ phase = "reading" /\ code' = code
  /\ IF WellFormed THEN phase' = "running" /\ at' = Settle(1, FALSE)
     ELSE phase' = "syntax" /\ at' = at

\* A condition: the next clause of an if, or what follows the loop, on failure.
Condition ==
  /\ at <= Len(code) /\ code[at] \in {"if", "elif", "while"}
  /\ \/ at' = Settle(at + 1, FALSE)
     \/ at' = IF code[at] = "while" THEN Settle(CloseOf(at) + 1, FALSE)
              ELSE Settle(NextClause(at), TRUE)

Command == at <= Len(code) /\ code[at] = "cmd" /\ at' = Settle(at + 1, FALSE)

Run == phase = "running" /\ (Condition \/ Command) /\ UNCHANGED <<phase, code>>

\* A script succeeds at its end or at an exit, fails when a command or a
\* condition does, and may be cancelled before any of them.
Stop ==
  /\ phase = "running"
  /\ \/ phase' = "ok" /\ (at > Len(code) \/ code[at] = "exit")
     \/ phase' = "falsy" /\ at <= Len(code) /\ code[at] = "cmd"
     \/ phase' = "failed" /\ at <= Len(code) /\ code[at] # "exit"
     \/ phase' = "cancelled"
  /\ UNCHANGED <<code, at>>

Next == Read \/ Load \/ Run \/ Stop

Spec == Init /\ [][Next]_<<phase, code, at>>
=============================================================================
