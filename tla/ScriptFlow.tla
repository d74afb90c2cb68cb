------------------------------ MODULE ScriptFlow ------------------------------
(***************************************************************************)
(* The script executor of pkg/executor: parseJumpTable reads a script line *)
(* by line and patches a jump table, EvalBatch runs it with a program      *)
(* counter and the flag justJumped.                                        *)
(*                                                                         *)
(* A command is any line without a keyword, include and not among them: it *)
(* succeeds, fails softly (FalsyError) or fails.  Positions count from 1,  *)
(* so the zero value of a Jump points at instruction 1.                    *)
(***************************************************************************)
EXTENDS Naturals, Sequences

CONSTANTS
  Kinds,    \* the kinds of line a script may hold: subset of AllKinds
  MaxLen    \* bound on the length of a script

\* "cmd" is Type "" and "junk" a one-word keyword with something after it.
AllKinds ==
  {"if", "elif", "else", "endif", "while", "endwhile", "break", "continue",
   "exit", "cmd", "junk"}

ASSUME KindsAssumption == Kinds \subseteq AllKinds
ASSUME LengthAssumption == MaxLen \in Nat

VARIABLES
  phase,       \* "reading", "running", or how EvalBatch returned
  code,        \* instructions, by their Type
  jumps,       \* jumpTable
  stack,       \* the frames of open blocks, by their pc
  whiles,      \* whilePCs
  breaks,      \* breakpoints
  pc,
  justJumped,
  cancelled    \* GoCtx is done

parserVars == <<code, jumps, stack, whiles, breaks>>
vars == <<phase, parserVars, pc, justJumped, cancelled>>

Init ==
  /\ phase = "reading"
  /\ code = <<>> /\ jumps = <<>> /\ stack = <<>> /\ whiles = <<>> /\ breaks = <<>>
  /\ pc = 1 /\ justJumped = FALSE /\ cancelled = FALSE

Zero == [onFalse |-> 1, onEnd |-> 1]
Entry(p) == IF p \in DOMAIN jumps THEN jumps[p] ELSE Zero
Patched(new) == [p \in DOMAIN jumps \cup DOMAIN new |-> IF p \in DOMAIN new THEN new[p] ELSE jumps[p]]

Last(s) == s[Len(s)]
Front(s) == SubSeq(s, 1, Len(s) - 1)
Top == IF stack = <<>> THEN "none" ELSE code[Last(stack)]
Here == Len(code) + 1

-----------------------------------------------------------------------------
\* Mutations: what a slip in the code would turn a definition below into.  No
\* specification uses them; each breaks a property of this module.

\* A loop that takes the breaks of the loops around it, too.
OuterBreaksNone == 0

\* An else that gets no entry of its own.
ChainEndNoElse(chain) ==
  [p \in {q \in chain : code[q] # "else"} |->
     [onFalse |-> IF p \in DOMAIN jumps THEN jumps[p].onFalse ELSE Here, onEnd |-> Here]]

\* A loop that does not look at the context.
ExecutesAlways(k) ==
  /\ phase = "running"
  /\ pc <= Len(code) /\ code[pc] = k

\* A loop that is not taken off whilePCs.
LoopEndKeepsPC ==
  /\ stack' = Front(stack)
  /\ jumps' = Patched([p \in {Last(stack), Here} |->
       IF p = Here THEN [Zero EXCEPT !.onEnd = Last(stack)] ELSE [Zero EXCEPT !.onFalse = Here]])
  /\ UNCHANGED <<whiles, breaks>>

-----------------------------------------------------------------------------
\* parseJumpTable.

Misplaced(k) ==
  \/ k = "junk"
  \/ k \in {"elif", "else"} /\ Top \notin {"if", "elif"}
  \/ k = "endif" /\ Top \notin {"if", "elif", "else"}
  \/ k = "endwhile" /\ Top # "while"
  \/ k \in {"break", "continue"} /\ whiles = <<>>

Reject(k) ==
  /\ Misplaced(k)
  /\ phase' = "syntax"
  /\ UNCHANGED <<jumps, stack, whiles, breaks>>

Plain(k) ==
  /\ k \in {"cmd", "exit"}
  /\ UNCHANGED <<jumps, stack, whiles, breaks>>

Open(k) ==
  /\ k \in {"if", "while"}
  /\ stack' = Append(stack, Here)
  /\ whiles' = IF k = "while" THEN Append(whiles, Here) ELSE whiles
  /\ UNCHANGED <<jumps, breaks>>

\* The clause before, when false, goes on here.
Clause(k) ==
  /\ k \in {"elif", "else"}
  /\ jumps' = Patched([p \in {Last(stack)} |-> [Zero EXCEPT !.onFalse = Here]])
  /\ stack' = Append(stack, Here)
  /\ UNCHANGED <<whiles, breaks>>

\* Frames are popped up to the first if; a condition without an entry is the
\* last of its chain.
ChainEnd(chain) ==
  [p \in chain |->
     [onFalse |-> IF p \notin DOMAIN jumps /\ code[p] # "else" THEN Here ELSE Entry(p).onFalse,
      onEnd |-> Here]]

EndIf(k) ==
  LET first == CHOOSE i \in DOMAIN stack :
        /\ code[stack[i]] = "if"
        /\ \A j \in (i + 1)..Len(stack) : code[stack[j]] # "if"
  IN /\ k = "endif"
     /\ stack' = SubSeq(stack, 1, first - 1)
     /\ jumps' = Patched(ChainEnd({stack[i] : i \in first..Len(stack)}))
     /\ UNCHANGED <<whiles, breaks>>

\* The number of breakpoints of outer loops: endwhile pops from the end while
\* the level is that of the loop it closes.
OuterBreaks ==
  CHOOSE n \in 0..Len(breaks) :
    /\ n = 0 \/ breaks[n].level < Len(whiles)
    /\ \A i \in (n + 1)..Len(breaks) : breaks[i].level >= Len(whiles)

\* endwhile goes back to its while, a false while and the breaks come here.
LoopEnd ==
  /\ stack' = Front(stack) /\ whiles' = Front(whiles)
  /\ breaks' = SubSeq(breaks, 1, OuterBreaks)
  /\ LET broken == {breaks[i].pc : i \in (OuterBreaks + 1)..Len(breaks)} IN
     jumps' = Patched([p \in {Last(stack), Here} \cup broken |->
       IF p = Here THEN [Zero EXCEPT !.onEnd = Last(stack)]
       ELSE IF p = Last(stack) THEN [Entry(p) EXCEPT !.onFalse = Here]
       ELSE [Zero EXCEPT !.onEnd = Here]])

EndWhile(k) == k = "endwhile" /\ LoopEnd

Break(k) ==
  /\ k = "break"
  /\ breaks' = Append(breaks, [level |-> Len(whiles), pc |-> Here])
  /\ UNCHANGED <<jumps, stack, whiles>>

Continue(k) ==
  /\ k = "continue"
  /\ jumps' = Patched([p \in {Here} |-> [Zero EXCEPT !.onEnd = Last(whiles)]])
  /\ UNCHANGED <<stack, whiles, breaks>>

ReadLine(k) ==
  /\ phase = "reading" /\ Len(code) < MaxLen
  /\ code' = Append(code, k)   \* the refused line, too, which the code does not keep
  /\ \/ Reject(k)
     \/ /\ ~Misplaced(k) /\ phase' = phase
        /\ \/ Plain(k) \/ Open(k) \/ Clause(k) \/ EndIf(k)
           \/ EndWhile(k) \/ Break(k) \/ Continue(k)
  /\ UNCHANGED <<pc, justJumped, cancelled>>

EndOfScript ==
  /\ phase = "reading"
  /\ phase' = IF stack = <<>> THEN "running" ELSE "syntax"
  /\ UNCHANGED <<parserVars, pc, justJumped, cancelled>>

-----------------------------------------------------------------------------
\* EvalBatch, one iteration of its loop per step.

\* The iteration at an instruction of kind k, past the check of the context.
Executes(k) ==
  /\ phase = "running" /\ ~cancelled
  /\ pc <= Len(code) /\ code[pc] = k

GoTo(target, jumped) == pc' = target /\ justJumped' = jumped /\ phase' = phase
Return(how) == phase' = how /\ UNCHANGED <<pc, justJumped>>

\* A clause or an endwhile reached from the line before it.
Passed(k) == k \in {"elif", "else", "endwhile"} /\ ~justJumped
PassOver == \E k \in AllKinds :
  Executes(k) /\ Passed(k) /\ GoTo(jumps[pc].onEnd, FALSE)

WalkOn == \E k \in {"endif", "else", "endwhile"} :
  Executes(k) /\ ~Passed(k) /\ GoTo(pc + 1, FALSE)

Leap == \E k \in {"break", "continue"} :
  Executes(k) /\ GoTo(jumps[pc].onEnd, TRUE)

Condition == \E k \in {"if", "elif", "while"} :
  /\ Executes(k) /\ ~Passed(k)
  /\ \/ GoTo(pc + 1, FALSE)
     \/ GoTo(jumps[pc].onFalse, TRUE)
     \/ Return("failed")

Command == Executes("cmd") /\ (GoTo(pc + 1, FALSE) \/ Return("falsy") \/ Return("failed"))

Exit == Executes("exit") /\ Return("ok")

Finish == phase = "running" /\ pc > Len(code) /\ Return("ok")

Abort == phase = "running" /\ pc <= Len(code) /\ cancelled /\ Return("cancelled")

Evaluate ==
  /\ PassOver \/ WalkOn \/ Leap \/ Condition \/ Command \/ Exit \/ Finish \/ Abort
  /\ UNCHANGED <<parserVars, cancelled>>

\* The user cancels a script that runs.
Cancel ==
  /\ phase = "running" /\ ~cancelled
  /\ cancelled' = TRUE
  /\ UNCHANGED <<phase, parserVars, pc, justJumped>>

Returned == phase \notin {"reading", "running"} /\ UNCHANGED vars

Next ==
  \/ \E k \in Kinds : ReadLine(k)
  \/ EndOfScript
  \/ Evaluate
  \/ Cancel
  \/ Returned

Spec == Init /\ [][Next]_vars

\* EvalBatch goes on; every command returns in the end.
FairSpec == Spec /\ WF_vars(Evaluate)

-----------------------------------------------------------------------------
Rising(s) == \A i, j \in DOMAIN s : i < j => s[i] < s[j]
Elements(s) == {s[i] : i \in DOMAIN s}

\* Control is in a block exactly as the stack says, and the two lists for
\* break and continue agree with it.
TypeOK ==
  /\ phase \in {"reading", "running", "syntax", "ok", "falsy", "failed", "cancelled"}
  /\ code \in Seq(Kinds) /\ stack \in Seq(1..Len(code))
  /\ Rising(stack) /\ Rising(whiles)
  /\ Elements(whiles) = {p \in Elements(stack) : code[p] = "while"}
  /\ \A i \in DOMAIN breaks :
       breaks[i].level \in 1..Len(whiles) /\ whiles[breaks[i].level] < breaks[i].pc
  /\ \A p \in DOMAIN jumps : {jumps[p].onFalse, jumps[p].onEnd} \subseteq 1..Len(code)
  /\ pc \in 1..(Len(code) + 1) /\ justJumped \in BOOLEAN /\ cancelled \in BOOLEAN

\* EvalBatch never meets "jump entry not found": a script that compiles has an
\* entry for every keyword EvalBatch looks one up for.
EntryFound ==
  phase = "running" =>
    \A i \in DOMAIN code : code[i] \notin {"cmd", "endif", "exit"} => i \in DOMAIN jumps

\* The parser and the interpreter together do what nested blocks mean: the
\* scripts that compile are the well-formed ones, every condition that runs is
\* the one whose turn it is, whatever was jumped over, broken or continued.
Reached == INSTANCE BlockFlow WITH at <- pc
Blocks == INSTANCE BlockFlow WITH at <- IF phase \in {"reading", "syntax"} THEN 0
                                       ELSE Reached!Settle(pc, justJumped)
Structured == Blocks!Spec

\* A cancelled script ends, also when its loop never would.
CancelEnds == cancelled ~> phase \notin {"reading", "running"}
=============================================================================
