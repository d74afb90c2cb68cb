------------------------------ MODULE RingBuffer ------------------------------
(***************************************************************************)
(* CircularBuffer of pkg/ringbuf, the shell's log history.  Every method   *)
(* holds the mutex from its first to its last access, so each is one step. *)
(***************************************************************************)
EXTENDS Integers, Sequences

CONSTANTS
  Size,   \* capacity, 1000 in the shell
  Lines,  \* lines that may be written
  Blank   \* the empty string that fills slots without a line

ASSUME SizeAssumption == Size \in Nat \ {0}

VARIABLES
  lines,   \* the slots, by index
  ptr,     \* the slot written next
  isFull   \* has ptr wrapped around since the last Clear

vars == <<lines, ptr, isFull>>

Slots == 0..(Size - 1)

Init ==
  /\ lines = [i \in Slots |-> Blank]
  /\ ptr = 0
  /\ isFull = FALSE

\* Mutations: what a slip in the code would turn a definition below into.  No
\* specification uses them; each breaks a property of this module.

\* A Clear that forgets isFull.
ClearKeepsFull ==
  /\ ptr' = 0 /\ lines' = [i \in Slots |-> Blank]
  /\ UNCHANGED isFull

\* A read whose beginning is not clipped.
ExtractUnclipped(begin, end) ==
  LET length == IF isFull THEN Size ELSE ptr
      to == IF end > length THEN length ELSE end
  IN [i \in 1..(to - begin) |-> lines[((IF isFull THEN ptr ELSE 0) + begin + i - 1) % Size]]

-----------------------------------------------------------------------------
\* Where the oldest line is, and how many lines there are.
StartIdx == IF isFull THEN ptr ELSE 0
Length == IF isFull THEN Size ELSE ptr

\* The lines from begin up to end, both clipped to the ones there are.
Extract(begin, end) ==
  LET from == IF begin < 0 THEN 0 ELSE begin
      to == IF end > Length THEN Length ELSE end
  IN [i \in 1..(to - from) |-> lines[(StartIdx + from + i - 1) % Size]]

HeadLines(n) == Extract(0, n)
TailLines(n) == Extract(Length - n, Length)
Dump == HeadLines(Size)

Write(x) ==
  /\ lines' = [lines EXCEPT ![ptr] = x]
  /\ ptr' = IF ptr + 1 = Size THEN 0 ELSE ptr + 1
  /\ isFull' = (isFull \/ ptr + 1 = Size)

Clear ==
  /\ ptr' = 0 /\ isFull' = FALSE
  /\ lines' = [i \in Slots |-> Blank]

Next == Clear \/ \E x \in Lines : Write(x)

Spec == Init /\ [][Next]_vars

-----------------------------------------------------------------------------
TypeOK ==
  /\ lines \in [Slots -> Lines \cup {Blank}]
  /\ ptr \in Slots
  /\ isFull \in BOOLEAN

\* The buffer implements BoundedLog, read through Dump: a reader sees exactly
\* the last Size lines since the last Clear, oldest first, across wraparound.
Log == INSTANCE BoundedLog WITH kept <- Dump
KeepsRecent == Log!Spec

\* Head(n) and Tail(n) are the two ends of the history, for any count, negative
\* and too large ones included: the first n lines and the last
\* ones up to them make up the history, no line lost or shown twice.
EndsMeet ==
  \A n \in -1..(Size + 1) : HeadLines(n) \o TailLines(Length - n) = Dump
=============================================================================
