----------------------------- MODULE StorageProofs -----------------------------
(***************************************************************************)
(* Proofs about what is stored: RingBuffer, for every capacity and every   *)
(* set of lines, and ConfigStore, for any number of handlers, fields,      *)
(* aliases, files and requests.                                            *)
(***************************************************************************)
EXTENDS RingBuffer, ConfigStore, SequenceTheorems, TLAPS

-----------------------------------------------------------------------------
(* The ring buffer.                                                          *)

\* The index arithmetic of extract: counting on from a slot wraps once.
LEMMA WrapsOnce ==
  ASSUME NEW p \in Slots, NEW k \in Slots
  PROVE  (p + k) % Size = IF p + k < Size THEN p + k ELSE p + k - Size
<1>1. Size \in Int /\ Size > 0 /\ p \in Int /\ k \in Int /\ p >= 0 /\ k >= 0 /\ p < Size /\ k < Size
  BY SizeAssumption DEF Slots
<1>2. CASE p + k < Size
  BY <1>1, <1>2
<1>3. CASE p + k >= Size
  BY <1>1, <1>3
<1> QED
  BY <1>1, <1>2, <1>3

LEMMA ZeroIsSlot == 0 \in Slots
  BY SizeAssumption DEF Slots

-----------------------------------------------------------------------------
\* Type correctness: ptr stays inside the slots, whatever is written, so that
\* Write never indexes out of range.
THEOREM TypeCorrect == Spec => []TypeOK
<1>1. Init => TypeOK
  BY ZeroIsSlot DEF Init, TypeOK
<1>2. TypeOK /\ [Next]_vars => TypeOK'
  <2> SUFFICES ASSUME TypeOK, [Next]_vars PROVE TypeOK'
    OBVIOUS
  <2>1. CASE Clear
    BY <2>1, ZeroIsSlot DEF TypeOK, Clear
  <2>2. ASSUME NEW x \in Lines, Write(x) PROVE TypeOK'
    <3>1. ptr' \in Slots
      BY <2>2, SizeAssumption DEF TypeOK, Write, Slots
    <3> QED
      BY <2>2, <3>1 DEF TypeOK, Write
  <2>3. CASE UNCHANGED vars
    BY <2>3 DEF TypeOK, vars
  <2> QED
    BY <2>1, <2>2, <2>3 DEF Next
<1> QED
  BY <1>1, <1>2, PTL DEF Spec

-----------------------------------------------------------------------------
\* What Dump returns.
DumpFacts ==
  /\ Length \in 0..Size
  /\ Dump = [i \in 1..Length |-> lines[(StartIdx + i - 1) % Size]]
  /\ Dump \in Seq(Lines \cup {Blank})
  /\ Len(Dump) = Length

LEMMA DumpIs == TypeOK => DumpFacts
<1> SUFFICES ASSUME TypeOK PROVE DumpFacts
  OBVIOUS
<1>1. Length \in 0..Size /\ StartIdx \in Slots
  BY SizeAssumption DEF TypeOK, Length, StartIdx, Slots
<1>2. Dump = [i \in 1..Length |-> lines[(StartIdx + i - 1) % Size]]
  BY <1>1, SizeAssumption DEF Dump, HeadLines, Extract, Slots
<1>3. \A i \in 1..Length : lines[(StartIdx + i - 1) % Size] \in Lines \cup {Blank}
  <2> TAKE i \in 1..Length
  <2>1. StartIdx + i - 1 \in Int
    BY <1>1 DEF Slots
  <2>2. (StartIdx + i - 1) % Size \in Slots
    BY <2>1, SizeAssumption DEF Slots
  <2> QED
    BY <2>2 DEF TypeOK
<1> QED
  BY <1>1, <1>2, <1>3 DEF DumpFacts

LEMMA DumpIsNext == TypeOK' => DumpFacts'
  BY DumpIs, PTL

\* A line written to a buffer that is not full is appended to what Dump shows.
LEMMA WriteAppends ==
  ASSUME TypeOK, TypeOK', NEW x \in Lines, Write(x), ~isFull
  PROVE  Dump' = Append(Dump, x)
<1>1. Length = ptr /\ StartIdx = 0 /\ ptr \in Slots
  BY DEF Length, StartIdx, TypeOK
<1>2. Length' = ptr + 1 /\ StartIdx' = 0
  BY SizeAssumption DEF Write, Length, StartIdx, TypeOK, Slots
<1>3. \A i \in 1..(ptr + 1) : (i - 1) % Size = i - 1 /\ i - 1 \in Slots
  <2> TAKE i \in 1..(ptr + 1)
  <2>1. i - 1 \in Slots /\ 0 \in Slots
    BY <1>1, SizeAssumption DEF Slots
  <2>2. (0 + (i - 1)) % Size = IF 0 + (i - 1) < Size THEN 0 + (i - 1) ELSE 0 + (i - 1) - Size
    BY <2>1, WrapsOnce
  <2> QED
    BY <2>1, <2>2, SizeAssumption DEF Slots
<1>4. Dump' = [i \in 1..(ptr + 1) |-> lines'[i - 1]]
  <2>1. Dump' = [i \in 1..(ptr + 1) |-> lines'[(0 + i - 1) % Size]]
    BY <1>2, DumpIsNext DEF DumpFacts
  <2> QED
    BY <2>1, <1>3, <1>1 DEF Slots
<1>5. Dump = [i \in 1..ptr |-> lines[i - 1]]
  <2>1. Dump = [i \in 1..ptr |-> lines[(0 + i - 1) % Size]]
    BY <1>1, DumpIs DEF DumpFacts
  <2> QED
    BY <2>1, <1>3, <1>1 DEF Slots
<1>6. Append(Dump, x) = [i \in 1..(ptr + 1) |-> IF i = ptr + 1 THEN x ELSE lines[i - 1]]
  BY <1>1, <1>5, DumpIs DEF DumpFacts, Slots
<1>7. \A i \in 1..(ptr + 1) : lines'[i - 1] = IF i = ptr + 1 THEN x ELSE lines[i - 1]
  BY <1>1, <1>3 DEF Write, TypeOK, Slots
<1> QED
  BY <1>4, <1>6, <1>7

\* A line written to a full buffer takes the place of the oldest one.
LEMMA WriteReplaces ==
  ASSUME TypeOK, TypeOK', NEW x \in Lines, Write(x), isFull
  PROVE  Dump' = Tail(Append(Dump, x))
<1>1. Length = Size /\ StartIdx = ptr /\ ptr \in Slots
  BY DEF Length, StartIdx, TypeOK
<1>2. Length' = Size /\ StartIdx' = ptr' /\ ptr' \in Slots
  BY DEF Length, StartIdx, TypeOK, Write
<1>3. Dump' = [i \in 1..Size |-> lines'[(ptr' + i - 1) % Size]]
  BY <1>2, DumpIsNext DEF DumpFacts
<1>4. Dump = [i \in 1..Size |-> lines[(ptr + i - 1) % Size]]
  BY <1>1, DumpIs DEF DumpFacts
<1>5. Tail(Append(Dump, x))
        = [i \in 1..Size |-> IF i = Size THEN x ELSE lines[(ptr + i) % Size]]
  <2>1. Append(Dump, x)
          = [i \in 1..(Size + 1) |-> IF i = Size + 1 THEN x ELSE lines[(ptr + i - 1) % Size]]
    BY <1>1, <1>4, DumpIs, SizeAssumption DEF DumpFacts
  <2>2. \A i \in 1..Size : ptr + (i + 1) - 1 = ptr + i
    BY <1>1 DEF Slots
  <2>3. Len(Append(Dump, x)) = Size + 1
    BY <1>1, DumpIs, SizeAssumption DEF DumpFacts
  <2>4. Tail(Append(Dump, x)) = [i \in 1..Size |-> Append(Dump, x)[i + 1]]
    BY <2>1, <2>3, SizeAssumption
  <2> QED
    BY <2>1, <2>2, <2>4, SizeAssumption
<1>6. \A i \in 1..Size :
        lines'[(ptr' + i - 1) % Size] = IF i = Size THEN x ELSE lines[(ptr + i) % Size]
  <2> TAKE i \in 1..Size
  <2>1. i - 1 \in Slots
    BY SizeAssumption DEF Slots
  <2>2. (ptr' + i - 1) % Size = IF ptr' + (i - 1) < Size THEN ptr' + (i - 1) ELSE ptr' + (i - 1) - Size
    BY <2>1, <1>2, WrapsOnce DEF Slots
  <2>3. CASE i = Size
    <3>1. (ptr' + i - 1) % Size = ptr
      BY <1>1, <2>2, <2>3, SizeAssumption DEF Write, Slots
    <3> QED
      BY <1>1, <2>3, <3>1 DEF Write, TypeOK
  <2>4. CASE i # Size
    <3>1. i \in Slots
      BY <2>4, SizeAssumption DEF Slots
    <3>2. (ptr + i) % Size = IF ptr + i < Size THEN ptr + i ELSE ptr + i - Size
      BY <1>1, <3>1, WrapsOnce
    <3>3. (ptr' + i - 1) % Size = (ptr + i) % Size
      BY <1>1, <2>2, <3>1, <3>2, SizeAssumption DEF Write, Slots
    <3>4. (ptr + i) % Size \in Slots /\ (ptr + i) % Size # ptr
      BY <1>1, <2>4, <3>1, <3>2, SizeAssumption DEF Slots
    <3> QED
      BY <2>4, <3>3, <3>4 DEF Write, TypeOK
  <2> QED
    BY <2>3, <2>4
<1> QED
  BY <1>3, <1>5, <1>6

\* The buffer implements BoundedLog: Dump always shows the last Size lines
\* written since the last Clear, oldest first.
THEOREM KeepsTheRecent == Spec => KeepsRecent
<1>1. Init => Log!Init
  <2> SUFFICES ASSUME Init PROVE Dump = <<>>
    BY DEF Log!Init
  <2>1. TypeOK
    BY ZeroIsSlot DEF Init, TypeOK
  <2>2. Length = 0
    BY DEF Init, Length
  <2> QED
    BY <2>1, <2>2, DumpIs DEF DumpFacts
<1>2. TypeOK /\ TypeOK' /\ [Next]_vars => [Log!Next]_Dump
  <2> SUFFICES ASSUME TypeOK, TypeOK', [Next]_vars PROVE [Log!Next]_Dump
    OBVIOUS
  <2>1. CASE Clear
    <3>1. Length' = 0
      BY <2>1 DEF Clear, Length
    <3>2. Dump' = <<>>
      BY <3>1, DumpIsNext DEF DumpFacts
    <3> QED
      BY <3>2 DEF Log!Next, Log!Clear
  <2>2. ASSUME NEW x \in Lines, Write(x) PROVE Log!Write(x)
    <3>1. Len(Append(Dump, x)) = Length + 1
      BY DumpIs DEF DumpFacts
    <3>2. CASE isFull
      BY <2>2, <3>1, <3>2, WriteReplaces, SizeAssumption DEF Log!Write, Log!Recent, Length
    <3>3. CASE ~isFull
      BY <2>2, <3>1, <3>3, WriteAppends, SizeAssumption
      DEF Log!Write, Log!Recent, Length, TypeOK, Slots
    <3> QED
      BY <3>2, <3>3
  <2>3. CASE UNCHANGED vars
    BY <2>3 DEF vars, Dump, HeadLines, Extract, StartIdx, Length
  <2> QED
    BY <2>1, <2>2, <2>3 DEF Next, Log!Next
<1> QED
  BY <1>1, <1>2, TypeCorrect, PTL DEF Spec, KeepsRecent, Log!Spec

-----------------------------------------------------------------------------
\* The two ends of the history meet at every count, negative or too large.
LEMMA EndsMeetAt ==
  ASSUME TypeOK, NEW n \in Int
  PROVE  HeadLines(n) \o TailLines(Length - n) = Dump
<1> DEFINE at(i) == lines[(StartIdx + i - 1) % Size]
           first == IF n > Length THEN Length ELSE IF n < 0 THEN 0 ELSE n
<1>1. Length \in 0..Size /\ StartIdx \in Nat /\ first \in 0..Length
  BY DumpIs DEF DumpFacts, StartIdx, TypeOK, Slots
<1>2. HeadLines(n) = [i \in 1..first |-> at(i)]
  <2>1. HeadLines(n) = [i \in 1..((IF n > Length THEN Length ELSE n) - 0) |-> lines[(StartIdx + 0 + i - 1) % Size]]
    BY DEF HeadLines, Extract
  <2>2. 1..((IF n > Length THEN Length ELSE n) - 0) = 1..first
    BY <1>1
  <2>3. \A i \in 1..first : StartIdx + 0 + i - 1 = StartIdx + i - 1
    BY <1>1
  <2> QED
    BY <2>1, <2>2, <2>3
<1>3. TailLines(Length - n) = [i \in 1..(Length - first) |-> at(first + i)]
  <2> DEFINE from == IF n < 0 THEN 0 ELSE n
  <2>1. Length - (Length - n) = n
    BY <1>1
  <2>2. TailLines(Length - n) = [i \in 1..(Length - from) |-> lines[(StartIdx + from + i - 1) % Size]]
    BY <2>1, <1>1 DEF TailLines, Extract
  <2>3. 1..(Length - from) = 1..(Length - first)
    BY <1>1
  <2>4. \A i \in 1..(Length - first) : StartIdx + from + i - 1 = StartIdx + (first + i) - 1
    BY <1>1
  <2> QED
    BY <2>2, <2>3, <2>4
<1>4. Dump = [i \in 1..Length |-> at(i)] /\ Dump \in Seq(Lines \cup {Blank})
  BY DumpIs DEF DumpFacts
<1>5. \A i \in 1..Length : at(i) \in Lines \cup {Blank}
  <2> HIDE DEF at
  <2>1. \A i \in 1..Length : Dump[i] \in Lines \cup {Blank} /\ Dump[i] = at(i)
    BY <1>1, <1>4
  <2> QED
    BY <2>1
<1> HIDE DEF at, first
<1>6. HeadLines(n) \in Seq(Lines \cup {Blank}) /\ Len(HeadLines(n)) = first
  BY <1>1, <1>2, <1>5
<1>7. TailLines(Length - n) \in Seq(Lines \cup {Blank}) /\ Len(TailLines(Length - n)) = Length - first
  BY <1>1, <1>3, <1>5
<1>8. HeadLines(n) \o TailLines(Length - n)
        = [i \in 1..Length |-> IF i <= first THEN at(i) ELSE at(first + (i - first))]
  BY <1>1, <1>2, <1>3, <1>6, <1>7
<1>9. \A i \in 1..Length : first + (i - first) = i
  BY <1>1
<1> QED
  BY <1>4, <1>8, <1>9

\* Head and Tail show the two ends of one history, whatever the count.
THEOREM EndsAlwaysMeet == Spec => []EndsMeet
<1>1. TypeOK => EndsMeet
  <2> SUFFICES ASSUME TypeOK, NEW n \in -1..(Size + 1)
               PROVE  HeadLines(n) \o TailLines(Length - n) = Dump
    BY DEF EndsMeet
  <2>1. n \in Int
    BY SizeAssumption
  <2> QED
    BY <2>1, EndsMeetAt
<1> QED
  BY <1>1, TypeCorrect, PTL

-----------------------------------------------------------------------------
(* The configuration and its file.                                           *)

\* A request that still has something to assign keeps it, or saves afterwards.
Pending ==
  \A h \in Handlers : pc[h] = "set" => todo[h] # <<>> /\ then[h] \in {"keep", "save"}

\* The read lock: what a handler dumps is the configuration in memory.
Held ==
  \A h \in Handlers :
    /\ Dumping(h) => data[h] = cfg
    /\ pc[h] = "rename" => temp[h] = cfg

\* A handler that will save to the file the configuration came from.
Saving(h) ==
  /\ then[h] = "save"
  /\ \/ pc[h] \in {"set", "path"}
     \/ pc[h] \in {"dump", "create", "write", "rename"} /\ target[h] = path

\* What is in memory is in the file, or somebody is about to save it.
Accounted == ~owed => files[path] = cfg \/ \E h \in Handlers : Saving(h)

IInv == ConfigTypeOK /\ Pending /\ Held

HandlerStep(h) ==
  \/ Set(h) \/ SavePath(h) \/ Marshal(h) \/ CreateTemp(h) \/ WriteTemp(h)
  \/ Rename(h) \/ DumpFails(h) \/ ReloadPath(h) \/ LoadConfig(h)

-----------------------------------------------------------------------------
LEMMA ConfigsAre ==
  ASSUME NEW k \in Keys, NEW v \in Values \cup {Bad, NoValue}, NEW d \in Configs,
         ~(k \in Fields /\ v \in {Bad, NoValue})
  PROVE  [d EXCEPT ![k] = v] \in Configs
<1> DEFINE e == [d EXCEPT ![k] = v]
<1>1. e \in [Keys -> Values \cup {Bad, NoValue}]
  BY DEF Configs
<1>2. ASSUME NEW f \in Fields PROVE e[f] \in Values
  BY <1>2 DEF Configs, Keys
<1> QED
  BY <1>1, <1>2 DEF Configs

LEMMA InitConfigIs ==
  ASSUME NEW disk \in [Paths -> Configs \cup Unread]
  PROVE  /\ InitConfig(disk).cfg \in Configs
         /\ InitConfig(disk).path \in Paths
         /\ InitConfig(disk).cfg \in {Default} \cup {disk[p] : p \in {q \in Paths : disk[q] \notin Unread}}
<1>1. "cwd" \in Paths /\ "home" \in Paths
  BY PathsAssumption
<1>2. CASE disk["cwd"] \notin Unread
  <2>1. InitConfig(disk) = [cfg |-> disk["cwd"], path |-> "cwd"]
    BY <1>2 DEF InitConfig
  <2> QED
    BY <1>1, <1>2, <2>1
<1>3. CASE disk["cwd"] \in Unread /\ disk["home"] \notin Unread
  <2>1. InitConfig(disk) = [cfg |-> disk["home"], path |-> "home"]
    BY <1>3 DEF InitConfig
  <2> QED
    BY <1>1, <1>3, <2>1
<1>4. CASE disk["cwd"] \in Unread /\ disk["home"] \in Unread
  <2>1. InitConfig(disk) = [cfg |-> Default, path |-> "cwd"]
    BY <1>4 DEF InitConfig
  <2> QED
    BY <1>1, <2>1, ValuesAssumption
<1> QED
  BY <1>2, <1>3, <1>4

LEMMA AfterIs ==
  ASSUME NEW e \in Endings
  PROVE  After(e) \in Places /\ After(e) # "set" /\ After(e) \notin {"create", "write", "rename"}
BY DEF After, Endings, Places

LEMMA TailStays ==
  ASSUME NEW S, NEW s \in Seq(S), s # <<>>
  PROVE  Tail(s) \in Seq(S) /\ (Len(s) # 1 => Tail(s) # <<>>)
<1>1. Tail(s) \in Seq(S) /\ Len(Tail(s)) = Len(s) - 1
  BY HeadTailProperties
<1>2. Len(s) \in Nat
  OBVIOUS
<1>3. Len(s) # 1 => Len(Tail(s)) # 0
  BY <1>1, <1>2
<1>4. Tail(s) = <<>> => Len(Tail(s)) = 0
  BY <1>1, EmptySeq
<1> QED
  BY <1>1, <1>3, <1>4

-----------------------------------------------------------------------------
LEMMA InitHolds == ConfigInit => IInv
<1> SUFFICES ASSUME ConfigInit PROVE IInv
  OBVIOUS
<1>1. files \in [Paths -> Configs \cup Unread]
  BY DiskAssumption DEF ConfigInit
<1>2. cfg \in Configs /\ path \in Paths
  BY <1>1, InitConfigIs DEF ConfigInit
<1>3. /\ pc \in [Handlers -> Places] /\ then \in [Handlers -> Endings]
      /\ todo \in [Handlers -> Seq(Assigned)] /\ target \in [Handlers -> Paths]
  BY PathsAssumption DEF ConfigInit, Places, Endings
<1>4. /\ data \in [Handlers -> Configs \cup {Missing}] /\ temp \in [Handlers -> Configs \cup Unread]
      /\ served \in 0..MaxRequests /\ owed \in BOOLEAN
  BY AskedAssumption DEF ConfigInit, Unread
<1>5. ConfigTypeOK
  BY <1>1, <1>2, <1>3, <1>4 DEF ConfigTypeOK
<1> QED
  BY <1>5 DEF IInv, Pending, Held, ConfigInit, Dumping

-----------------------------------------------------------------------------
\* One lemma per action that does more than move on.

LEMMA ServeKeeps ==
  ASSUME IInv, NEW h \in Handlers, NEW r \in Asked, Serve(h, r)
  PROVE  IInv'
<1>1. r \in Requests /\ (r.sets # <<>> => r.ends \in {"keep", "save"})
  BY AskedAssumption
<1>2. r.sets \in Seq(Assigned) /\ r.ends \in Endings /\ r.at \in Paths
  BY <1>1 DEF Requests
<1>3. After(r.ends) \in Places /\ After(r.ends) # "set" /\ After(r.ends) \notin {"create", "write", "rename"}
  BY <1>2, AfterIs
<1>4. pc' \in [Handlers -> Places]
  BY <1>3 DEF Serve, IInv, ConfigTypeOK, Places
<1>5. todo' \in [Handlers -> Seq(Assigned)] /\ then' \in [Handlers -> Endings] /\ target' \in [Handlers -> Paths]
  BY <1>2 DEF Serve, IInv, ConfigTypeOK
<1>6. served' \in 0..MaxRequests
  BY AskedAssumption DEF Serve, IInv, ConfigTypeOK
<1>7. ConfigTypeOK'
  BY <1>4, <1>5, <1>6 DEF Serve, IInv, ConfigTypeOK, dumping
<1>8. Pending'
  BY <1>1, <1>3 DEF Serve, IInv, ConfigTypeOK, Pending
<1>9. Held'
  BY <1>3 DEF Serve, IInv, ConfigTypeOK, Held, Dumping, dumping
<1> QED
  BY <1>7, <1>8, <1>9 DEF IInv

\* What an assignment that is not refused makes of the configuration.
LEMMA SetIs ==
  ASSUME IInv, NEW h \in Handlers, Set(h), cfg' # cfg
  PROVE  /\ \E k \in Keys, v \in Values \cup {Bad, NoValue} : cfg' = [cfg EXCEPT ![k] = v]
         /\ cfg' \in Configs
<1> DEFINE k == Head(todo[h])[1]
           v == Head(todo[h])[2]
<1>1. todo[h] \in Seq(Assigned) /\ todo[h] # <<>>
  BY DEF IInv, ConfigTypeOK, Pending, Set
<1>2. Head(todo[h]) \in Assigned
  BY <1>1
<1>3. k \in Keys \cup {NoKey} /\ v \in Values \cup {Bad, NoValue}
  BY <1>2 DEF Assigned
<1>4. ~Refused(k, v) /\ cfg' = [cfg EXCEPT ![k] = v]
  BY DEF Set
<1>5. k \in Keys /\ ~(k \in Fields /\ v \in {Bad, NoValue})
  BY <1>3, <1>4 DEF Refused
<1>6. cfg \in Configs
  BY DEF IInv, ConfigTypeOK
<1> QED
  BY <1>3, <1>4, <1>5, <1>6, ConfigsAre

LEMMA SetKeeps ==
  ASSUME IInv, NEW h \in Handlers, Set(h)
  PROVE  IInv'
<1>1. cfg' \in Configs
  BY SetIs DEF IInv, ConfigTypeOK
<1>2. /\ todo[h] \in Seq(Assigned) /\ todo[h] # <<>> /\ then[h] \in {"keep", "save"}
      /\ then[h] \in Endings
  BY DEF IInv, ConfigTypeOK, Pending, Set
<1>3. Tail(todo[h]) \in Seq(Assigned) /\ (Len(todo[h]) # 1 => Tail(todo[h]) # <<>>)
  BY <1>2, TailStays
<1>4. <<>> \in Seq(Assigned)
  OBVIOUS
<1>5. After(then[h]) \in Places /\ After(then[h]) # "set" /\ After(then[h]) \notin {"create", "write", "rename"}
  BY <1>2, AfterIs
<1>6. todo' \in [Handlers -> Seq(Assigned)]
  BY <1>3, <1>4 DEF Set, IInv, ConfigTypeOK
<1>7. pc' \in [Handlers -> Places]
  BY <1>5 DEF Set, IInv, ConfigTypeOK, Places
<1>8. owed' \in BOOLEAN
  BY DEF Set, IInv, ConfigTypeOK
<1>9. ConfigTypeOK'
  BY <1>1, <1>6, <1>7, <1>8 DEF Set, IInv, ConfigTypeOK, dumping
<1>10. Pending'
  BY <1>2, <1>3, <1>5 DEF Set, IInv, ConfigTypeOK, Pending
<1>11. \A g \in Handlers : ~Dumping(g)
  BY DEF Set, Locked
<1>12. \A g \in Handlers : ~Dumping(g)'
  BY <1>5, <1>11 DEF Set, IInv, ConfigTypeOK, Dumping
<1>13. Held'
  BY <1>12 DEF Held, Dumping
<1> QED
  BY <1>9, <1>10, <1>13 DEF IInv

LEMMA RenameKeeps ==
  ASSUME IInv, NEW h \in Handlers, Rename(h)
  PROVE  IInv'
<1>1. temp[h] = cfg /\ cfg \in Configs /\ target[h] \in Paths
  BY DEF Rename, IInv, Held, ConfigTypeOK
<1>2. files' \in [Paths -> Configs \cup Unread]
  BY <1>1 DEF Rename, IInv, ConfigTypeOK
<1>3. pc' \in [Handlers -> Places]
  BY DEF Rename, IInv, ConfigTypeOK, Places
<1>4. /\ data' \in [Handlers -> Configs \cup {Missing}] /\ temp' \in [Handlers -> Configs \cup Unread]
      /\ owed' \in BOOLEAN
  BY DEF Rename, IInv, ConfigTypeOK, Unread
<1>5. ConfigTypeOK'
  BY <1>2, <1>3, <1>4 DEF Rename, IInv, ConfigTypeOK
<1>6. Pending'
  BY DEF Rename, IInv, ConfigTypeOK, Pending
<1>7. Held'
  BY DEF Rename, IInv, ConfigTypeOK, Held, Dumping
<1> QED
  BY <1>5, <1>6, <1>7 DEF IInv

LEMMA LoadKeeps ==
  ASSUME IInv, NEW h \in Handlers, LoadConfig(h)
  PROVE  IInv'
<1>1. target[h] \in Paths /\ files[target[h]] \in Configs \cup Unread
  BY DEF IInv, ConfigTypeOK
<1>2. cfg' \in Configs /\ path' \in Paths /\ owed' \in BOOLEAN
  BY <1>1 DEF LoadConfig, Readable, IInv, ConfigTypeOK
<1>3. pc' \in [Handlers -> Places]
  BY DEF LoadConfig, IInv, ConfigTypeOK, Places
<1>4. ConfigTypeOK'
  BY <1>2, <1>3 DEF LoadConfig, IInv, ConfigTypeOK, dumping
<1>5. Pending'
  BY DEF LoadConfig, IInv, ConfigTypeOK, Pending
<1>6. \A g \in Handlers : ~Dumping(g)'
  BY DEF LoadConfig, Locked, IInv, ConfigTypeOK, Dumping
<1>7. Held'
  BY <1>6 DEF Held, Dumping
<1> QED
  BY <1>4, <1>5, <1>7 DEF IInv

\* The steps that move one handler on and change neither cfg nor a file.
LEMMA MoveKeeps ==
  ASSUME IInv, NEW h \in Handlers,
         SavePath(h) \/ Marshal(h) \/ CreateTemp(h) \/ WriteTemp(h) \/ DumpFails(h) \/ ReloadPath(h)
  PROVE  IInv'
<1> USE DEF IInv, ConfigTypeOK
<1>1. CASE SavePath(h)
  <2>1. pc' \in [Handlers -> Places] /\ target' \in [Handlers -> Paths]
    BY <1>1 DEF SavePath, Places
  <2> QED
    BY <1>1, <2>1 DEF SavePath, dumping, Pending, Held, Dumping
<1>2. CASE ReloadPath(h)
  <2>1. pc' \in [Handlers -> Places] /\ target' \in [Handlers -> Paths]
    BY <1>2 DEF ReloadPath, Places
  <2> QED
    BY <1>2, <2>1 DEF ReloadPath, dumping, Pending, Held, Dumping
<1>3. CASE Marshal(h)
  <2>1. pc' \in [Handlers -> Places] /\ data' \in [Handlers -> Configs \cup {Missing}]
    BY <1>3 DEF Marshal, Places
  <2> QED
    BY <1>3, <2>1 DEF Marshal, Pending, Held, Dumping
<1>4. CASE CreateTemp(h)
  <2>1. pc' \in [Handlers -> Places] /\ temp' \in [Handlers -> Configs \cup Unread]
    BY <1>4 DEF CreateTemp, Places, Unread
  <2> QED
    BY <1>4, <2>1 DEF CreateTemp, Pending, Held, Dumping
<1>5. CASE WriteTemp(h)
  <2>1. data[h] = cfg
    BY <1>5 DEF WriteTemp, Held, Dumping
  <2>2. pc' \in [Handlers -> Places] /\ temp' \in [Handlers -> Configs \cup Unread]
    BY <1>5, <2>1 DEF WriteTemp, Places
  <2> QED
    BY <1>5, <2>1, <2>2 DEF WriteTemp, Pending, Held, Dumping
<1>6. CASE DumpFails(h)
  <2>1. /\ pc' \in [Handlers -> Places] /\ temp' \in [Handlers -> Configs \cup Unread]
        /\ data' \in [Handlers -> Configs \cup {Missing}] /\ owed' \in BOOLEAN
    BY <1>6 DEF DumpFails, Places, Unread
  <2> QED
    BY <1>6, <2>1 DEF DumpFails, Pending, Held, Dumping
<1> QED
  BY <1>1, <1>2, <1>3, <1>4, <1>5, <1>6

LEMMA RestartKeeps ==
  ASSUME IInv, Restart
  PROVE  IInv'
<1>1. cfg' \in Configs /\ path' \in Paths /\ files' = files /\ files \in [Paths -> Configs \cup Unread]
  BY InitConfigIs DEF Restart, IInv, ConfigTypeOK
<1>2. /\ pc' \in [Handlers -> Places] /\ then' \in [Handlers -> Endings]
      /\ todo' \in [Handlers -> Seq(Assigned)] /\ target' \in [Handlers -> Paths]
  BY PathsAssumption DEF Restart, Places, Endings
<1>3. /\ data' \in [Handlers -> Configs \cup {Missing}] /\ temp' \in [Handlers -> Configs \cup Unread]
      /\ served' \in 0..MaxRequests /\ owed' \in BOOLEAN
  BY DEF Restart, Unread, IInv, ConfigTypeOK
<1>4. ConfigTypeOK'
  BY <1>1, <1>2, <1>3 DEF ConfigTypeOK
<1> QED
  BY <1>4 DEF IInv, Pending, Held, Dumping, Restart

LEMMA StepKeeps == IInv /\ [ConfigNext]_configVars => IInv'
<1> SUFFICES ASSUME IInv, [ConfigNext]_configVars PROVE IInv'
  OBVIOUS
<1>1. ASSUME NEW h \in Handlers, NEW r \in Asked, Serve(h, r) PROVE IInv'
  BY <1>1, ServeKeeps
<1>2. ASSUME NEW h \in Handlers, HandlerStep(h) PROVE IInv'
  BY <1>2, SetKeeps, RenameKeeps, LoadKeeps, MoveKeeps DEF HandlerStep
<1>3. CASE Restart
  BY <1>3, RestartKeeps
<1>4. CASE UNCHANGED configVars
  BY <1>4 DEF configVars, dumping, IInv, ConfigTypeOK, Pending, Held, Dumping
<1> QED
  BY <1>1, <1>2, <1>3, <1>4 DEF ConfigNext, HandlerStep

LEMMA IInvHolds == ConfigSpec => []IInv
BY InitHolds, StepKeeps, PTL DEF ConfigSpec

-----------------------------------------------------------------------------
\* Type correctness of store, requests and files: what initConfig and
\* loadConfig read and setField accepts is a configuration, whoever dumps.
THEOREM StoreTypeCorrect == ConfigSpec => []ConfigTypeOK
<1>1. IInv => ConfigTypeOK
  BY DEF IInv
<1> QED
  BY <1>1, IInvHolds, PTL
-----------------------------------------------------------------------------
\* A save is one step: whoever else saves, sets or loads, and wherever the
\* process dies, ConfigStore implements ConfigFile.
THEOREM SavesAreAtomic == ConfigSpec => AtomicSaves
<1>1. ConfigInit => File!Init
  <2> SUFFICES ASSUME ConfigInit PROVE File!Init
    OBVIOUS
  <2>1. files \in [Paths -> Configs \cup Unread]
    BY DiskAssumption DEF ConfigInit
  <2> QED
    BY <2>1, InitConfigIs DEF ConfigInit, File!Init, File!Readable
<1>2. IInv /\ [ConfigNext]_configVars => [File!Next]_(File!vars)
  <2> SUFFICES ASSUME IInv, [ConfigNext]_configVars PROVE [File!Next]_(File!vars)
    OBVIOUS
  <2>1. ASSUME NEW h \in Handlers, NEW r \in Asked, Serve(h, r) PROVE UNCHANGED File!vars
    BY <2>1 DEF Serve, File!vars
  <2>2. ASSUME NEW h \in Handlers, Set(h) PROVE File!Change \/ UNCHANGED File!vars
    <3>1. CASE cfg' = cfg
      BY <2>2, <3>1 DEF Set, File!vars
    <3>2. CASE cfg' # cfg
      BY <2>2, <3>2, SetIs DEF Set, File!Change
    <3> QED
      BY <3>1, <3>2
  <2>3. ASSUME NEW h \in Handlers,
               SavePath(h) \/ Marshal(h) \/ CreateTemp(h) \/ WriteTemp(h) \/ DumpFails(h) \/ ReloadPath(h)
        PROVE  UNCHANGED File!vars
    BY <2>3 DEF SavePath, Marshal, CreateTemp, WriteTemp, DumpFails, ReloadPath, File!vars
  <2>4. ASSUME NEW h \in Handlers, Rename(h) PROVE File!Save
    <3>1. temp[h] = cfg /\ target[h] \in Paths
      BY <2>4 DEF Rename, IInv, Held, ConfigTypeOK
    <3> QED
      BY <2>4, <3>1 DEF Rename, File!Save
  <2>5. ASSUME NEW h \in Handlers, LoadConfig(h) PROVE File!Load \/ UNCHANGED File!vars
    <3>1. target[h] \in Paths
      BY DEF IInv, ConfigTypeOK
    <3> QED
      BY <2>5, <3>1 DEF LoadConfig, Readable, File!Load, File!Readable, File!vars
  <2>6. ASSUME Restart PROVE File!Restart
    <3>1. files \in [Paths -> Configs \cup Unread] /\ files' = files /\ cfg' = InitConfig(files).cfg
      BY <2>6 DEF Restart, IInv, ConfigTypeOK
    <3> QED
      BY <3>1, InitConfigIs DEF File!Restart, File!Readable
  <2>7. CASE UNCHANGED configVars
    BY <2>7 DEF configVars, File!vars
  <2>8. ASSUME NEW h \in Handlers, HandlerStep(h) PROVE File!Next \/ UNCHANGED File!vars
    BY <2>2, <2>3, <2>4, <2>5, <2>8 DEF HandlerStep, File!Next
  <2>9. CASE ConfigNext
    BY <2>1, <2>6, <2>8, <2>9 DEF ConfigNext, HandlerStep, File!Next
  <2> QED
    BY <2>7, <2>9
<1> QED
  BY <1>1, <1>2, IInvHolds, PTL DEF ConfigSpec, AtomicSaves, File!Spec

-----------------------------------------------------------------------------
\* Where the obligation to save goes in a step that discharges none of it.
LEMMA StillSaving ==
  ASSUME NEW g \in Handlers, Saving(g), path' = path,
         then'[g] = then[g], pc'[g] = pc[g], target'[g] = target[g]
  PROVE  Saving(g)'
BY DEF Saving

LEMMA SetAccounts ==
  ASSUME IInv, Accounted, NEW h \in Handlers, Set(h)
  PROVE  Accounted'
<1> SUFFICES ASSUME ~owed' PROVE (files[path] = cfg \/ \E g \in Handlers : Saving(g))'
  BY DEF Accounted
<1>1. then[h] \in {"keep", "save"} /\ pc[h] = "set"
  BY DEF IInv, Pending, Set
<1>2. CASE then[h] = "save"
  <2>1. ~Refused(Head(todo[h])[1], Head(todo[h])[2])
    BY <1>2 DEF Set
  <2>2. pc'[h] \in {"set", "path"}
    BY <1>2, <2>1 DEF Set, After, IInv, ConfigTypeOK
  <2> QED
    BY <1>2, <2>2 DEF Saving, Set
<1>3. CASE then[h] = "keep"
  <2>1. cfg' = cfg /\ ~owed
    BY <1>3 DEF Set
  <2>2. CASE files[path] = cfg
    BY <2>1, <2>2 DEF Set
  <2>3. ASSUME NEW g \in Handlers, Saving(g) PROVE Saving(g)'
    <3>1. g # h
      BY <1>3, <2>3 DEF Saving
    <3> QED
      BY <2>3, <3>1, StillSaving DEF Set, IInv, ConfigTypeOK
  <2> QED
    BY <2>1, <2>2, <2>3 DEF Accounted
<1> QED
  BY <1>1, <1>2, <1>3

LEMMA MoveAccounts ==
  ASSUME IInv, Accounted, NEW h \in Handlers,
         SavePath(h) \/ Marshal(h) \/ CreateTemp(h) \/ WriteTemp(h) \/ ReloadPath(h)
  PROVE  Accounted'
<1>1. /\ owed' = owed /\ files' = files /\ cfg' = cfg /\ path' = path /\ then' = then
  BY DEF SavePath, Marshal, CreateTemp, WriteTemp, ReloadPath
<1>2. ASSUME NEW g \in Handlers, Saving(g), g # h PROVE Saving(g)'
  BY <1>1, <1>2, StillSaving
     DEF SavePath, Marshal, CreateTemp, WriteTemp, ReloadPath, dumping, IInv, ConfigTypeOK
<1>3. ASSUME Saving(h) PROVE Saving(h)'
  BY <1>1, <1>3
     DEF Saving, SavePath, Marshal, CreateTemp, WriteTemp, ReloadPath, dumping, IInv, ConfigTypeOK
<1> QED
  BY <1>1, <1>2, <1>3 DEF Accounted

LEMMA RenameAccounts ==
  ASSUME IInv, Accounted, NEW h \in Handlers, Rename(h)
  PROVE  Accounted'
<1>1. temp[h] = cfg /\ target[h] \in Paths /\ path \in Paths /\ files \in [Paths -> Configs \cup Unread]
  BY DEF Rename, IInv, Held, ConfigTypeOK
<1>2. CASE target[h] = path
  BY <1>1, <1>2 DEF Rename, Accounted
<1>3. CASE target[h] # path
  <2>1. files'[path'] = files[path] /\ cfg' = cfg /\ owed' = owed
    BY <1>1, <1>3 DEF Rename, IInv, ConfigTypeOK
  <2>2. ASSUME NEW g \in Handlers, Saving(g) PROVE Saving(g)'
    <3>1. g # h
      BY <1>3, <2>2 DEF Saving, Rename
    <3> QED
      BY <2>2, <3>1, StillSaving DEF Rename, IInv, ConfigTypeOK
  <2> QED
    BY <2>1, <2>2 DEF Accounted
<1> QED
  BY <1>2, <1>3

LEMMA FailureAccounts ==
  ASSUME IInv, Accounted, NEW h \in Handlers, DumpFails(h)
  PROVE  Accounted'
<1> SUFFICES ASSUME ~owed' PROVE (files[path] = cfg \/ \E g \in Handlers : Saving(g))'
  BY DEF Accounted
<1>1. ~owed /\ then[h] # "save"
  BY DEF DumpFails
<1>2. ASSUME NEW g \in Handlers, Saving(g) PROVE Saving(g)'
  <2>1. g # h
    BY <1>1, <1>2 DEF Saving
  <2> QED
    BY <1>2, <2>1, StillSaving DEF DumpFails, IInv, ConfigTypeOK
<1> QED
  BY <1>1, <1>2 DEF Accounted, DumpFails

LEMMA LoadAccounts ==
  ASSUME IInv, Accounted, NEW h \in Handlers, LoadConfig(h)
  PROVE  Accounted'
<1>1. CASE Readable(target[h])
  BY <1>1 DEF LoadConfig, Accounted
<1>2. CASE ~Readable(target[h])
  <2>1. ASSUME NEW g \in Handlers, Saving(g) PROVE Saving(g)'
    <3>1. g # h
      BY <2>1 DEF Saving, LoadConfig
    <3> QED
      BY <1>2, <2>1, <3>1, StillSaving DEF LoadConfig, IInv, ConfigTypeOK
  <2> QED
    BY <1>2, <2>1 DEF LoadConfig, Accounted
<1> QED
  BY <1>1, <1>2

LEMMA ServeAccounts ==
  ASSUME IInv, Accounted, NEW h \in Handlers, NEW r \in Asked, Serve(h, r)
  PROVE  Accounted'
<1>1. ASSUME NEW g \in Handlers, Saving(g) PROVE Saving(g)'
  <2>1. g # h
    BY <1>1 DEF Saving, Serve
  <2> QED
    BY <1>1, <2>1, StillSaving DEF Serve, IInv, ConfigTypeOK
<1> QED
  BY <1>1 DEF Accounted, Serve

\* Nobody who was told that his change is saved loses it: at rest, and unless
\* a change was kept in memory or its save failed, the file that the
\* configuration came from is the configuration.
THEOREM AllSavedAtRest == ConfigSpec => []SavedAtRest
<1>1. ConfigInit => Accounted
  BY DEF ConfigInit, Accounted
<1>2. IInv /\ Accounted /\ [ConfigNext]_configVars => Accounted'
  <2> SUFFICES ASSUME IInv, Accounted, [ConfigNext]_configVars PROVE Accounted'
    OBVIOUS
  <2>1. ASSUME NEW h \in Handlers, NEW r \in Asked, Serve(h, r) PROVE Accounted'
    BY <2>1, ServeAccounts
  <2>2. ASSUME NEW h \in Handlers, HandlerStep(h) PROVE Accounted'
    BY <2>2, SetAccounts, MoveAccounts, RenameAccounts, FailureAccounts, LoadAccounts DEF HandlerStep
  <2>3. CASE Restart
    BY <2>3 DEF Restart, Accounted
  <2>4. CASE UNCHANGED configVars
    BY <2>4 DEF configVars, Accounted, Saving
  <2> QED
    BY <2>1, <2>2, <2>3, <2>4 DEF ConfigNext, HandlerStep
<1>3. Accounted => SavedAtRest
  BY DEF Accounted, SavedAtRest, Saving
<1> QED
  BY <1>1, <1>2, <1>3, IInvHolds, PTL DEF ConfigSpec
=============================================================================
