# MicroFIX in TLA+

MicroFIX is a tool to talk FIX: a session library (`pkg/session`,
`pkg/transport`), a script executor (`pkg/executor`), and two applications on
top, a shell (`cmd/mxshell`) and a GUI (`cmd/mxgui`). This directory models its
stateful parts in TLA+, checks them with TLC on small instances and proves the
most important invariants with TLAPS for every value of the constants.

`PROJECT.json` names, for every definition that models code, the lines it
stands for; for every run its configuration and properties; for every property a
mutation of the model that breaks it; and the hazards of the code with the
properties that watch them.

## 1. The system

| Component | State | Operations | Modelled in |
|---|---|---|---|
| FIX engine (`engine.go`, `handlers.go`, `actions.go`, `message_store.go`) | session state, `inSeqNum`, `outSeqNum`, `outOfSyncUntil`, heartbeat interval, two clocks, `MessageStore` | `OnStart`, `OnMessage`, `OnTick`, `OnResetSequence`, `OnDisconnect`, `off`, `recordWrite`, `finalizeMessage` | FixEngine, FixSession |
| Session (`session.go`, `user_request.go`, `log.go`) | run loop, request queue, flags `started`, `closeRequested`, `closed`, tombstone, last messages, log subscribers | `Connect`, `Listen`, `Start`, `Send`, `Close`, `Status`, `ResetSequence`, `LastMessage`, `SubscribeLog` | FixSession, SessionActor, AppReset |
| Transport (`connection_impl.go`, `framer.go`) | socket, context, `incoming`, `outgoing` | `readLoop`, `writeLoop`, `Close` | SessionActor |
| Log broker (`broker.go`) | viewers, current subscription, its goroutine | `Bind`, `Subscribe`, unsubscribe, `publish` | AppReset |
| Ring buffer (`ringbuf/buffer.go`) | slots, `ptr`, `full` | `Write`, `Clear`, `Head`, `Tail`, `Dump` | RingBuffer, BoundedLog |
| Script executor (`executor.go`, `control_flow.go`) | jump table, program counter, `justJumped` | `parseJumpTable`, `EvalBatch`, the commands | BlockFlow, ScriptFlow |
| Waiting commands (`wait_cmds.go`) | a log subscription, a timeout | `wait`, `expect`, `waitstatus` | ScriptWait |
| Store and configuration (`store.go`, `config.go`) | configuration, aliases, variables, the message buffer, a file | `Get`, `Set`, `Unset`, `LoadConfig`, `DumpConfig`, `InitStore` and the requests that call them | ConfigStore, ConfigFile |
| Dictionary (`pkg/spec`, `message.go`) | the compiled specification | `LoadSpec`, `Sample`, `Salvage`, `Validate`, the operations on a message | Dictionary |
| Macros (`pkg/macros`) | the names under expansion | `Substitute` | Macros |
| Message matcher (`pkg/ast`) | the tokens left | `NewMatcher`, `Match` | Matcher |
| Script runner of the GUI (`handler_script.go`) | `sseChan`, script context, `cancelScript` | stream, cancel | ScriptStream |
| Applications (`app.go`, `registry.go`, HTTP handlers, shell commands) | current session, broker | `resetSession`, connect, disconnect | AppReset |
| Pretty printer, migration | pure functions of text | | not modelled, see section 8 |

How they interact. Everything that concerns one session happens on its **run
loop**, a goroutine that selects among `Done()`, `Incoming()`, a one-second
ticker and the channel of user requests, hands the event to the engine and
executes the actions the engine returns. Public methods of `Session` queue a
request and, some of them, wait for a reply; flags with atomic access tell them
whether the loop is still there. The loop talks to the socket through two
buffered channels and the goroutines `readLoop` and `writeLoop`. Whatever
happens is written to **log channels**, which the broker (for screens) and
script commands (`wait`, `expect`, `waitstatus`) subscribe to. An application
owns one session at a time and replaces it in `resetSession`.

What is hard, and what makes each part correct:

* **engine**: sequence numbers through gaps, replays, gap fills, resets by both
  sides and duplicates. Correct: no number is skipped or rewound, what was sent
  can be replayed, a ResendRequest is answered number by number, silence ends
  the session.
* **run loop and transport**: callers, loop, reader and writer over four bounded channels, a loop
  that sends to itself, a deferred block that publishes its results through
  flags. Correct: no circle of goroutines waiting for each other, close shuts
  down, callers return, lock-free readers see the final state.
* **log channels and broker**: four parties may close a channel. Correct: it is
  closed exactly once, never written to afterwards, nobody is left waiting.
* **resetSession**: three steps without a lock over them, against commands that
  dial and subscribe. Correct: a replaced session ends.
* **script executor**: a jump table patched while the script is read. Correct:
  it means what nested blocks mean, every jump finds its entry, a cancelled
  script ends.
* **waiting commands**: a snapshot, a log that drops entries and closes, flags
  set one by one by a loop that ends. Correct: a command that succeeds told
  what was, and every command comes back.
* **configuration**: a lock that requests take several times, system calls
  under the read lock, a process that may die anywhere. Correct: a file holds a
  whole configuration, and what was saved is there.
* **dictionary, macros, matcher**: recursion over nested data. Correct: they
  agree with a definition that does not recurse the way the code does, and a parameter
  changes the fields it names and no other.
* **script runner**: three goroutines and a browser that may leave, one channel
  to be closed. Correct: no send after the close, nothing lost, always an end.

## 2. The modules

| Module | What it is |
|---|---|
| `FixEngine` | the engine's handlers as operators: engine and message in, engine and action list out; no variables |
| `FixSession` | the run loop over FixEngine: one variable `eng`, the action list `todo` under execution, one action per case of the select and per executed action |
| `SessionActor` | the same loop seen from its channels: callers, request queue, replies, read and write goroutines, the socket, the deferred block; the engine is a nondeterministic action list |
| `BoundedLog`, `RingBuffer` | what the log history promises (the last `Size` lines), and the circular buffer that keeps it |
| `BlockFlow`, `ScriptFlow` | what nested control flow means (no jump table), and parser with interpreter, which implement it |
| `AppReset` | application, broker, log channels and consecutive sessions |
| `ScriptStream` | the script runner of the GUI |
| `ScriptWait` | the waiting commands against run loop, log channel and a disconnect |
| `ConfigFile`, `ConfigStore` | what the store promises of the configuration (a save is one step), and the requests, the lock and the files |
| `Dictionary` | specification, templates and validation, with the language of a specification as the reference |
| `Macros`, `Matcher` | substitution and the expression parser, each with its reference |
| `MC*` | instances for TLC: model values, message sets |
| `*Proofs` | theorems |

FixSession and SessionActor model one loop at two levels and rely on one
another: FixSession takes for granted that an action list is executed to its
end and that a queued close is taken, which SessionActor shows; SessionActor
takes any reaction of the engine from a set, and so does ScriptWait, which
keeps of an action list only the transitions and the close. AppReset takes from SessionActor
that a session asked to close ends; ScriptStream takes from ScriptFlow that a
cancelled script ends. These links are stated in the comments of the fairness
formulas. ScriptFlow implements BlockFlow, RingBuffer implements BoundedLog and
ConfigStore implements ConfigFile through `INSTANCE ... WITH`, checked as properties
and proved.

### Correspondence with the code

*FixEngine.* `Process` is `OnMessage` after the clock was read: `validate`
(`FatalError`, `RejectError`), then `Dispatch` on the state. A message is a
record of the tags the handlers read; the outcome of the checks that do not
depend on sequence numbers (session header, sending time, dictionary, numbers
that do not parse) is the field `fault`, chosen with the message. `"D"` stands
for every message type that is not administrative. Times are ticks; `IdleCap`
is the silence beyond which none is told apart and exceeds every timeout.
`handleResend`'s two nested loops are a function from position to action,
`ReplayAt`, whose three cases are replay, gap fill, nothing. `Skip` is the place
where the code appends nothing.

*FixSession.* A handler takes no time, so that it is one step; executing an
action is another. While `todo` is not empty the loop is not at its select.
`handleSend` selects between the outgoing channel and `Done()`, so once the
connection is down a message may or may not be recorded (`HandleSend`). Until
then the transport is ideal: SessionActor models the channels. The
counterparty is not constrained: `Receive` takes any message of `PeerKinds`
with any number near ours, or 1.

*SessionActor.* Calls are split where the code can be interrupted: the test of
the flags (`Call`), the channel send (`Push`), the reply (`Return`,
`ReturnOnDone`). The deferred block is its three steps, in order. A reply of
`LastMessage` goes over a channel without buffer (`DoHand`), the others do not
block. `ReadFails` and `WriteEnds` include the `Close` each goroutine calls.
`tombstone` is `"stale"` if the engine changed after the snapshot.

*ScriptFlow.* Reading a line is a step of `parseJumpTable`, one case per
keyword; a step of `EvalBatch` is one iteration. Commands, `include` and `not`
among them, are one step that succeeds, is falsy or fails. `$ERROR` is not modelled.

*AppReset.* A critical section is one step, with the exception of `Bind`, which
takes the locks of two sessions under the broker's mutex and is two (`Rebind`,
`Bind`, with `mu` held in between). `closes` counts the closes of each channel:
a second one would be a panic in Go. Starting a session is `Connected`, after a
dial that takes any time.

*ScriptWait.* A message is handled in one step after its log entry was written
(`Receive`), as subscribers cannot tell the moments in between apart; what
`execute` does for it is a step each (`Execute`), and so are the flags of the
deferred block. `Close` is two steps, the flag and the request. A case of a
command's select is an action (`Interrupted`, `TimesOut`, `SeesDone`,
`TapClosed`, `Takes`), and select takes any that is ready. The snapshot of
`waitstatus` is `Check`, or `Ask` with `Answered` or `AnsweredByDone`;
`orElse` is what follows if it has another state, which differs between the
three places that call `checkFromSnap`. `Possible` says of a reaction of the engine what
`transition` and `off` do: a session that is closed stays so, but for the tick
that takes it to Stale (`OnTick` does not look at Closed) before the loop ends.
Other requests to the run loop and the
text of log entries are left out.

*ConfigStore.* A request is the list of assignments it makes and how it ends;
`SaveForm`, `SetAlias`, `ConfigSave` and so on are the requests of GUI, shell
and scripts. A method of the store that writes is one step, since it holds the
lock; `DumpConfig` is four (`Marshal`, `CreateTemp`, `WriteTemp`, `Rename`) under
the read lock, so that `Set` and `LoadConfig` wait (`Locked`) and another dump
does not. `DumpFails` is any of its system calls that fails, `Restart` the end
of the process at any point. `owed` remembers that a change was kept in
memory on purpose, or that its save failed. Values stand for texts; `Bad` is
one that `setField` refuses.

*Dictionary.* One variable holds a message: LoadSpec, Sample, a change by hand,
Finalize or Salvage are the steps. `Compile` is `compileEntries`, with
components flattened and their `required` passed down; `AddEntry` is what
`Sample` does with an entry, `WalkSpec` and `Instances` are the two loops of
`walkSpec`. What recurses or loops in the code is a function of the call with
what it is given: `Walk` of a context (its entries, the tags that end it, what is
`left` of the clone of its lookup, the field it is at), `Adding` of an entry and
`forceInclude`, a loop of the number of its turns. An observation is a pair of kind and
tag, where the code has text. Data types are whether a text is right (`ok`).
`SpecsAssumption` is what the model asks of a file, if LoadSpec accepts it: no tag
occurs twice where one list can be told from another, no group is empty, 8, 9 and
35 come first, the mandatory tags of the header in order, 10 last
(`WellFormed`). LoadSpec does not insist on it; the XML files in
`src/pkg/spec/xml` are so. An XML element that is no field, component or
group makes `Compile` fail, as does an unknown name or a component within
itself. A router for FIXT has two
specifications, that of the session for header, trailer and administrative
messages, that of the application for the bodies of others (`router.go:148-166`,
`validator.go:265-273`). The model has one file for both, so it has every pair in which
what a message needs of the two is put side by side; the choice by MsgType, and
that a tag may be defined in one and not the other, are not modelled.

*Macros* has the store as its state and `computable`, whether session and buffer have what
a computed macro asks for (`$BUF` is set, `$LASTIN` has a message); a text is any
sequence of pieces: plain, a reference with its parameter, a computed macro, or one
that is malformed or whose bracket is not closed (`Faulty`). Expanded, a text is a
sequence of tokens: a key (`54=`, `54.2=`) or a character. `FitsMessage` has
the refusals of `substituteMessageWithParamString`: a value that is no
message, a parameter that does not parse, a field set twice as far as the code
notices, a tag or an instance the message does not have; `WithParam` sets the
fields one after the other (`SetField`) and unescapes commas if no expansion
is going on outside. Left out: which value a computed macro has, as it refers to
nothing; quotes around values with spaces; a key written in parts, its tag in
one piece and its `=` in the next.

*Matcher* has the sequence of tokens. A node of its tree is
represented by the set of messages its `Match` is true of.

Both programs are recursive functions, of a call with what it is given
(`Lookups`: a reference and the names under expansion; `Calls`: a rule, the node
built so far and a position), so that they can be proved about. The references
go another way: what macros expand to is built from below in rounds that follow
no path (`Learned`), with two forms of each expansion, the one within another
(`text`) and the one in the line (`shown`, commas unescaped); what an expression means
is read off every way to split its tokens (`Means`).

*ScriptStream.* One step per channel operation; the runner prints while the
script runs and also after a cancel, until `EvalBatch` comes back.

## 3. The runs

`tlc -config <run>.cfg <module>`; the longest, Application, takes two and a half
minutes on two workers.

| Run | Shows | Bounds, and why they are enough |
|---|---|---|
| FixSessionLife | `TypeOK`; `EndsWhenPeerFallsSilent`: once the counterparty is silent the session ends, from every state | Both roles, 7 kinds of message (good, bad and negotiated Logon, Logout, garbage), 2 receives, interval 1 tick: each state of the engine is reached with a message to spare. `MaxOut` stops the clock only beyond the numbers a session that dies can reach |
| FixSessionNumbers | `NoSkip`, `OutOfSyncWaits`, `InSeqForward` | 4 receives (Logon, gap, replay or gap fill, second gap), numbers up to 2 ahead and 1, 15 kinds of message, among them replays and resets with PossDup, a Logon that resets the numbers at any time, a ResendRequest and a message that fails validation; 2 requests of the user |
| FixSessionStore | `Recoverable`, `StoreKeyed`, `ReplayAccounts` | Strict mode, raw sends of 3 numbers (passed, next, far), resets back and forth, both roles, every ResendRequest range asked in every state. 2 user requests: a hole and a message beside it |
| ActorOpen | `TypeOK`, `CallsReturnOrDone`: while the connection lives every call returns | All channels of capacity 1, two callers, every method: every pair of calls meets at every full channel |
| ActorEnd | `TombstoneFinal`, `EndedMeansDone`, `CloseShutsDown`, `CallsReturn` | The engine closes too; `ReqCap` 3 is room for every request that can be queued, see section 6 |
| Scripts | `TypeOK`, `EntryFound`, `Structured` (refinement of BlockFlow), `CancelEnds` | Every script of up to 7 lines over all 11 kinds of line: an if with elif and else in a loop with a break |
| Application | AppReset: `TypeOK`, `ClosedOnce`, `NoneLeftOpen`, `PumpEndsToo`, `ReplacedEnds`. Macros: `ExpandsOrRefuses`, `SetsOnlyWhatIsNamed` | Resets: 2 resetters, so that resets overlap; 3 sessions, so that the one made last is replaced again; 1 each of dialer, waiter, viewer; log channels of capacity 1. Macros: every store over two aliases and a variable with 23 texts: messages, one that a variable completes, references side by side, circles, every kind of parameter (one field, two, the second instance, a field twice, an escaped comma, the delimiter in a value, an instance 0, none there, no parameter at all, one with a macro in it), computed macros with and without a value |
| ScriptRuns | ScriptStream: `ClosedWhenQuiet`, `DoneMeansAll`, `EndsForBrowser`. ScriptWait: `ToldWhatWas`, `GotWhatItWaitedFor`, `CommandEnds`. `WaitTypeOK` | Streams: 2 requests that share `cancelScript`, one with a logger, `sseChan` of 1, so that output, log and verdict compete for one place. Waiting: each command once, with timeout and without, a log channel of 2, 2 messages or ticks that write up to 3 entries each, so that the channel overflows; a session that is new, runs, is closed by engine, user or socket at each step, and may turn stale after that |
| Data | ConfigStore: `SavedAtRest`, `AtomicSaves` (refinement of ConfigFile). Dictionary: `SamplesAreValid`, `StrictIsTheLanguage`, `SalvageRepairs`. Matcher: `MatchesGrammar`. RingBuffer: `EndsMeet`, `KeepsRecent` (refinement of BoundedLog). | Configuration: 2 handlers, every kind of request, 4 of them in a behaviour, so that two saves overlap with a load and a change; no file, both, or a broken one first; crashes at any point. Dictionary: 49 specifications (flat, nested, nested first, with components, broken), 9 sample options, groups of 0 to 2 instances, one change at any field. Matcher: every sequence of up to 6 tokens, with two operands and four messages that have both, one or neither. Ring: 4 slots, 3 lines |
| EstablishedMeansLogon | *violated* | see section 5 |
| ReplayKeepsNumber | *violated* | see section 5 |
| SendHangs | *violated* (`SendReturns`) | see section 5 |

MCApplication, MCScriptRuns and MCData join modules that share nothing: one part moves at a
time while the others stay in their first state, so that the states of the
parts add up rather than multiply.

Deadlock is checked, except in ActorOpen and SendHangs: there the loop may
really stop, at the hand-over of a last message to a caller that left (section
6). In the other modules the states in which the system rests are an explicit
stuttering disjunct (`Ended`, `Finished`, `Returned`, `Quiet`, `AllQuiet`, `Scanned`, `Checked`), so that any
other stop is reported.

`MaxReceives`, `MaxRequests`, `MaxCalls`, `MaxPeer`, `MaxLen`, `MaxSessions`,
`MaxPrints`, `MaxLogs`, `MaxCommands`, `MaxEvents`, `MaxEdits` and `MaxTokens`
bound what the environment does; `MaxOut` bounds the clock. They are in the guards of the environment's actions only.

## 4. Fairness

* **FixSession**: the goroutine of the loop is scheduled, time passes and the
  ticker fires (weak). Go's select chooses at random among ready cases, so it
  does not pass over `Done()` or a close request for ever (strong).
  Neither user nor counterparty has to do anything.
* **SessionActor**: as before; in addition senders blocked on a channel are
  served in order (strong for `Push`), and the peer reads what is in the socket
  as long as it is connected. Nothing obliges a peer to write, or a user to call.
* **ScriptFlow**: `EvalBatch` goes on; every command returns.
* **AppReset**: goroutines that began a reset, that drain a channel or that are
  in the deferred block go on; a session that was asked to close ends.
* **ScriptWait**: the run loop goes on with what it has to do, and so does the
  goroutine of a command (weak); a timer that is set fires. Nobody has to write
  or close. That select is random is not used: the entries are bounded.
* **ScriptStream**: runner, logger, orchestrator and request go on; a script
  whose context is done ends. Weak fairness is enough as output and log
  entries are bounded. A running script need not end, a browser need not leave.

## 5. Statements the code does not keep

Three runs search for a violation of what a comment or a test says, and find it:

* **EstablishedMeansLogon**: `engine.go:19` says that a state from Active
  upwards means an established session. `OnTick` takes a *listening* session to
  Stale after one silent interval, whether or not anybody logged on, and from
  there any valid message takes it to Active.
* **ReplayKeepsNumber**: `engine_test.go:593` expects messages to be replayed
  under their numbers. `finalizeMessage` renumbers whatever is not a gap fill,
  on the way out of `handleSend`; the test looks at the actions before that.
* **SendHangs**: `session.go:154` says that `Send` returns an error if the
  transport closes. It waits for the reply only; a request queued when the
  loop has ended is never answered.

## 6. Seen while modelling

Behaviours that no document denies, or that a property had to leave room for:

* A gap fill that ends one short of the number waited for ends OutOfSync
  (`handlers.go:184` compares `inSeqNum + 1` although nothing will be counted).
  `OutOfSyncWaits` states the other direction.
* In an established session a message with PossDup and a number passed already, a
  Logon with ResetSeqNumFlag and such a number, and any message that fails
  validation out of order are counted as if they were the one expected. The
  history variable `strayed` notes the first of them, until the user sets the numbers:
  from there on `inSeqNum` may be ahead of what was received, and `NoSkip`
  claims nothing. The replay of a gap, its messages with PossDup included, and
  the Logons of a handshake are no such case. `OutOfSyncIsWaiting` assumes that
  messages are valid (`AllValid`).
* `LastMessage` answers on a channel without buffer: if the caller left on
  `Done()`, the loop stays there (`user_request.go:67`).
* `execute` calls `Close` on the loop itself (`session.go:344`): with a full
  request queue the loop waits for room that only it can make. ActorEnd has
  room for every request; the real queue holds 128.
* A message is recorded as written when the outgoing channel took it
  (`session.go:306`); a close in between loses it.
* Two overlapping resets may leave the broker on a session that is not the
  current one (`app.go:318`). A `Connect` whose dial outlives a reset starts a
  session nobody refers to (`session.go:113-123`). The goroutine that drains
  `Incoming` of a session that never started does not end (`app.go:56`).
* The last script's cancel function replaces that of one still running
  (`handler_script.go:98`). Runner and logger send on `sseChan` without a look
  at the context: when the browser is gone and the channel is full they stay
  there (`handler_script.go:144`), although the comment at line 152 speaks of
  ending the logger when the runner completes.
* `exit` in an included file ends that file only (`executor.go:204`).
* `waitstatus Closed` may fail although the session closes: its select may
  choose the log channel that was closed, or the snapshot after `Done()` was
  taken before the state changed (`wait_cmds.go:142-151`; the help in
  `executor.go:72` says that it blocks until the session enters the state).
* A reply may arrive between `send` and the subscription of the `wait` that
  follows; only `waitstatus` looks back (`wait_cmds.go:126`). An entry that
  finds the log channel full is dropped, so that `expect` may pass over a message
  that should have failed it, and it passes over Heartbeats and TestRequests,
  where `FAQs.md:276` speaks of the very next message.
* `$BUF` belongs to the store, which all scripts of the GUI share
  (`store.go:50`); `FAQs.md:162` calls it local to the script.
* `Config()` returns a copy that shares the alias map (`store.go:74` calls it a
  safe copy): a page that lists aliases reads it without the lock.
* Imported aliases stay in memory (`handler_settings.go:202`), where `FAQs.md:137`
  says that changes are saved. Setting and deleting an alias report success
  whatever the save returned. A settings form that is refused at one field
  leaves the earlier ones changed in memory.
* `SaveConfig` reads the path before it takes the lock to dump: a load in between
  makes it write the configuration that was loaded to the old file
  (`app.go:122`). A path that begins with `~/` is resolved when loading only, so
  that the next save fails.
* A `.mxrc` that does not parse is passed over at the start, and replaced by the
  defaults at the next save (`config.go:114`).
* An alias that appears in its own parameter is refused as circular. Of the parameters
  `54=1,54=2` the duplicate is not found, although `alias.go:37` says that
  duplicates are disallowed: `alias.go:47` looks for the key as it is written,
  `alias.go:69` notes it with its instance. `FitsMessage` does the same, and
  the second value wins. A value that holds the delimiter of the alias' message adds a field to it
  (`alias.go:108`). An alias without parameter in the line does not unescape the commas of
  those within it (`macros.go:125`).
* `LoadSpec` accepts a tag twice in one message; the second one is then the
  entry of both.

## 7. Theorems

TLAPS checks them from nothing with `tlapm <module>.tla`.

**FixSessionProofs**, for every set of messages, requests and bounds:

* `TypeCorrect`: `Spec => []TypeOK`. One lemma per operator of FixEngine on the
  type of its result, then one step per action.
* `StoreIsKeyed`: `[]StoreKeyed`, which is inductive together with `TypeOK`. The
  argument is that `Append` refuses numbers that do not grow, whatever raw
  messages and resets hand it.
* `InSeqNeverRewinds`: the action property `InSeqForward`. The frame lemmas
  (`AppFrame`, `OutSyncFrame`, `DispatchFrame`, `ProcessForward`) say for each
  handler what it may do to `inSeqNum`.
* `OutOfSyncIsWaiting`: `[]OutOfSyncWaits`, assuming `AllValid`.
* `NothingSkipped`: `[]NoSkip`, whatever the counterparty sends. `due` is defined from
  what was received alone, without a look at the engine's state; the proof shows
  that each handler stays behind it, replays with PossDup and resetting
  Logons included, but for the messages `strayed` notes (section 6).
* `WrittenIsRecoverable`: `[]Recoverable`. What a step may do to the numbers, the
  store and the list of what was written is put in one relation, `OutStep`
  (`NextOut`); the invariant `RecoverInv` adds that without a forced numbering
  `lastSeqNo` is behind `outSeqNum`, without which `Append` could refuse a message.
* `EveryReplayAccounts`: `[]ReplayAccounts`. `StoresApp` (only application
  messages are kept) and `StoreKeyed` make the walk of `handleResendRequest`
  over the store a walk over disjoint intervals (`WalkCoversOnce`): what one
  action covers ends where the next begins, and the first and the last meet the
  ends of the range asked for.

**SessionActorProofs**: `LoopClosesTransport` by `TransportInv` (a read or write
goroutine that is past its loop has closed the transport: without it
"`reader = ended`" says nothing about `done`), and `TombstoneIsFinal` by
`CleanupInv` (after the snapshot the loop never reaches a step that changes the
engine); `TypeCorrect`, whose conjuncts include the bounds of the channels, for
any number of callers and any capacity.

**StorageProofs**, of RingBuffer: `TypeCorrect`; `KeepsTheRecent`, the refinement, by a
characterisation of `Dump` as a function of `ptr` and `full` and one lemma for
each of the two cases of `Write`; `EndsAlwaysMeet`.

**AppResetProofs**, for any number of goroutines and sessions: `TypeCorrect`;
`NoDoubleClose` and `AllClosedInTheEnd`. The invariants are `Handed` (a new
session is known to its resetter alone until `Bind` is through with it, every
other reference is to a known one), `Channels` (an open channel is in the list
of the one session its owner subscribed to, and was never closed) and `Ending`
(a session that closes its log channels has `closeRequested` set before, which
`SubscribeLog` tests under the same lock). Without `Handed` nothing would keep
`Bind` from opening a channel that was closed before.

**StorageProofs**, of ConfigStore, for any number of handlers, fields, files and requests:
`StoreTypeCorrect`; `SavesAreAtomic`, the refinement of ConfigFile, and
`AllSavedAtRest`. The invariants are `Pending` (a request that has something left
to assign keeps or saves it), `Held` (what a handler dumps is the configuration
in memory: nobody writes under its read lock) and `Accounted` (a change that is
not in the file has a handler on its way to save it to that file). Without
`Held` a rename would be the save of a configuration that is gone.

**ScriptRunsProofs**, of ScriptStream, for any number of streams and any capacity:
`StreamTypeCorrect`, `ClosesWhenQuiet`, `DoneIsAll`. The invariants are
`VerdictGiven` (the runner sends one verdict, which is in the channel until it
was relayed) and `Ordered` (a logger that runs is subscribed; the channel is
closed when runner and logger are through; the request is done when the closed
channel is empty).

**ScriptRunsProofs**, of ScriptWait, for any number of scripts, messages, reactions of the
engine and entries in a log channel: `WaitTypeCorrect`; `StatusWasTold` by `Told`
(whatever could still tell a waitstatus that its state was entered, the state
itself, a transition the engine listed but not yet logged, an entry in the
channel, is true) and `RunOrder` (a loop that left its select is closed, and so is
its socket); `WaitGotIt` by `Kept`: there is a rising map from the entries in a
log channel to the messages heard since the command subscribed, and a message it
leaves out was passed over or dropped.
The model assumes `TransitionAssumption` of its constant, that the engine lists a
transition for every state it passes through, as `actions.go:57-58` does.

**ScriptFlowProofs**, for scripts of any length: `TypeCorrect`, `EntriesFound` and
`ImplementsBlocks`, the refinement of BlockFlow. For the first two
the invariants are `Nested` (the stack rises, and a clause in it stands on its
chain, so that the search of `endif` for its `if` ends), `Loops` (the list of
loops is that of the stack, breakpoints are ordered by level, so that popping
them from the end takes those of the loop that ends and no other) and `Entries`
(a keyword is in the jump table, on the stack or in `breaks`). There is one
lemma per kind of line. The minimum principle of the natural numbers
(`LeastElement`) does where induction would be used.

`ImplementsBlocks` has to join two views of a script that share nothing: the jump
table, patched as lines arrive, and BlockFlow, which looks at a complete script
and counts. The proof has three parts.
* Counting is local. A line that is added leaves the blocks around the earlier
  ones alone (`BlocksGrow`), and the blocks around the next line are those of this
  one, with a block opened or the innermost closed (`AroundNext`); the level counts
  them (`Leveled`). What BlockFlow finds by looking ahead, the close of a block
  and the next clause, is described from behind as `ClosedAt` and `FollowedBy`
  (`ClosedIs`, `FollowedIs`).
* `BlockInv` says that the parser has found the same: every line kept is in place
  (`AllFit`); the stack holds the blocks around the next line and their clauses
  (`Frames`), so that a line is refused exactly where it is out of place
  (`MisplacedFits`); every block is open or shut (`Shut`); an entry of the table
  leads to the clause, end or loop that counting finds (`Table`); a condition
  on the stack that got no entry yet is the last of its chain (`Chained`); a
  break belongs to the loop at its level (`BreaksOut`). One lemma per kind of
  line shows that it stays so.
* When no block is open, the position that `Settle` computes exists, since
  control that passes an instruction goes on further down (`ReachesIs`, by
  `LooksAhead`), and every iteration of `EvalBatch` either leaves that position
  alone (an else, an end or a jump that is passed) or is the step of BlockFlow
  at it (`StepsAreBlockSteps`).

**LanguageProofs**, of Macros and Matcher. Both are recursive functions whose
recursion only ends for a reason, and what they compute is compared with a
reference that is computed in another order. Induction is by a least element
(`LeastElement`, `Induction`) of the lengths, positions or names left.

* `ParserMatchesGrammar`, for expressions of any length: `MatchesGrammar`. First
  the equations: `Parse` has a value for every call, as a rule calls only rules
  further on or lower (`ParseIs`), and so has `Means` for every span
  (`MeansIs`). Then, of every rule at every position: what it returns is the only
  reading of the tokens from there on, that is, of the places where such a phrase
  could end the grammar derives them up to where the rule stopped and up to no
  other, and with the one meaning that is its node (`OnlyReading`). Factors are
  read if what is further on is (`FactorReads`); a list is read if its operands
  are (`ListReads`): `Stage` says what the loops of `parseTerm` and
  `parseExpression` hold at each place where the list may end, and the next such
  place is one separator and one operand on (`NextStage`).
* `SubstituteIsRight`, for any store and any texts: `ExpandsOrRefuses`. What is
  refused is a macro without a value, a circle, and a parameter that does not
  fit its message, at any depth. Each
  lookup marks a name, so the recursion ends, and `visited` is the same after a
  lookup as before it, whether it succeeded or not. A lookup with m names of the store not marked
  agrees with round m of the reference, except that it refuses what takes a
  marked name (`LookupsMatch`); from outside no name is marked, and what is known
  is known after as many rounds as there are names.

**DictionaryProofs**, for any dictionaries that are well formed, groups nested to any
depth, any options, any fields lost and any number of changes:
`StrictValidationIsTheLanguage`, `TemplatesAreValid` and `SalvageAlwaysRepairs`.
Their assumptions are those of the constants:
`SpecsAssumption` above, that a file's routing tags are numbers other than 10, and
that repetitions and counts are natural numbers.

* The equations first. A function whose rule looks only at arguments of a lower
  rank exists and is the only one (stated once, used three times): `Walk`, by the
  fields that are left (`WalkIs`), the reference `Blocks`, by the length of the
  span (`BlocksAre`), `Adding`, by the depth of the entry (`AddingIs`).
* What strict validation is silent of is in the language (`StrictIsSound`), by
  induction on what is left of the message. `walkSpec` runs to the end of the
  message, or to where something foreign begins; it has then taken each entry at
  most once and missed no required one. For a group, that instances are of one
  size and repeat the tags of the first makes them the equal instances the
  reference asks for.
* What is in the language, both modes are silent of (`WalkIsComplete`). Here it
  has to be shown that a context ends where the reference says, not later:
  `Stopping` says what may follow a block, `Fitting` that none of it can be
  taken for something inside. For an instance of a group that is its own
  first tag, and for the last one what is left of the contexts around it: this
  is where `GroupEnds` and the distinct tags of `Separate` are needed.
* What `Sample` builds of a list stands as a block wherever it occurs
  (`BuildStands`), by induction on the depth of groups: an entry adds nothing,
  one field, or a count and that many equal instances (`GroupStands`), which
  start with the first member because it is forced. `Framed` adds what setting 8 and 35
  and `Finalize` do to the whole: each finds its tag in place, so nothing moves.
* Salvage undoes the loss of any mandatory fields but MsgType (`SalvagedIs`), which
  does not give back the template: what is inserted goes behind the last tag that was
  placed, so the header may come out in another order. That it is an order
  the specification allows is the invariant of the loop of `Salvage` (`Salvaging`,
  kept by `SalvageGoesOn`): the message is what the entries placed so far add,
  nothing lost, then what is left of the other entries of the header and of
  the rest, and all entries together are still those of the header, once each
  (`Placing`). A tag that is still there stays where it is, with the optional
  entries before it; one that is not is put right behind the tag that was
  placed last (`PlacingNext`). In the end
  nothing of the header is missing, 8, 9 and 35 come first, and `Finalize` puts a
  lost 10 back at the end (`FinalizeAdds`). A header in such an order stands as a
  block as before, so the result is in the language (`RepairedConforms`).
* The invariant, `DictInv`: a specification in use is what LoadSpec made of a file,
  and a template is what Sample made of it with some options. Everything else
  a message can become by changes, `Finalize` and `Salvage` is a sequence of
  fields, of which the two lemmas above hold.

Three type invariants, `StreamTypeOK`, `ConfigTypeOK` and that of RingBuffer, are theorems and not
properties of a run.

Only model-checked: the liveness properties (`EndsWhenPeerFallsSilent`,
`CallsReturn`, `CallsReturnOrDone`, `CloseShutsDown`, `CancelEnds`,
`PumpEndsToo`, `ReplacedEnds`, `EndsForBrowser`, `CommandEnds`), which rest on
fairness and so on ENABLED, beyond the prover, and `SetsOnlyWhatIsNamed`, which compares what two folds
over the fields compute. Every other invariant and every action
property of the passing runs is a theorem.

## 8. Not modelled, and the plan

Left out for good: formatting and parsing of text (`pretty`, `migrate`, `diff`,
the conversions of `field.go`, the values of the computed macros, data types, templates,
command line), HTTP handlers that only render, embedded assets. Readers of
`Config()`'s shared map are not modelled: no order of steps makes that
sharing safe, so that a property would say nothing new.

Next, in this order:

1. `FixLink`: two sessions of this program joined by two lossless queues, for
   gap recovery between equals and for two loops that are both blocked writing.
2. `seq in N` and `incr`, which read a value in one request and write it back in
   another.

Abstract specifications worth adding: a session as its users see it (open,
closed, calls answered), which SessionActor should implement.
