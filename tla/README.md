# Formal models of Ciel

Ciel is a language whose compiler (Rust, `src/`) emits C that links against a
runtime (C, `runtime/src/`) and a standard library (Ciel and C, `std/`). Two
kinds of difficulty meet here. The runtime is concurrent: polled tasks on a pool
of dispatch threads, blocking threads, callbacks, cancellation at any moment,
and resource owners that close what everybody else is using. The compiler is
sequential, but it promises things about programs nobody has written yet: that
what it accepts is safe, that the C it emits does what the source says, that its
fixpoints and work lists end with the right answer.

Paths below are relative to the root of the repository. `async.c` is
`runtime/src/async.c`, `resource.c` and `actor.c` are in the same directory;
`stmt.rs`, `parser.rs` and the like are files below `src/`.

## 1. Inventory

| Part | State it keeps | Operations | What makes it correct |
|---|---|---|---|
| blocking channel (`std/sync/native/sync.c`) | linked list, `closed`, mutex, one condition variable | make, send, recv, close | values are received once, in order; nobody sleeps beside a value; close releases sleepers |
| async channel (`async.c`) | queue, `reserved`, two closed flags, two stacks of wait nodes, condition variable, permits | send, try_send, reserve, permit send / release, recv, close of either half, cancel | queue and permits share the capacity; one wake per event suffices; it is a bounded FIFO |
| tasks and futures (`async.c`) | task state, `scheduled`, refcount, root; future state, pending source | spawn, schedule, run, poll, suspend, register, finish, unpin, cancel | one continuation at a time; rooted while queued; one outcome; every task ends |
| task groups, supervisors (`async.c`, `std/async`) | registrations, completion queue, closed flag, waiters | add, complete, settle, next, try_next, join, cancel_all, close, shutdown | no completion lost or yielded twice; a join sees a quiet group; nothing slips past a shutdown |
| actors (`actor.c`) | serial queue, dispatch group, lifecycle lock, closing / joined / failed, owner | send, job, stop, join | accepted messages are handled, in the order of each sender, before a join takes the owner |
| resource owners (`resource.c`) | tree of owners, entries with generations, counters, limits, a stack per thread | scopes, async scopes, spawn, register, close, transfer, owner close, shutdown | a resource is closed exactly once, is always reachable from the root or closed, quotas are exact |
| asynchronous operations (`async.c`) | complete / canceled / finished, result, notification, waiters, source, root | start, callback, complete, notify, finish, cancel | descriptor, result and message have one consumer each; whoever awaits is woken |
| TCP listener (`async.c`) | queue of streams, the pending accept, source | listen, callback, accept, finish, cancel, close | no connection is lost or given twice, no accept waits beside a queued connection |
| buffered TCP reader (`async.c`) | private buffer, pending read | read, read_exact, finish, cancel, into_read_half | bytes are neither lost nor doubled, and stay in order |
| select and timeout (`async.c`) | state and winner of the set, poll lock, arms, nodes | poll, wake, claim, rearm, register, stop, abort | one arm completes, the others are cancelled, and never while they are polled |
| gates, parser (`driver.rs`, `parser.rs`) | tokens, position, diagnostics, speculation | the gates, one parse function per construct, recovery, re-parsing after an edit | it ends on any text; the tree has the tokens of the file; what the grammar derives is accepted |
| flow checker (`typeck/control_flow.rs`, `typeck/mod.rs`) | state of each local: unassigned, assigned, moved | every statement, merges at joins | an accepted function reads only assigned locals and never falls off its end |
| async facts, escape analysis (`typeck/async_check.rs`, `escape.rs`) | live sets, await slots; alias sets | backward pass over a body; forward pass over a body and its callees | the heap frame has what is used after an await; no address of a stack local gets out |
| statement code generation (`codegen/stmt.rs`, `codegen/expr/`) | stacks of exit code, loop and break marks, await index | every statement, calls, awaits, tries | the C performs the calls, defers and releases of the source, in its order, also when aborted |
| types, impls and derives (`types.rs`, `typeck/`) | table of impls and templates, pending derives, cache of answers | collection of declarations, queries, coherence, inference, bodies | impls rest on a least derivation; determined arguments are unique |
| monomorphization, layout (`mono.rs`, `codegen/plan.rs`) | work lists of functions, impl bodies and aggregates | instantiate, mark tables, collect, order | closed under what is named; ends; definitions come in order |
| reflection (`typeck/meta_repr.rs`, `mono.rs`, `codegen/expr/meta.rs`) | the representation type, computed three times | schema, as_ref_repr, into_repr, from_repr | the three agree; a value survives the round trip; policies and unsafe structs are respected |

The interactions of the runtime are these. A task polls a future; the future waits for an
operation, a channel, a task, a group or the arms of a select, and puts a wait
node there. Whoever makes the source ready takes the nodes under the mutex of
the source and schedules the tasks *after* the unlock. Cancellation goes the
other way: it marks the future, wakes its source, and decides whether the
canceller or the running poll finishes the task. A finishing task closes its
resource owner, which closes whatever the task had registered, permits of
channels included, and then settles its groups.

The compiler is a pipeline: `driver.rs` reads a file through the gates into the
parser; the type checker collects declarations, checks bodies and records facts
about them; monomorphization instantiates what is reached; escape analysis and
code generation turn the bodies into C. `Frontend`, `Typeck` and `Compile`
compose the modules of the phases in that order; in `Compile` the emitted C is
then executed beside the source.

The remaining parts are listed in `PROJECT.json` with the reason why they are
not modelled. The hazards, each at its line, are listed there too.

## 2. Modules

One critical section of one mutex is one action; where the code releases a
mutex and goes on with values it read before, there is a program counter and a
second action. Names follow the code.

| Module | Models | Notes |
|---|---|---|
| `SyncChannel` | the blocking channel | `pthread_cond_wait` splits `recv`; spurious wake-ups are steps |
| `AsyncChannel` | the async channel and the tasks and threads that use it | wait nodes taken under the mutex travel in `wakes` until they are scheduled; an actor performs one operation and its name is the value it sends |
| `BoundedChannel` | what the async channel promises | the abstract specification: a FIFO whose capacity is shared with permits |
| `Task` | tasks, futures, workers | a task awaits a sequence of sets of sources; a set with several members is a select whose late nodes can still wake the task; an await may fail, and its error is the result |
| `TaskGroup` | groups and supervisors | a walk over the registrations of a task holds `task->mutex`, as in the code; a blocked thread is a parked user, since every event of a group is a broadcast |
| `Actor` | actors | the dispatch group is a counter, the serial queue a sequence |
| `ResourceOwner` | owners, entries, quotas, scopes | a call that fails changes nothing and is no step; owner ids and resource ids end at a bound; a `program` says which threads open scopes, await, spawn and poll, and what they open |
| `AsyncOp` | one operation of any kind | callback, finishers, cancellers and notifiers are threads; data are reduced to the one result that must be closed, the stream of a connect; a cancelled read or write closes its stream |
| `TcpListener` | the listener and its accepts | connections are numbered in the order of their arrival |
| `BufferedReader` | the buffered reader | bytes are their positions in the stream, so loss and order are visible; the steps of a cancel (operation, reader, source) are apart, and a source that is not stopped yet fires |
| `Select` | one select with its arms | under a blocking thread or under a task; an arm passes several sources; another consumer may steal an event |
| `Parser` | `parser.rs` | a method maps a parser state to a parser state; token kinds are strings; a loop that comes back without having consumed anything is marked stuck |
| `CielGrammar` | the grammar of `design.md` as data, with a recogniser | the reference of the parser, not taken from the code |
| `Frontend` | `driver.rs`: gates, then the parser, again after every edit | the edits are the environment |
| `CielTree` | the typed tree | calls stand for every operation with an effect |
| `FlowCheck` | definite assignment, moves, reachability | the checker's result for a statement is a record |
| `LocalFacts` | what is live across an await (`async_check.rs`), and whose address escapes (`escape.rs`) | sets of locals |
| `CodegenC` | statement lowering | the C is a sequence of structured items |
| `CielMachine`, `CMachine` | what the source and the C mean | machines that run in lockstep; `CielMachine` follows the sections of `design.md` and is the reference |
| `Compile` | the pipeline for one function, and its execution | the environment answers conditions, lets an await be ready or not, aborts, drops |
| `CielTypes` | type terms and the pure functions on them | one tuple shape for all kinds |
| `Capability`, `ImplTable`, `Infer`, `Coerce`, `Collect` | queries, table of impls, inference, coercions, declarations | the mutable checker is a record `k` threaded through |
| `Mono`, `Typeck` | monomorphization and layouts; the whole checker for one program | one action per phase, declaration, body and work item |
| `MetaRepr` | reflection | types and values are terms; addresses are places of the source |
| `*Proofs` | lemmas and proofs | section 5 |
| `MC*` | instances for TLC | model values, role assignments, programs; `MCAsyncChannel` chooses between two casts of actors; `MCWaits`, `MCStreams`, `MCCompile` and `MCTypeck` put two independent components as two benches into one state graph |

The condition variables, dispatch queues, sources and groups come from libraries
outside the repository; they are marked external in the map of `PROJECT.json`
and modelled by what the runtime relies on: a signal wakes some sleeper, a
cancelled source fires no more but a running handler goes on, a group becomes
free at zero.

Definitions whose comment starts with "Mutant" are plausible mistakes in the
code (a dropped guard, a missing reset, a node kept). Each property of a passing
run has one that violates it; they take part in no specification.

## 3. Runs

Passing runs:

| Run | Properties | Instance |
|---|---|---|
| `waits` | DeliveredInOrder, NoLostSignal, OneArmWins, WaitersReturn | a blocking channel: three receivers race for three sends and a close; a select: an arm with two sources and one with one, under a blocking thread and under a task that is aborted, with a stolen event |
| `async_channel` | NoLostWake, RefinesBoundedChannel, PermitsReturn, NobodyStranded | a permit holder cancelled at any moment, a thread that tries, one that blocks, a receiving task, both closes; or, for the permit holder, a second receiving task parked on the same list |
| `task` | OneContinuation, TaskKept, TasksFinish | a select with a late arm, an await of another task, an await that fails, a cancel, an attach failure, two workers |
| `task_group` | GroupExact, UsersReturn | one task registered twice; one user waits for completions or joins, another closes, cancels or shuts down |
| `actor` | MessagesHandled, JoinsReturn | two senders, a self-send, a failure, a stop, two joins |
| `resource_owner` | ResourceKept, CountersExact, ShutdownReleases | two threads, two descriptors and limits that refuse, in four programs: scopes, async scopes and tasks around one resource; nested scopes with a descriptor each; handles used against a thread that spawns and polls; more owners than the root has room for |
| `async_op` | DescriptorConserved, ConsumedOnce, AwaitReturns | two finishers, a cancel, two notifications, one of them refused, and the callback, for each kind |
| `streams` | ConnectionKept, CloseReleases, BytesKept, ReadReturns | a listener: three accepts, one of them cancelled, two connections, an error, a close; a buffered reader: plain and exact reads that fail to start, are finished or cancelled, and into_read_half |
| `compile` | CheckedIsSafe, CompiledAgrees, FrameKeepsLive, NoDangling; ParseEnds, TreeFaithful, GrammarAccepted, GatesSelect | functions of every compound statement over short bodies, compiled and executed; files of every construct with every single edit of a token |
| `typeck` | ImplsJustified, DeterminedUnique, MonoClosed, LayoutOrder; ReprAgrees, RoundTrip, ReflectionGuarded | programs of a few interacting declarations in every order, checked and monomorphized; reflected types of every kind with every value |

What the runtime runs show together: no value, completion, message, connection, byte,
descriptor or resource is lost or used twice under any interleaving of the
instance; and whoever waits is woken by the event, the close or the cancel that
should wake it. Several properties are conjunctions whose parts have names of
their own in the module: `GroupExact` is JoinQuiescent, CompletionsExact and
RegistrationCovered; `MessagesHandled` is NoJobAfterJoin, AcceptedAreHandled and
SendOrder; `ResourceKept` is Conserved and Covered; `ConsumedOnce` is OneFinish,
BoxConserved and NoNoticeAfterCancel; `ConnectionKept` is ConnectionConserved,
NoStrandedAccept and WaitIsOwned; `BytesKept` is BytesConserved and OrderKept;
`OneArmWins` is OneArmCompletes, NeverCancelRunning and LosersEnd; `TaskKept` is
PinnedWhileDispatched and OutcomeAgrees; `WaitersReturn` is CloseStopsReceivers
and SelectReturns. The type invariant of a module is a conjunct of one of them;
those of the two channels are proved (section 5).

What the compiler runs show: for the functions of the instance, what the flow
checker accepts never reads an unassigned or moved local, and the emitted C,
stopped and resumed at its awaits or aborted there, has the events of the source
in the same order and uses no object that a suspension has destroyed. An address
that gets out is that of a heap local, unless a branch or a loop rebinds a
pointer. The parser ends on every edited file, with one exception named below.
The tree has the tokens of the file in order, also after a speculation that was
undone, and in a file without diagnostics the nesting that precedence asks for; a
file the grammar derives has no diagnostics. Each impl of an accepted program
rests on a finite derivation, whatever the order of its declarations; generic
derive templates are taken as given there. Everything that an emitted function, table or closure
names is emitted. Type checker, monomorphizer and code generator compute the
same representation for a reflected type.

Some properties carry a condition, which is itself a result. `NoLostWake` speaks
of behaviours in which no task was cancelled, and `OrderKept` of those in which no
`read_buffered` was; the two refuted runs show why. `ShutdownReleases` excepts the
resources that another thread had begun to close when the root was closed: `main`
returns, and nothing obliges that thread to run on. `NoDangling`, `FrameKeepsLive`
and `ParseEnds` each name one construct on which the code does otherwise
(`RebindsInside`, `NestsAwaits`, `StrayConst`); the table below has the
unconditional forms. `DescriptorConserved` speaks of those in which no notification was
refused: a refusal stores its code in `op->error`, and the finish then drops the
stream of a successful connect without closing it.

Runs that TLC must refute; the finding in `PROJECT.json` quotes the sentence of
the documentation:

| Run | Property | What the code does |
|---|---|---|
| `async_channel_stale` | NobodyStranded | a task cancelled between reading its source and pushing its node leaves a dead node, which consumes the only wake-up |
| `buffered_reader_order` | StreamOrder | a cancelled `read_buffered` with bytes in hand is overtaken by the next read |

### Other properties that do not hold

Each of these is a definition of its module that does not hold. Adding it to the
configuration of the component's passing run gives the counterexample
(`FE!ParseAlwaysEnds` under a name of its own in `MCCompile`).

| Definition | Documentation or intent | Code |
|---|---|---|
| `SyncChannel!CloseReleasesQueue` | a close releases the queued values | values queued at `channel_close` are still received |
| `TaskGroup!ExhaustedIsFinal` | an exhausted closed group is told from an open one | a closed group reports "exhausted" while a settled task is still to be queued |
| `Actor!StaleAfterJoin` | handles are stale after a join | a second join returns before the first has closed the owner |
| `AsyncOp!RootOutlivesCallback` | roots are released after the callback | a finish after a cancel drops the root before the handler ran |
| `AsyncOp!FinalErrorKept` | a final error of 0 returns the result | a refused notification overwrites the result of a success |
| `Compile!AddressesPromoted` | "Escape analysis is conservative. If unsure, promote." (`design.md:2311`) | an assignment to a pointer replaces its aliases (`escape.rs:430`) also when it is on one branch only |
| `Compile!SlotFits` | (none; the code generator reads the slots by index) | the collector numbers an await in the operand of another one first, the code generator last |
| `Frontend!ParseAlwaysEnds` | (none; recovery is meant to end) | the parameter list of a closure never gets past a `const` (`parser.rs:2443`) |
| `TcpListener!CancelKeepsConnection` | a cancelled accept gives up no connection | a cancelled accept closes the connection that it was given |

Five more in the runtime were met while reading and need other instances or
properties:

- Blocked senders and receivers of an async channel share one condition variable
  (`async.c:132`), and the one `pthread_cond_signal` of a released permit may
  pick a receiver. `NobodyStranded` fails with a permit holder, a sender thread
  and a receiver thread (`Tasks = {p1}`, `Threads = {s1, r1}`, no closers).
- A permit still sends after `close(sender)` (`async.c:301`, with a TODO), so
  that one receiver sees `ChannelClosed` and another gets a value later.
- A limit of zero means no limit (`resource.c:650`); `design.md:3250` says it
  means the default.
- Each cancel of a read or write closes its stream (`async.c:2687`): a second
  cancel of an operation on one half of a split stream gives back a second
  reference.
- A cancelled operation that nobody finishes keeps its root (`async.c:2634`);
  `proposal/done/dispatch-actor-io-runtime.md:622` says the handler releases it.

In the compiler the models met the following. The instances of `compile` and
`typeck` avoid the constructs in question. With `Family = "for_step"` and
`"default_break"`, `MCCompile` holds only functions of the first two kinds and
TLC refutes CheckedIsSafe and CompiledAgrees respectively.

- Flow checker: the step of a `for` is checked before the body, on the scopes of
  the loop's entry (`typeck/control_flow.rs:258`), so a step may read a local
  that a `continue` left unassigned, against `design.md:43`.
- Code generation: the `default` body of a switch is emitted behind the C switch
  (`codegen/stmt.rs:443`), so a `break` in it leaves the enclosing loop, against
  `design.md:1308`; the flag that selects it is a C local that does not survive
  an await in a case body.
- Code generation: arguments that need statements are evaluated before the
  others, against the left-to-right order of `design.md:1105`; the callee of a
  `defer` is evaluated at the exit of the scope, against `design.md:2284`; a
  resource moved into a temporary before an await in the same call is not
  released by an abort; a call with an erased argument emits its other arguments
  twice.
- Parser: `#elif` after `#else` is accepted, against `design.md:143`; `resource unsafe
  interface` is accepted; `x as T | y` is rejected although the grammar derives
  it; `await x?` groups differently from the grammar.
- Types: mangled names of callables are not injective (`types.rs:2313`,
  `design.md:534`); a type hole is bound without an occurs check.
- Impls: the outcome for marker impls depends on the order of declarations
  (`typeck/functions.rs:1503`, `design.md:1725`); the cache keeps a "no" that
  was only due to the cut of a cycle (`design.md:1631`); closures are matched by
  unification in one place and by equality in another; a concrete derive that
  was removed while pending may lose to a generic instance.
- Monomorphization: growth through impl bodies or aggregates is not reported
  (`typeck/functions.rs:2102`, `design.md:982`); the cycle check of layouts
  follows hidden state, the order of layouts does not.
- Reflection: a field of type `meta::RefRepr<X>` passes the checker and fails in
  code generation; a field `meta::Repr<Y>` of a type with a policy is expanded;
  the budget ends in an unknown type without a diagnostic; `as_ref_repr` and
  `into_repr` do not test visibility while `schema` does.

## 4. Bounds and fairness

Every bound is a CONSTANT, tested in a guard, or the size of a set of actors.

- Three receivers in `SyncChannel`: one sleeps, one was woken, one comes by and
  takes the value; fewer hide the stolen wake-up.
- Capacity 1 in `AsyncChannel` makes the one slot contested by the permit, the
  sender and the value; larger capacities are covered by the proofs. With two
  receiving tasks a wake-up leaves a second one parked on the same list.
- Two tasks, two workers and one select in `Task`: a late node and a regular
  wake-up meet, and the second worker can run a task while the first is still
  registering it. One source is awaited by both tasks.
- Two registrations of one task in `TaskGroup`: one may be under way while the
  task settles, the other after it, and a walk over them can be overtaken.
- Two messages per sender in `Actor` give an order to violate; a self-send is
  the only way the group can rise from one after a join began to wait.
- Three owners and a stack of depth 2 in `ResourceOwner`: root, child,
  grandchild or two siblings, which the collection of children and the moves
  need. The root takes two resources, one descriptor and two children, a scope
  one resource and one child. With two descriptors the root is full for the
  second, and so is a scope: registrations and moves are refused. A fourth owner,
  in a program without resources, is the child that finds no room. A descriptor
  limit of 0 in the scopes is no limit, as in the code.
- Two finishers and two notifiers in `AsyncOp`: each role against itself and
  against the cancel and the callback.
- Three accepts in `TcpListener`: one is cancelled late, one has the slot, one
  is next; two connections fill the slot and the queue.
- Three bytes, capacity 2 and lengths 0 to 3 in `BufferedReader`: an empty read,
  reads shorter and longer than the buffer and one that fills it; with two reads
  the callback of a cancelled one is under way while the next goes to the socket.
- An arm with two sources and an arm with one in `Select`: the first is re-armed
  at its second source while the other wins; two dispatch threads and the owner
  compete for the poll lock.
- In `MCCompile` a function is some declarations, one compound statement (if,
  while, for, switch, with bodies of up to two statements) and a tail: every
  pair of an exit and a scope it leaves occurs, in sync and async functions, with
  awaits in each position. `NestFns` put a switch and a block with deferred calls
  inside a loop.
- Files of about ten to twenty-five tokens and one edit in `MCCompile`: recovery is entered at
  every token of every construct; the alphabet of edits has the tokens at which
  lists and blocks end or go on, and those that open and close type arguments.
- Programs of up to four declarations out of groups that interact in `MCTypeck`,
  in every order, over a library in which types hold themselves behind pointers,
  by value, in arrays and with growing arguments. `MaxWork` and `MaxNesting` stop
  a model that would grow for ever; a program that reaches them violates
  `MonoClosed`.
- A chunk of 2 (the code has 16) and arrays of 0 to 7 elements in the
  reflection: none, a partial chunk, full chunks, and chunks of chunks.

The actors of these instances stop when their operations are used up, so the
configurations switch the deadlock check off; so do those of the compiler,
whose behaviours end with a verdict. What must not stop is said by liveness properties instead.

Fairness is weak fairness of the steps a thread takes once it is inside a call,
of the dispatch queue running its jobs, and of sources and timers firing: the
scheduler and libdispatch run what is runnable. Calls that a program may or may
not make (send, cancel, close, stop) have none, unless a property starts from
one of them. `Task` assumes that operations complete, since a task that awaits
an operation that never completes does not finish. `BufferedReader` assumes that
the peer closes in the end. `ResourceOwner` assumes only that `Main` runs on: the
root is closed by a handler at exit (`core.c:76`), after which the process may end
before another thread takes a step. `Select` assumes strong fairness of the steps of a
thread, because several threads compete for `poll_mutex`, and a mutex that is
released again and again is obtained in the end.

## 5. Proofs

TLAPS proves these for every value of the constants; the run named in the same
row shows the same formula on a small instance.

| Theorem | Module | Statement | Run |
|---|---|---|---|
| `DeliveryOrder` | `WaitProofs` | `ChannelSpec => []DeliveredInOrder` | `waits` |
| `SignalSuffices` | `WaitProofs` | `ChannelSpec => []NoLostSignal` | `waits` |
| `TypeCorrect` | `AsyncChannelProofs` | `Spec => []TypeOK` | (types only) |
| `CapacityTheorem` | `AsyncChannelProofs` | `Spec => []CapacityRespected` | (part of the refinement) |
| `WakeTheorem` | `AsyncChannelProofs` | `Spec => []NoLostWake` | `async_channel` |
| `ChannelRefinement` | `AsyncChannelProofs` | `Spec => RefinesBoundedChannel` | `async_channel` |
| `OneContinuationTheorem` | `TaskProofs` | `Spec => []OneContinuation` | `task` |
| `PinnedTheorem` | `TaskProofs` | `Spec => []PinnedWhileDispatched` | (part of the next) |
| `TaskKeptTheorem` | `TaskProofs` | `Spec => []TaskKept` | `task` |
| `GroupExactTheorem` | `TaskGroupProofs` | `Spec => []GroupExact` | `task_group` |
| `MessagesHandledTheorem` | `ActorProofs` | `Spec => []MessagesHandled` | `actor` |
| `ConsumedOnceTheorem` | `AsyncOpProofs` | `Spec => []ConsumedOnce` | `async_op` |
| `DescriptorTheorem` | `AsyncOpProofs` | `Spec => []DescriptorConserved` | `async_op` |
| `OneArmTheorem` | `WaitProofs` | `Spec => []OneArmWins` | `waits` |
| `ConnectionTheorem` | `TcpListenerProofs` | `Spec => []ConnectionKept` | `streams` |
| `BytesTheorem` | `BufferedReaderProofs` | `ReaderSpec => []BytesKept` | `streams` |

*The blocking channel.* `DeliveredInOrder` is inductive with the types: a send
appends to both the accepted values and the queue, a receive moves the head
(lemmas `AppendRight` and `ShiftHead`). `NoLostSignal` counts: while somebody
sleeps, there are at least as many woken receivers as queued values. A send adds
one of each; a receiver that was not woken can take a value, which only helps; a
woken receiver takes itself and a value. The set of receivers must be finite.

*The async channel.* `CapacityRespected` is not inductive: it says that
`reserved` is the number of permits held, and a poll that grants a permit is
sound only if the frame has none yet. `PermitPhase` says so, by relating the
permit of a task to the place where its frame and its run are. Releasing,
using and owner-closing a permit remove exactly one (`HeldAdd`, `HeldRemove`).
`InOrder` (received values followed by the queue are the sent ones while the
receiving half is open) completes `ChannelInv`. The refinement maps the history
of sends and receives and the set of permit holders to `BoundedChannel`; every
step of a channel operation is a step of the abstract channel and every step of
the scheduler is a stutter (`QuietSteps`). `WakeTheorem` counts, for any number of parked tasks: while a
task is parked on a list, the tasks of that kind on their way to the channel are
at least as many as the values, or free slots, they want. The inductive invariant
`WakeInv` adds where an active task may be (`Place`: running, in the hands of a
waker, about to register, or asleep) and that the lists hold only sleeping tasks of
their kind, once each (`Parked`), so that a node taken from a list always reaches a
task that polls again. The assumptions are that the capacity
is positive (`make` refuses zero with EINVAL), the actors are finitely many, and
an actor has one role.

*Tasks.* Three facts are inductive only together: `FlagCovers` (a queued job,
or a worker before the point where it clears the flag, implies `scheduled`),
`OneContinuation`, and `UnpinnedIsOver` (a task without root is finished and not
scheduled). Scheduling tests the flag and the state under the mutex of the task,
hence the second job is never made, and the root is dropped only by a step that
sees the task finished and unscheduled. Workers that have cleared the flag and
still register the task are outside `Owns`, as they must be: another worker may
already run it.

That the outcome of a task agrees with its future rests on `OutcomeInv`: a
future is running exactly while a worker polls it (`RunningIsPolled`, which
needs `OneContinuation`, or a second poll would find it running); whoever is
about to finish a task has seen its future settled, and a canceller that has not
finds a running poll that will see its request (`FinishersSettled`); a settled
future never changes, so the result recorded then stays right
(`ResultRecorded`).

*Task groups.* `GroupInv` has nine parts. `FinishersSettle` says that whoever
finishes a task has seen its future settled, so a finished task is not polled:
that is what a join relies on. `OneFinisher` keeps two threads from walking over
the registrations of one task, and with `Registered` (an added registration is
on the list of its task until that is published) it makes every registration
complete. `Flagged` relates the flag `settled` to what had settled at the close,
and `Exact` is the yielded sequence itself, which a completion extends by a new
element and a pop moves from one side to the other (`ExactComplete`, `ExactPop`).
`Shutdown` follows the cancels: a rejected registration is about to cancel its
task or has done so, and the owner that closed the group has every registered
task covered, on its list or in its hands. `Covered` is used because it lasts: a
request is cleared only by the poll that fails the future. The assumptions are
that the names of tasks, registrations and users differ, there is a task, and
one user at most owns the group and may shut it down.

*Actors.* The dispatch group counts exactly the accepted jobs that have not left
(`GroupCounts`, over a finite set of senders), and whoever waits for it has
closed the mailbox (`Drained`): a group that was drained stays empty. Hence no
job comes after a join. `Fresh` says that a message between the lock and the
queue is accepted and its send has not returned; `Accounted` that, unless a job
failed, an accepted message is handled or on its way; `Ordered` that handled
and queued messages come after those whose send had returned before.

*Asynchronous operations.* `OpInv` counts: the consumers of a result are at most
one, and none before the flag `finished` (`Consumed`); the boxes that notifiers
brought are with the operation, on their way, delivered or freed (`Boxes`). It
needs `Parking`, that a waiter is woken by one thread only, since a woken
finisher may finish. For the socket of a connect `DescInv` adds where each
thread may hold it (`Labelled`, `InCallback`), which error code goes with a
result (`Coded`), and that the places where it is sum to one (`Conserved`). The
threads are finitely many and each has one role.

*Select.* `OneArmWins` speaks of what was polled and cancelled by several threads;
the inductive invariant is about `poll_mutex`. A thread that polls holds it
(`Holding`). Until the select is decided and the mutex is free, the state of
every arm is a function of the holder (`OpenArms`); from then on (`Closed`, a
state that lasts) no arm runs and one at most is complete (`ClosedArms`), so
whoever cancels arms cancels none that is polled (`Cancelling`). `SelfState`
ties the outcome of the select to that of its arms. How far a poll gets is the
least source without an event, which exists by `LeastElement`. The lemmas take
`SelectAssumption` as a hypothesis; the theorem has it from the assumption
`SelectConstants` of `Select`.

*The listener.* A connection is in the queue, in a completed operation, carried by
a thread between two locks, set aside by a cancel, or at its end. `Located` gives
every accepted connection exactly one of these places, and says where it is once
in each: the queue has no connection twice, and a thread or an operation that has
one is the only one that has it. A step then moves one connection (`Found` says
what its present place excludes), and a close moves the whole queue. `ListenerInv`
adds what a step relies on: what a thread may carry at each label (`Jobs`), that an
operation in the slot or in the hands of a thread is not complete and is there
once (`OneCompletion`), and how far each cancel is (`Cancels`). `NoStrandedAccept`
and `WaitIsOwned` are inductive with these. The assumption is that the names of the
operations differ from those of the two other threads and from the empty slot.

*The buffered reader.* `Held` gives the bytes of each holder: a read, the callback
of a read, the buffer, a cancel, the task, and what failed reads dropped.
`Conserved` says that the bytes taken from the socket are a partition of
`1..next` among the holders and that no holder has a byte twice. Each action
takes new bytes from the socket (`Grow`), moves all bytes of one holder (`Move`),
some of them (`Split`), or divides them among two others (`Spread`). `ReadPhase`
and `TaskPhase` say which holders may have bytes at all: a cancelled or finished
read has none, only the callback of a plain read has bytes in its hands, and a
cancel's are put back before the task goes on. `Order` holds while no plain read
was cancelled. It says more than the property: what the task got, what a cancel
holds, what the read has, what its callback has and the buffer, in this order,
are the stream from its first byte on (`InLine`); once a read has failed the
stream is at its end and nothing is left to be delivered (`Drained`). The place
of the bytes of a cancel in front of the buffer is what `ciel_async_cancel`
restores. `OccursOnce` and `CountOne` turn the partition into the count of
`BytesConserved`.

Only model-checked are: liveness (fairness and ENABLED are outside the prover's
reach); the resource owners, whose cleanup stacks are filtered and reversed (operators that
recurse over a sequence); and the compiler, whose models recurse over programs and
types (recursive operators and induction over data are outside the prover's
reach). The invariants `SelectInv`, `GroupInv`, `ListenerInv`, `ReaderInv` and
`WakeInv` were model-checked before they were proved.
The provers used are Z3, Zenon and, for the temporal steps, LS4.

## 6. Not modelled

Inside the modelled parts of the runtime: failing allocations, the fairness
budget of the poll trampoline, result data, addresses and socket options, the
reuse of descriptor numbers by the kernel, a select inside an arm of a select. In
`BufferedReader` a callback always attaches, and a socket fails only once its
connection has ended.

Inside the modelled parts of the compiler:

- characters, spans, and the wording and number of diagnostics; a model knows
  whether something was reported;
- expressions without control flow (arithmetic, literals, comparisons, casts);
  they appear as calls;
- selectors and default bodies of interfaces, visibility of names outside
  reflection, ABI and `unsafe` of function types beyond their equality;
- symbolic representations of generic types (`typeck/meta_repr.rs:345`); arrays
  whose cost overflows, markers at the root of `as_ref_repr` and `schema` and root
  arrays of erased values.

Not modelled at all, each with its reason in `PROJECT.json`: name resolution
(tables built once), the rest of code generation (prototypes, thunks, tables of
C text), the build planner (files and processes), the language server (a loop
around the modelled front end), formatter and diagnostics (layout of text),
mutex and shared map (one lock), atomics (memory orders are outside TLA+'s
interleavings), blocking I/O (system calls), codecs, collections and mathematics
of the library (sequential data, out of reach of small instances), bindings.
