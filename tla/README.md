# A verification of the single-threaded async runtime in `src/tz448580`

The program is a small asynchronous runtime in C, after Tokio: a
current-thread executor, wakers, an epoll event loop ("Mio") and future
combinators. This directory holds TLA+ models of its parts, TLC configurations
that check them on small instances, and TLAPS proofs of the main safety
properties for every instance. `Runtime` puts the parts together: executor,
event loop, combinators and pipe futures, with the processes at the other ends
of the pipes.

## 1. The system

| Part | Source | State | Operations |
|---|---|---|---|
| Run queue | `src/executor.c` 15-121 | a ring buffer: `futures[]`, `size`, `head`, `tail` | `queue_create`, `queue_push`, `queue_pop`, `queue_destroy` |
| Executor | `src/executor.c` 128-245 | the queue, the counter `active`, `is_active` of each future | `executor_create`, `executor_spawn`, `executor_run`, `executor_destroy` |
| Wakers | `src/executor.c` 158-175 | none (a pair of pointers) | `waker_wake` |
| Mio | `src/mio.c` | the kernel's epoll set: descriptor -> future; `events[MAX_EVENTS]` | `mio_register`, `mio_unregister`, `mio_poll` |
| Combinators | `src/future_combinators.c` | `fut1_completed`, `which_completed`, saved results | the progress functions of `ThenFuture`, `JoinFuture`, `SelectFuture` |
| Example futures | `src/future_examples.c` | `read_so_far`, `written_so_far`, `n`, `stop_on_zero_byte`, the buffers | the progress functions of apply, pipe read, pipe write |
| Future base | `include/future.h` | `is_active`, `arg`, `ok`, `errcode` | the contract of `ProgressFn` |
| Error and debug helpers, tests | `src/err.c`, `include/debug.h`, `tests/` | none | |

How they interact: `executor_run()` pops a future and calls its `progress()`
with a waker. The future (a combinator calls its children in turn) reads or
writes a descriptor, calls `mio_register()` when that would block, or calls its
waker directly to yield. When the queue is empty the executor calls
`mio_poll()`, which waits in `epoll_wait()` and calls the waker of every
descriptor reported; a waker pushes its future back into the queue by
`executor_spawn()`. Everything runs in one thread; the concurrency is with the
kernel and the processes at the other ends of the pipes, which make
descriptors ready at any time, and among futures, which take turns.

`build/` is generated by CMake and is no part of the system.

### What makes each part correct

* Queue: it is a bounded FIFO, through wrap-arounds and with stale slots.
* Executor and wakers: `active` counts the active futures; a future is queued
  at most once; a finished one is never called; an unfinished one is never
  forgotten; `executor_run()` returns when all are done and not before.
* Mio: a registration that succeeded will wake its future.
* Combinators: each keeps the contract of `ProgressFn` towards its caller, and
  towards its children; its verdict and results are those of its children.
* Example futures: the bytes arrive whole and in order, however they are cut
  into pieces, and a future that cannot go on is woken when it can.
* The whole: the trees are futures as the executor expects them, the executor
  calls the trees as the combinators expect it, and what can end does.

### What makes it hard

Readiness arriving between a failed read and `epoll_ctl()`; several descriptors
of one future ready in one poll; wakes for a full queue; the same descriptor
used by two futures; a wake still queued when its future finishes; a
combinator whose state is spread over many calls, with its children pending,
completing and failing in any order; reads and writes cut into pieces by pipes
that fill, drain and close meanwhile; a wake for one leaf of a tree that calls
all its siblings too. `PROJECT.json` lists these hazards one by
one, each with its line and the properties aimed at it.

## 2. The modules

| Module | What it is |
|---|---|
| `FifoOps` | the queue's operations on its abstract value, a sequence of futures |
| `BoundedFifo` | abstract specification of the queue |
| `FutureQueue` | the ring buffer; refines `BoundedFifo` |
| `FutureQueueProofs` | proofs about `FutureQueue` |
| `TaskScope` | abstract specification of the executor: what `executor.h` promises |
| `Executor` | executor, wakers and Mio, composed; refines `TaskScope` |
| `MCExecutor` | its instances |
| `ExecutorProofs` | proofs about `Executor` |
| `FutureContract` | abstract specification of one future: the contract of `ProgressFn` |
| `Combinators` | trees of combinators; every node refines `FutureContract` |
| `MCCombinators` | its instances |
| `CombinatorsProofs`, `CombinatorsContractProofs` | proofs about `Combinators`: verdicts and results; the contract |
| `Runtime` | `Executor` and `Combinators` composed, with the example futures as leaves; refines both |
| `MCRuntime` | its instances |
| `RuntimeProofs` | proofs about `Runtime`: types, reads, wakes |
| `RuntimeRefinementProofs` | `Runtime` implements `Combinators`; the epoll set is clean |
| `RuntimeExecutorProofs` | `Runtime` implements `Executor`; where failures come from |
| `RuntimeWriteProofs` | what a write puts into its pipe |

### FutureQueue

The variables are the fields of `struct FutureQueue`, and `ret`, the result of
the last call. Slots are numbered from 0 and keep their pointer after a pop, as
in C. `QueuePush` and `QueuePop` are the functions; `WakerSearch` is the loop of
`waker_wake()`, which walks the buffer by itself. A capacity of 0 is legal and
makes a queue that refuses every push. `Contents` is the refinement mapping:
the live slots from `head` on. Since the ring buffer implements the FIFO,
`Executor` uses a sequence and the operators of `FifoOps` for it.

### Executor

| In the model | In the code |
|---|---|
| `pc` | where the thread is: in the client's code, at the head of the inner loop of `executor_run()`, in a progress function, in `epoll_wait()`, in the loop over its events |
| `queue`, `active` | `executor->queue` (by `FifoOps`), `executor->active` |
| `isActive` | the futures whose `is_active` is set |
| `finished` | those that have returned `FUTURE_COMPLETED` or `FUTURE_FAILURE` (history) |
| `fut` | the local variable of `executor_run()` |
| `woken`, `waits` | what the running call has arranged for: its own waker called; descriptors with a 0 from `mio_register()` |
| `registered` | the epoll set: `data.ptr` of each descriptor |
| `ready` | the kernel's readiness, level-triggered |
| `events` | the part of `mio->events` not handled yet |

A future is known by its contract only. While it runs it may do any number of
these: `Yield`, `Consume` (a read or write that uses up the readiness),
`MioRegister`, `MioUnregister`, `Spawn` of another future; then it returns.
Between any two of these steps the kernel may make a descriptor ready.
`ReturnPending` requires what future.h:22-25 does: the waker has been called, or
a registration has answered 0. `ReturnFinished` unregisters the future's
descriptors, as the pipe futures do (future_examples.c:48, 62), and only
happens in a call without a yield, as in `tests/hard_work_test.c`; the contract
does not say so, and `FinishAfterYield` is the other case (section 5).
`Users` says which futures may use which descriptors.

`Spawn` keeps to what the clients in `tests/` do: a future is spawned once.
`executor_spawn()` itself would queue an active future a second time.

`PollWait` reports everything ready, or `MaxEvents` of it. `PollFail` is
`epoll_wait() = -1`: the executor is destroyed and the process exits.

### Combinators

A combinator calls its children's progress functions, so a call of a root is
a walk through its tree. `stack` holds the calls in progress and `reply` what
the top of the stack has just got back; each action is the code between two
such calls (for example `ThenFut1Completes` is future_combinators.c:15-30: store
the flag, pass the result on, call `fut2`). `self[n]` has the combinator's own
fields under their names in C; `arg`, `ok` and `errcode` are those of the base
futures. There may be any number of trees, whose roots are `Roots`; one call of
one root is in progress at a time. The leaves pend, complete or fail as they
like; one that pends is `due` a waker call, one that has ended is not, and a
root is called when it is new or some leaf of its tree is due (`MayBeCalled`).
The result of a leaf names the leaf and its argument, so that a mixed-up value
shows. `arg` is `NULL` until a then hands a result on; what a client stores there
before the start matters to leaves only, and is `Given` in `Runtime`.

Two of the four blocks of `select_future_progress()` are dead code (the second
and the fourth): the first block either returns or sets `SELECT_FAILED_FUT1`.
`TypeOK` states that `SELECT_FAILED_FUT2` never arises.

### Runtime

The variables are those of `Executor` and `Combinators` and, for the leaves:

| In the model | In the code |
|---|---|
| `stream`, `got`, `closed` | the pipes: every byte ever put in, how many were taken out, whether the other end is closed |
| `nonblocking` | the descriptors with `O_NONBLOCK` |
| `so_far` | `read_so_far`, `written_so_far` |
| `size`, `stop_on_zero_byte` | the fields `n` and `stop_on_zero_byte`; a write with the flag lowers `n` in its first call (`AdjustSize`) |
| `buffer` | the bytes that `base.ok` points to: a read's buffer, the result of an apply, the argument of a write |
| `phase` | where the pipe future that runs is: in its loop (`"io"`), before `mio_register()` (`"register"`), before its return (`"pend"`) |

The two loops are cut at their system calls. `ReadSome` takes any number of
the bytes present, up to what is still wanted; `WriteSome` puts in any number
that fits; `WouldBlock` is the `EAGAIN`, which only a nonblocking descriptor
answers; then come `Register` (`set_nonblocking()` and `epoll_ctl()`) and
`Pend`. `ReadEof` and `Complete` unregister the descriptor and return; `ok` is
the buffer of a read (`ReadCompletes`) and the argument of a write
(`WriteCompletes`). The argument, `Text(n)`, is the result that a then has handed
on or, for a leaf that is no `fut2` of a then, the bytes `Given[n]` that the client
has stored in `base.arg`, as `tests/combined_test.c:51-57` does. `buffer[n]` holds the
bytes as they are when `n` completes: a function that works in place, such as
`capitalize()` of `tests/then_test.c`, changes them when only its successor still
looks at them. Between
any two of these steps the peers act: they write the next byte of `Source[fd]`,
close, or drain the pipe. `Ready` is what epoll reports for `EPOLLIN`, the one
event the code asks for: a read end with something in it or without a writer,
and never a write end.

`PopAndProgress` is the pop of `Executor` and the call of `Combinators` in one
step, and `BackTo` joins the return of a root to the end of the executor's
call. The other actions are those of the two modules, conjoined with what they
leave alone; `E` and `C` are the two instances, which also are the two
specifications that `Runtime` is shown to implement. `due`, the leaves that the
combinators count on, are the pipe futures that have pended, and nothing in
`Runtime` looks at it: that they really are woken is for the properties to say.

`OwnFds` is assumed: no two pipe futures share a descriptor (`ExecutorShared`
shows what happens otherwise). `RootOf`, the root of each node, is a parameter
and `TreesAssumption` ties it to the children, so that nothing recursive is
needed to say which root a leaf belongs to: a child has its parent's root, and
each node is in the tree of its root (there are no others in the program: a
future outside every spawned tree is never called).

## 3. The runs

`tlc -config <Run>.cfg <Module>.tla`: about two minutes for `Runtime`, seconds for the
others.

| Run | Specification and bounds | Properties | What it shows |
|---|---|---|---|
| `FutureQueue` | capacity 3, 3 futures | `QueueTypeOK`, `LiveSlotsAreFutures`, `TailFollowsSize`, `ImplementsFifo` | the ring buffer is a bounded FIFO |
| `ExecutorCore` | `EndlessWorkSpec`; 3 futures, 3 descriptors (a waits on two, b on one, c only yields), queue of 3, 2 events a poll | `TypeOK`, `ActiveCount`, `NoProgressAfterFinish`, `NoOrphan`, `RegisteredWakerIsKept`, `ReturnsWhenAllAreDone`, `QueuedGetsATurn` | no order of wakes, events and spawns loses or miscounts a future; endless yielders starve nobody in the queue |
| `ExecutorCareful` | `FairCarefulSpec`; the same, queue of 1 | `NoOrphan`, `SpawnedIsCompleted`, `ImplementsScope` | wakes that `mio_poll()` cannot queue come back with the next poll, and the executor keeps the promise of `executor.h` |
| `Combinators` | `FairSpec`; a tree of 6 combinators and 7 leaves | `TypeOK`, `ThenPassesResult`, `ThenVerdict`, `JoinVerdict`, `JoinSavesReturns`, `SelectVerdict`, `MeetsContract`, `RootsEnd` | contract, order, arguments, results and verdicts in every order of events |
| `Runtime` | `FairSpec`; see below | `TypeOK`, `ReadGetsTheBytes`, `WritePutsTheText`, `NoReaderSleeps`, `NoStaleRegistration`, `ImplementsExecutor`, `ImplementsCombinators`, `AllAreCompleted` | the composition: exact bytes, no lost wake, a clean epoll set, each half what the other assumes of it, and the end of all that can end |
| seven runs that end in a violation | section 5 | one each | where code and documentation differ |

Why the bounds are enough. The queue's actions depend on head, tail and size
modulo the capacity: with 3 slots every slot is first, middle and last, and the
proofs cover the other capacities. The executor's futures are symmetric but for
their descriptors, and the three kinds (two descriptors, one, none) are those
the code can tell apart; 3 ready descriptors exceed the 2 events of one poll,
so that some are left over (`MAX_EVENTS` is 64 in the code); a queue of 1 is
exceeded by two futures woken in one poll. The counter is bounded by the
number of futures, so that no state constraint is needed. In the tree every
kind of combinator has another one below it, and every leaf is on the path of
both a success and a failure.

The instance of `Runtime` has two roots: the chain of `tests/then_test.c` (read a,
apply b, write c until the zero byte) joined with a select of a read d and a
chain of two writes e and g; and a read f of its own. a reads 3 of the 4 bytes
`x 0 y y` that its peer has, from a pipe of 2, so that a read is cut into pieces, a
byte must stay behind, and end of file can come before, within or after it; c
writes `X 0` into a pipe of 1, so that it is blocked between its bytes and meets
the zero byte on resumption. When d fails, e writes a byte that the client has
given to it, and g what e hands on. Three read ends exceed the 2 events of a poll.
The queue has a slot for each root.

`ExecutorCareful` and the theorem `CarefulClientsLoseNothing` answer the question what a
client must do, given that `executor_spawn()` tells nobody that a push was
refused (section 5): never push when the queue is full. The executor's own
pushes, in `mio_poll()`, need no care, because the registration stays in the
epoll set and the descriptor stays ready.

### Fairness

* `Scheduling`: the executor's loop goes on (weak fairness of `ExecutorStep`: it
  is a sequential program, and `epoll_wait()` returns when something is ready),
  and a progress function returns (weak fairness of its two returns):
  cooperative tasks are required to.
* `FiniteWork` (not in `EndlessWorkSpec`): a future called again and again
  finishes some day, which is strong fairness since `ReturnFinished` is enabled
  only during its calls, and the other end of a pipe makes a descriptor ready
  some day, as the writer forked by `tests/utils.c` does.
* `Fairness` of `Combinators`: the same for the calls and the leaves of a tree.
* `FairSpec` of `Runtime`: the thread runs, and each peer goes on until it has
  closed its end or drained the pipe, as the writer of `tests/utils.c` does. No
  fairness is asked of a single future: that its work is finite, an assumption
  in `Executor` and `Combinators`, comes out of its loop and its peer here.
  `AllAreCompleted` lets a root hang for two reasons only (`MayHang`): a stuck
  select and a blocked write (section 5). With `EPOLLOUT` asked for, that is with
  write ends that have room in `Ready`, `NoWriterSleeps` holds and the second
  reason can be dropped.

Nothing is assumed of `Yield`, `Spawn`, `MioRegister`, `EnterRun`, `Destroy` or any
other step of the client.

### Mutants

Above many definitions stands a variant named "Mutant of ..." with a bug that
could have been made there (a test dropped, a counter not lowered, the wrong
child called, the queue used as a stack). `PROJECT.json` pairs each property of a
passing run with one that violates it.

## 4. What is proved

`FutureQueueProofs`, for every capacity (0 included) and set of futures, from
`CapacityAssumption` and `NullAssumption`:

| Theorem | Says |
|---|---|
| `QueueTypeCorrect`, `TailIsRedundant`, `PoppedIsAFuture` | the three invariants of the run |
| `RingBufferIsFifo` | `QueueSpec => ImplementsFifo`, the whole refinement |

The three invariants are inductive only together (`QueueInv`): a push leaves
live slots live only if `tail` is not one of them, which is `TailFollowsSize`.
The arithmetic of the wrap-around is in the lemmas `LiveSlot`, `SlotsDiffer` and
`NextSlotWraps`, which replace `%` by a comparison; `StoreAppends` and the lemmas
after it say what a store and a pop do to `Contents`.

`ExecutorProofs`, for every set of futures and descriptors, any capacity and
any `MaxEvents`, from the assumptions of the module `Executor`:

| Theorem | Says | Further assumptions |
|---|---|---|
| `TypeCorrect` | `TypeOK` | |
| `CountsActive` | `ActiveCount` | |
| `FinishedStaysFinished` | `NoProgressAfterFinish` | |
| `BlocksUntilAllAreDone` | `ReturnsWhenAllAreDone` | |
| `ExecutorIsTaskScope` | the safety half of `ImplementsScope` | |
| `RegistrationIsKept` | `RegisteredWakerIsKept` | `PrivateFds` |
| `CarefulClientsLoseNothing` | `CarefulSpec => []NoOrphan` | `PrivateFds` |
| `AmpleQueueLosesNothing` | `Spec => []NoOrphan` | `PrivateFds`, a slot for every future |

`PrivateFds`: no two futures use one descriptor. Without it
`RegisteredWakerIsKept` is false (section 5).

The inductive invariant is `IInv`. `ActiveCount` alone does not survive
`Finish`, which lowers the counter: the future must be active (`CallInv`). It is,
because it was queued, and only active futures are (`QueuedInv`); they stay so
until they finish, because a future is queued at most once (the search in
`waker_wake()`) and the running one is not in the queue unless it has yielded.
Wakes come from registrations and pending events, which name active futures
only (`WakersInv`). `EndedInv` says that finished futures are not active, and
`NoProgressAfterFinish` follows. Each action has its lemma (`SpawnInv`,
`YieldInv`, ...), collected in `StepInv`.

For `NoOrphan` the invariant is extended by what `mio_register()` has promised in
the current call (`WaitsInv`) and by the fact that a yield has put its future
into the queue (`YieldedInv`, which needs that no push was refused): together
with the guard of `ReturnPending` they show that a pending future is queued or
registered. `AmpleQueueLosesNothing` then follows from `QueueFitsSet`: a queue
without repetitions is never longer than the set of futures, so with a slot for
each every client is careful.

`CombinatorsProofs`, for every forest of any size and shape, from
`TreeAssumption`:

| Theorem | Says |
|---|---|
| `TypeCorrect` | `TypeOK` |
| `EndedIsNotCalled` | no future is being called once it has ended, the first half of `MeetsContract` |
| `ThenPasses`, `ThenEnds` | `ThenPassesResult`, `ThenVerdict` |
| `JoinEnds`, `JoinSaves` | `JoinVerdict`, `JoinSavesReturns` |
| `SelectEnds` | `SelectVerdict` |

The verdicts speak of a node at rest and are not inductive: a child returns one
step before its parent learns of it. The invariant `IInv` says for every node
that the end of a child is on record in its fields or on its way in `reply`
(`ThenInv`, `JoinInv`, `SelectInv`), that the calls in progress are a path without
repetitions (`StackInv`), that a reply is the status of a child of the node that
runs (`ReplyInv`), and that nothing that has ended is being called (`EndedInv`).
Every action ends with a call or a return, and `CallStep` and `ReturnStep` say
once what these do to the path, to the reply and to the other nodes. That no
two nodes have a child in common (`OneParent`) keeps a step of one combinator
from the records of another.

`CombinatorsContractProofs`, from the same assumption:

| Theorem | Says |
|---|---|
| `MeetsContractHolds` | `MeetsContract`: every node of every forest implements `FutureContract` |
| `IdleLeavesNoWaker` | below a future that has ended, or is new and not in a call, no leaf is due |

`MeetsContract` relates a node to the leaves of its subtree, which may be any
number of levels down. `Subtree` is a recursive function, and the induction over
the tree comes from the last clause of `TreeAssumption`: every set of
combinators has a member whose children are both outside. The code justifies
it, since `then_future_create()` and its like take the children they are given
and never change them: the oldest of any set of combinators has older children.
Since forests may be infinite it is stated of sets and not by numbering the
nodes; TLC checks it on every instance. `FromTheLeaves` is the induction it
allows: a set of nodes that holds the leaves, and each node whose children it
holds, holds all. `SubtreeEquation` shows from it that the recursion has a solution,
`SubtreeIsLeast` that a subtree is the least set that holds a node and the children of
its members, and `SubtreesApart` that two nodes have nothing below them in common
unless one is below the other.

The invariant added to `IInv` is `WaitInv`: an idle node that has answered
`FUTURE_PENDING` has a leaf that is due, or a stuck select, below it (`WakeInv`),
and a node that is new or has ended has no leaf due below it (`DueInv`). A wake
that the contract counts on may be taken away only by a call that passes through
the node itself: nothing is in call below a node that is not
(`NothingBelowInCall`), and the leaf that returns is below nobody else
(`SubtreesApart`). The rest is one lemma for each kind of combinator (`ThenIs`,
`SelectIs`, `JoinIs`): one that answers `FUTURE_PENDING` has a child that is
pending, or is stuck, and one that ends has none that is.

`RuntimeProofs`, for every forest, all sizes, capacities and pipes, from the
assumptions of `Runtime`:

| Theorem | Says |
|---|---|
| `ReadIsExact` | `ReadGetsTheBytes` |
| `ReadersAreWoken` | `NoReaderSleeps` |
| `TypeCorrect` | `TypeOK` |

Each has its own inductive invariant. For the bytes it is `ReadInv`: the stream
is a beginning of the source, what was taken out of the pipe is what `so_far`
counts, and it lies in the front of the buffer; `OwnFds` keeps other futures
from the pipe. For the wakes it is `SleepInv`: a leaf that is due is in the
epoll set under its own root, and so is one between `mio_register()` and its
return (`EpollInv`); the root is the right one because all calls in progress are
in the tree of the future that the executor has called (`CallInv`). For the
types it is `BoundsInv`: a write only shortens its `n` while it has written
nothing.

`RuntimeRefinementProofs`, from the assumptions of `Runtime` and nothing else:

| Theorem | Says |
|---|---|
| `DrivesTheTrees` | `ImplementsCombinators`: each step of the runtime is a step of `Combinators` or a stutter |
| `NothingStaleIsRegistered` | `NoStaleRegistration` |
| `RunsKeepTheContract` | `MeetsContract` in the runtime, with pipe futures for leaves |

The two halves need each other. That a call of a root is one that `Combinators`
allows (the root is new, or a leaf of it is due, and it has not ended) is known
because the executor has it from a wake, and the wake from a registration that
is not stale (`StaleInv`: a descriptor is in the epoll set only for a leaf that is
due or about to be). That the executor's own invariant `X!IInv` holds, in turn,
is known because a root that ends has no leaf due (`IdleLeavesNoWaker`) and so no
registration left. Hence one invariant, `Inv`: what is proved of the two parts
(`TreeInv`, `X!IInv`, `X!WaitsInv`), the three invariants of `RuntimeProofs`, `StaleInv`
and `CallersInv`, which says that whoever is in the queue or among the events
may be called. `P` and `X` are the proofs of the parts, instantiated with the
variables of the runtime: their lemmas are cited for the steps that the
composition takes over. With the refinement, every theorem of `CombinatorsProofs` and
`CombinatorsContractProofs` is one about the runtime.

`RuntimeExecutorProofs`:

| Theorem | Says | Further assumptions |
|---|---|---|
| `DrivesTheExecutor` | `ImplementsExecutor` | `[]NothingStuck` |
| `OnlyTheFallibleFail` | a failure goes back to a read, through thens and joins only | |
| `SafeSelectsNeverGetStuck` | `Spec => []NothingStuck` | `SelectsAreSafe` |
| `SafeForestsDriveTheExecutor` | `ImplementsExecutor` | `SelectsAreSafe` |
| `RunsCountRight` | `ActiveCount`, `NoProgressAfterFinish` and `RegisteredWakerIsKept` of the executor | |
| `RunsAreTaskScopes` | `ReturnsWhenAllAreDone` and the safety half of `ImplementsScope` | |
| `AmpleQueueForgetsNoRoot` | `NoOrphan` of the executor | `[]NothingStuck`, a slot for every root |

`ReturnPending` of `Executor` asks for a wake or a registration made in the same
call. A root keeps to that because a wake for one leaf makes the combinators
call all their pending children again, down to leaves that register anew:
`PendsInv` follows the answer `FUTURE_PENDING` from the leaf that gave it, over
combinators whose other child still has its turn, up to the root. There is one
exception, and it is a finding of the proof: a select whose children have both
failed answers `FUTURE_PENDING` with no registration (section 5), which is not a
step of `Executor` unless another leaf of the tree has registered in that call.
So the refinement fails in a forest in which that happens, and `NothingStuck`
rules it out. `SelectsAreSafe` is a condition that can be read off the forest: `Fallible` is the least set with all reads, and the thens
and joins above its members, and each select has a child outside it. The
instance of the run meets it. What the executor promises its client does not
depend on it: `RunsCountRight` and `RunsAreTaskScopes` come from `Inv` and hold of
every forest.

`RuntimeWriteProofs`:

| Theorem | Says | Further assumptions |
|---|---|---|
| `WriteIsExact` | `WritePutsTheText` | `[]TextsSuffice` |

`TextsSuffice` is a duty of the client: the argument with which a write is called
has its `n` bytes, or, for a write that stops there, a zero byte (the code reads
past the end of a shorter one, and nothing is said of that). It holds in the
run. An argument may come from the client or from any future that a then has put
before the write, another write included. The invariant `TextInv` has two parts.
`MadeInv`: results, and the arguments made of them, point to buffers of leaves that have completed, so that nobody
changes a text between two calls of its write; it needs `IInv` of the combinators.
`WriteInv`: the pipe holds the first `so_far` bytes of the text, and `size`, once
adjusted, is the place of the first zero byte or `Size[n]` (`IsStringSize`;
`StringSizeIs` proves that of the loop that looks for the byte); and a write that
has completed has its text in `buffer`, the argument of the next.

`TextsSuffice`, `NothingStuck` and the conjuncts of the invariants added last
(`StaleInv`, `CallersInv`, `TextInv`, `OnlyFallibleFail`) were checked by TLC on the
instance of `Runtime` as well: 144291 states.

Only model-checked: liveness (`SpawnedIsCompleted`, `QueuedGetsATurn`, `RootsEnd`,
`AllAreCompleted`, the liveness half of `ImplementsScope`), which the prover cannot
handle under fairness. Every invariant and every other action property of a
passing run is stated by a theorem, under the further assumptions in the tables
above where there are any.

## 5. Where code and documentation differ

Each has a run that ends in a violation, on the smallest instance that shows it.

| Run | Property | The difference |
|---|---|---|
| `ExecutorFull` | `SpawnedIsCompleted` | executor.c:194-197: a push refused by a full queue is ignored after the future was counted as active; `executor_run()` never returns. executor.h:25 promises completion. |
| `ExecutorShared` | `RegisteredWakerIsKept` | mio.c:87-90: `EEXIST` answers 0 and drops the second future's waker. mio.h:23 promises that it is invoked. |
| `ExecutorLateWake` | `NoProgressAfterFinish` | executor.c:217: a future that wakes itself and finishes in the same call is called again. future.h:27 rules that out. |
| `CombinatorsSelectBoth` | `SelectRunsBoth` | `fut2` is not called while `fut1` is pending; basic_select_test.c:23 wants both to work concurrently. |
| `CombinatorsSelectFails` | `SelectFailsWithBoth` | both failed, and the select stays pending for ever; future_combinators.h:68 wants the error propagated. |
| `RuntimeWrite` | `NoWriterSleeps` | future_examples.c:112: a write that would block asks for `EPOLLIN`, which a write end never gets; the comment above says "watch for writeability". |
| `RuntimeBlocking` | `WaitsInPollOnly` | mio.c:76: `O_NONBLOCK` is set after the first `EAGAIN` only, so that a blocking descriptor stops the thread in `read()` while another future is queued. executor.h:13-14 says that it waits with `mio_poll()`. |

The instance of `ExecutorShared` also violates `NoOrphan`, for another reason:
`mio_unregister()` (mio.c:101) removes the entry of a descriptor whoever has
registered it, so that of two futures on one descriptor the one that ends takes
the other's registration with it. All else here is about futures with descriptors
of their own (`PrivateFds`, `OwnFds`).

Two more were seen in the code and have no run, since a single assignment (or
its absence) shows them: `result.fut1.errcode` and `result.fut2.errcode` of a join
are never set (future_combinators.h:38-39 says they are saved), and a select that
completes after a failure of `fut1` keeps the errcode of that failure.

`MeetsContract`, `RootsEnd` and `AllAreCompleted` except exactly the difference of
`CombinatorsSelectFails` (`Stuck`): a select whose children have both failed, and
the combinators above it.

## 6. What is not modelled, and the plan

Not modelled: allocation failures at start-up (the process exits), logging,
`err.c`, freeing of memory. Of the system calls: errors of `read()` and `write()`
other than `EAGAIN` (the loops ignore them and go round for ever, or `SIGPIPE` ends
the process), failures of `epoll_ctl()` other than `EEXIST` and `ENOENT`, whose
results the futures ignore; and a `write()` that answers 0 (future_examples.c:103-106,
a failure with `PIPE_FUTURE_ERR_EOF`): of a pipe, and for a positive number of bytes,
it never does, so the branch is dead while the descriptor is a pipe.
`OnlyTheFallibleFail` and what follows from it (`SafeSelectsNeverGetStuck`,
`SafeForestsDriveTheExecutor`) rest on that: with a descriptor of another kind a
write would count as `Fallible`. Of the clients: buffers that two futures use at
the same time, descriptors shared within a tree,
and futures spawned twice. The hazards without a property in `PROJECT.json` say
for each of these why.

Done: the executor with its queue and event loop, the combinators, their
composition with the example futures, proofs about each of them, and both
refinements of the composition. What is left of the plan is the refinement of
`Executor` with the ring buffer in place of the sequence. `FutureQueue` refines
the FIFO that the sequence is (`RingBufferIsFifo`), so nothing is expected of it but
the composition itself.
