# A formal model of QuarkTS++

QuarkTS++ is a small operating system for bare-metal applications: a
run-to-completion scheduler with prioritized tasks, the events that make tasks
ready, and a set of services on top (queues, timers, state machines, memory
pools, a command line, input watchers, coroutines). The code is in
`src/src/*.cpp` and `src/src/include/*.hpp`, its documentation in
`src/doc/pages/*.dox`.

This directory holds TLA+ modules that model it, TLC configurations that
check them on small instances, and TLAPS proofs of the theorems that hold for
every instance. `PROJECT.json` maps every definition to the lines it models.

Contents: 1 the system, 2 what is hard about it, 3 the modules, 4 the runs and
their bounds, 5 fairness, 6 the proofs, 7 where code and documents disagree,
8 what is not modelled, 9 the plan.

To run: `tlc -config X.cfg M` for a run listed in section 4 (module `M`,
configuration `X.cfg`), `tlapm M.tla` for the proofs, `M` being a module whose
name ends in `Proofs`.

## 1. The system

### Components, their state and their operations

| component | state | operations | what makes it correct |
|---|---|---|---|
| kernel `core` (kernel.cpp) | `waitingList`, `suspendedList`, `readyList[]`, `priorityQueue`, `nSpreader`, `currentTask`, `yieldTask`, flags | `add`, `remove`, `run`, `notify`, spread `notify`, `eventFlags*`, `yieldToTask`, `schedulerRelease` | no task is lost or linked twice; dispatch by precedence; every event is served with its data; `run()` ends when asked |
| task (task.cpp) | priority, state bits, trigger, iterations, timer, notification counter, attached queue, event flags | setters, `deadLineReached`, `queueCheckEvents`, `attachQueue` | iterations counted exactly; events seen in their order of precedence |
| queue (queue.cpp) | storage, head/tail/writer/reader pointers, two counters | `setup`, `reset`, `send`, `receive`, `removeFront`, `peek` | a bounded deque: nothing lost, reordered, repeated or overwritten |
| notification queue `prioQueue` (prioqueue.cpp) | `stack[]`, `index` | `insert`, `get`, `cleanUp`, `clearIndex` | highest priority first, then arrival order; nothing lost |
| timer and clock (timer.cpp, clock.cpp) | tick; start time and interval | `set`, `reload`, `disarm`, `expired`, `elapsed`, `remaining`, `reloadIfExpired` | exact across the wrap of the tick |
| state machine (fsm.cpp) | `current`, `next`, `lastRunningChild` per state; signal queue, `signalNot`, timeouts | `run`, `sendSignal`, `timeoutSet`, `timeoutStop`, ... | entries and exits paired and nested; history honoured; accepted signals delivered once, in order |
| signal publisher (fsm.cpp) | subscription table | `subscribe`, `unsubscribe`, publication | the table is the relation the calls built |
| list (list.cpp) | head, tail, size; links inside the nodes | insert, remove, move, swap, sort, iterate | the links are a sequence, a node is in one list |
| memory pool (memory.cpp) | block headers, free list, free bytes | allocate, free | blocks disjoint, free neighbours merged, bytes add up |
| byte buffer (bytebuffer.cpp) | ring of bytes | put, get, peek, read | a bounded byte queue |
| response handler (response.cpp) | pattern, buffer, counters, flag | `received` (handler), `get` (task) | a match is reported once, a late answer never as a timely one |
| command line (cli.cpp) | input buffer, ready flag, subscribers | `isrHandler` (handler), `run` (task) | a line is parsed once, whole |
| input watcher (input.cpp) | per-channel state and timers | `watch` | debounced events, once each |
| coroutine (coroutine.cpp) | instruction position, semaphores, timeouts | segments, `semWait`, `delay`, `waitUntil` | resumes where it stopped; a semaphore count is conserved |
| critical sections (critical.cpp) | nesting counter, saved flags | enter, exit | the outermost exit restores |
| util, logger, helpers, configuration, examples | none | text and number conversion, output, compile-time definitions | - |

### How they interact

`core::run()` repeats one cycle. `checkIfReady()` extracts at most one queued
notification, then takes every task off the waiting list and puts it into the
ready list of its priority (it has an event), into the suspended list (it has
none) or nowhere (its removal was requested). `dispatch()` serves the ready
lists from the highest level; a served task goes back to the waiting list.
The suspended tasks are then appended to it, and it is sorted by task
identifier. When no task was ready the idle task runs.

A task's events come from its `timer`, from the `queue` attached to it, from
its notification counter, from its event flags and from the kernel's
`prioQueue`. State machines, command lines and input watchers run inside the
callbacks of tasks; a state machine owns a `queue` for its signals and `timer`s
for its timeouts.

There is one thread, which runs kernel and callbacks, and any number of
interrupt handlers. Callbacks run to completion; a handler runs between any two
memory accesses of the thread unless interrupts are masked. `core::notify()`,
`queue::send()`, `sendSignal()`, `isrHandler()` and `received()` are called
from handlers. `queue` masks interrupts around every operation, `prioQueue`
around `get()` and `cleanUp()` but not around `insert()`, the state machine's
exclusion variable is not protected at all.

## 2. What is hard to test

`PROJECT.json` lists 40 hazards with their lines. They fall into these groups:

* **Handlers between two steps.** `insert()` of the notification queue; the peek,
  callback and removal of a receiver task; `timeoutStop()`, which rotates the signal
  queue; the exclusion variable of a state machine; the four writes that begin a request
  for a response; the three that release the input buffer of a command line, and the
  four in which a task raises a command; entering a critical section.
* **State read early and used late.** The one variable that carries the data
  of a queued notification from the extraction to the launch; the ready list
  chosen at scan time; the queue the dispatcher uses after the callback; the
  value shared by input channels of one pin.
* **Order that many cycles build up.** Suspended and served tasks are put back
  out of order; only the sort at the end of the cycle restores precedence.
  Identifiers are reused after removals.
* **Two structures kept in step.** The two chains of links of a list; the rows of the
  publisher's two tables; block headers, free list and free bytes of a pool.
* **Something must happen.** A notified task runs although others keep being notified; a
  queued notification reaches a sleeping task unless higher ones starve it; the items of
  an attached queue are served; a release request ends `run()`; a call of a state
  machine's `run()` returns; a request with a timeout ends; a line is taken.
* **Limits.** A ring of one slot, a full notification queue, a full signal
  queue, full tables, an area too small for one more header, the wrap of the
  tick and of readings, the nesting depth of states, iteration counts.
* **History kept for long.** `lastRunningChild` of each state, the label of a
  coroutine, the zone of an input channel.

## 3. The modules

| module | models | its shape |
|---|---|---|
| `Deque` | what a queue promises | a bounded sequence |
| `Queue` | queue.cpp | the ring: pointers are slot indices, one action per operation (each runs in one critical section) |
| `QueueReceiver` | the kernel serving an attached queue (kernel.cpp, task.cpp) | `Queue` composed with the four steps check, fill, callback, remove, and with handlers that post between them |
| `PriorityFifo` | what queued notifications promise | the pending ones in arrival order |
| `PrioQueue` | the operations of prioqueue.cpp | functions of the queue object, used by the next two |
| `NotificationQueue` | the queue in use | `insert()` split at its loads and stores, against handlers |
| `Scheduler` | kernel.cpp and the task fields it uses | below |
| `ListSequences`, `List` | what a list promises; list.cpp, list.hpp | links inside the nodes, and an iterator whose body takes nodes out |
| `MemoryPool` | memory.cpp | headers at their addresses, a free list through them |
| `Critical` | critical.cpp | a task and a handler that interrupts it, one access per step |
| `Coroutine` | coroutine.hpp, coroutine.cpp | routines are sequences of statements, one statement per step |
| `ByteBuffer` | bytebuffer.cpp | indices that wrap beside an area |
| `Timer` | timer.cpp, clock.cpp | a `W`-valued tick that wraps, `age` as a stopwatch beside it |
| `StateMachine` | the engine of fsm.cpp | below |
| `SignalDelivery` | signals and timeouts of fsm.cpp | below |
| `Publisher` | the signal publisher of fsm.cpp | its two tables, and the relation the calls promised |
| `Response` | response.cpp | the task's writes against the handler's characters |
| `CommandLine` | cli.cpp | the handler fills the buffer, the task parses and releases it |
| `Text` | util.cpp, the argument getters of cli.cpp | conversions as functions on sequences of characters |
| `Input` | input.cpp, input.hpp | one step per `watch()`, which tells each channel's events |
| `QueueProofs` (ring, receiver, notifications), `ListProofs`, `ResourceProofs` (critical sections, memory pool, coroutines), `SchedulerProofs` (the lists), `DispatchProofs` (what is launched), `StateMachineProofs`, `DeliveryProofs`, `ServiceProofs` (timer, response, publisher, input, command line) | - | proofs |
| `MC...` | - | the constants of the runs |

**Applications.** What the library does depends on the program above it: which
services it calls, with which priorities, whether a handler posts at the front. Those
choices are fixed when a program is built, so they are a record `app` (`chart` for a
state machine, `program` for coroutines, `conf` for inputs, `use` for notifications)
that `Init` picks from a CONSTANT set. A property that only some programs are promised
says so in its premise (`Orderly`, `Uniform`, `~Mixed`, `"spread" \notin Uses`), and
one run checks all of them. The premise is always what the code needs and is named in
the comment of the property; section 7 says what happens without it.

**One run, many components.** `MCResources` and `MCServices` check components that do
not interact. Their first state chooses one (`component`), which takes all the steps;
the variables of the others keep an initial value. They are
EXTENDed, so that what the run checks is the very definition a theorem names; only
`Text`, about which nothing is proved, is an instance. A property is then evaluated in
the behaviours of other components too, where the state of its own is an initial one (for
the walk of a list, one in the middle of a list of one node). Modules EXTENDed
together share one name space, hence `DeliveryNext`, `NotifySpec`, `CoInit` and the
like. The states of such a run are the sum, not the product, of the components' states.

**Queue and QueueReceiver.** `reader` is the slot before the front, `writer` the next
free one, as in the code; `res` is what the call returned. `Peek` returns the slot,
because the kernel keeps that address while the callback runs (`eventData`).
`AttachQueue` is the one call of the setup phase: the queue gets its slots and the task
its trigger. `first` is what `checkIfReady()` asks before the queue: a queued
notification, sleep, the deadline; `Elsewhere` lets it change until the check.
`FinishDispatch` is blocked when the callback has detached the queue: the code
dereferences a null pointer there.

**PrioQueue and NotificationQueue.** `index` is -1 when empty. `Chosen` looks
beyond `index` up to the first null cell and `clearIndex` leaves the last cell
filled, both as in the code. A store outside the array changes no cell. `cleanUp()`
is one step per cell of its loop, with interrupts off; `insert()` one per load and store.

**Scheduler.** `pc` is the place in `run()`: `get` (the extraction), `scan` (one step
per task of the loop in `checkIfReady()`), `dispatch` (one step per launch), `call` (a
callback runs), `gather` (the suspended tasks are put back), `idle`, `loop`,
`released`. `Kernel` is the thread; `Calls` are what handlers do at any step and
callbacks do in `call` and `idle`. `InCallback` is the guard of the calls only the
thread makes. The fields of a task that the kernel decides on are a record per task;
`due` is the deadline of its timer (module `Timer` says when that is), `queue` is
`queueCheckEvents()` (module `QueueReceiver` says when that is). `MaxIterations` is
the largest count a program asks for; `Periodic`, the least integer of the type, never
counts down to it. `claim` (the data each task was notified with last) and `owed` (the
iterations asked for and left) are history variables for the properties. The
notification queue is used through its functions, a call being one step; the
interleavings inside `insert()` are in `NotificationQueue`. `Add` gives the fields and the
identifier first and asks the waiting list (`Enter`) then, as the code does: a task that
waits is refused, and a task that a ready or suspended list holds is linked a second time,
which cuts that list at the task. What `run()` does on such lists is not modelled: the place
is then `relinked`, and `OneListEach` says that this call does it and no other.

`GlobalState`, `State` and `HasPendingNotifications` are the queries of the same name.

**List.** `heap` is all the links of all nodes and lists, as the code leaves
them after each call; operators named as the methods map one heap to the next,
in the order of the method's assignments. `ListsAreSequences` compares: the
nodes met forward from `head` are those met backward from `tail`, as many as `size`,
each in that list by its container pointer, and for each call the heap it leaves
is the sequence `ListSequences` says. `sort` is the bubble sort of the
code; what it promises (`StablySorted`: a rearrangement in order that keeps equals in
theirs) is defined without it. A walk is the iterator: `current` was left, `iter` is
read already. `insert` refuses only a node of the same list: one that another list holds is
accepted, its container changes, and the other list then runs through its first nodes into
this one (`Tears`, `RunsInto`). From then on (`torn`) no chain mirrors the other, and only a
loop that is under way goes on.

**MemoryPool.** The addresses are numbers, `header` the headers in use. The
first fit, the split, the search for the neighbours and the two merges are as in the
code; sizes are numbers modulo `SIZE_MAX + 1`, `BLOCK_ALLOCATED_BIT` their top bit, with
which a block in use is marked. `live` is what the application holds. `PoolSound` says
that blocks lie side by side in address order with nothing between them, that the free
ones are the free list, in that order and no two adjacent, that the counter is their
sum, and that what was handed out is aligned, disjoint and clear of every header.

**Critical.** `hw` is the processor's interrupt flag. `Enter`, `Disable`, `Store`,
`Bump` and those of the exit are single accesses; a handler may come in wherever `hw` is
on, nests scopes of its own and returns.

**Coroutine.** A label is the place of a statement. `Save` is the first pass of
a blocking statement, which leaves before any condition is looked at, `Resume` the
pass that enters by the label; each statement that does not block is an action with its
name. `try_restart`, `try_suspend` and `try_resume` are calls of other tasks on a
handle. `waited` and `delaying` (the delay the last wait of a routine is, if it is one)
are history variables. For `WaitsHold`, what a routine owns is read off its program
(`Owns`): what it took before the place where it stands and has not given back. Only
programs that give what they own, and note no position while they own something, are
promised anything (`Balanced`).

**StateMachine.** One step is one call of a state's callback (`SIGNAL_ENTRY`,
`SIGNAL_EXIT`, `SIGNAL_START`, or the signal in hand); what it answers is
chosen nondeterministically. The transition table is one more way to answer
with a transition and adds no behaviour. The levels and loops of the code that
climb to the least common ancestor are sets of states closed under containment
(`Up`): `exits` is what `exitUpToLCA()` still has to exit, `trace` what is still
to be entered. `active` and `leaf` are history variables.

**SignalDelivery.** The queue is a sequence here, which is what the theorem
about `Queue` allows, and each call on it is one step. The exclusion variable
is read, emptied and written in steps of their own. `timeoutStop()` is the
loop it is: receive, compare, send back. User signals carry their number as
data, so that order and repetition are visible. `Waiting` is the sequence of all that
waits, wherever it does: what `timeoutStop()` holds, the queue, the exclusion variable.

**Publisher.** `psSignals` and `psSubs` are the tables. `subscribed` is what the calls
that returned true promised, `lastSend` the last publication and who was told.

**Response.** `received()` is split at its writes because the handler reads what it
writes: pattern, length, count, flag. The pattern is copied as `util::strcpy` does, to the
first NUL or the end of the buffer, while the length is counted or given apart
(`WhollyCopied` says whether the two fit). Behind the copy the handler compares with the
terminator, with what the buffer held before and, behind the buffer, with anything. `heard`
counts, apart from the code, how much of the pattern the peer has sent.

**CommandLine and Text.** The peer sends lines (`Lines`) character by character, or
whole blocks. The handler appends, and ends the line with a notification; `CliTask`
takes the notification, parses (`inputFix`, then the commands in the order of
registration, then their options), and releases the buffer in three writes. `raise` is
the look at `ready`, and the copy, the fixing and the notification follow in steps of
their own, between which the handler still finds the buffer free; `raced` records that
it wrote there. `expected` is the line or the block that met a free buffer from its
first character on and fits it, and what must then be executed (`Graphic`: its visible
characters). Its arguments are `Text`: each value is printed, joined to a line, found
again by its place and parsed.

**Input.** A state function of a channel is a zone and whether it is the steady one.
`watch` reads all channels, runs their state functions and tells the events, a
recursive function over the polled channels;
`ptrValue` is the channel whose value a channel takes, as the pointer in the code;
`stay` is a stopwatch for the properties. `events` is, after a watch, what each channel it
polled was told, and empty after any other step: a channel that was polled and told nothing
is told apart from one that was not polled. Reading, hysteresis, step and
pulse counts are on values that wrap.

## 4. The runs

Passing runs:

| run | component | what it checks | bounds |
|---|---|---|---|
| MCResources | queue | `ImplementsDeque`: the ring refines `Deque` | up to 3 slots, 2 items: rings of one, two and more slots, every wrap of either pointer, repeated setup. Proved for all sizes |
| | receiver | `ServedInOrder`: a receiver task sees every accepted item once and in order. `PeekedSlotKept`: no post recycles the slot a callback reads, in any application. `AllServed`: every item is served eventually, if again and again the check finds nothing that goes before the queue | 3 slots, 5 posts, so that the ring wraps while an item is in hand; threshold 2; one task that is also notified, due and put to sleep. A callback that detaches its queue stops the thread: deadlock is not checked. The first two proved for all |
| | notifications | `LiveCellsFilled`: `get()` never starts on a null task, also with removals and priority changes, as long as tasks and handlers do not both notify. `ImplementsPriorityFifo`: with one priority and one kind of caller `insert()` split at each access is first come first served | array of 3, 2 tasks, 2 data: an extraction from the front, the middle and the end, a full array. Both proved for all |
| | list | `ListsAreSequences`, up to the insertion of a node that another list holds, that insertion included. `WalkVisitsAll`: a loop whose body takes the current node out, or puts it into another list, visits every node once | 2 lists, 3 nodes (a middle one), 2 of them equal for the sort. Both proved for all |
| | pool | `PoolSound` | 92 bytes from an aligned and an unaligned address, headers of 8, alignment 4, sizes of 8 bits; requests that fit exactly, leave a rest too small to split, do not fit, overflow when rounded; 4 blocks, so that a block is freed between two free ones. Proved for all areas and alignments |
| | critical | `SectionsProtect`: interrupts are off in every scope and as before behind the outermost one | 2 nested scopes in the task and 2 in the handler. Proved for all |
| | coroutine | `WaitsHold`: semaphores guard their sections and the bounded buffer, a delay lasts its time | producer and consumer with a buffer of two, and one routine with the other statements; times up to 2. Proved for all programs |
| MCServices | timer | `ElapsedIsAge`, `ExpiresOnTime`, `FiresOncePerInterval` | a clock of 8 values; every interval at every tick. Proved for all widths |
| | signals | `AcceptedKept`: no signal is delivered twice or with another's data, and none is lost unless handlers send and signals overflow. `DeliveredInOrder`. `StoppedStaysSilent`: a stopped timeout is not heard of, unless signals overflow or handlers send urgent ones. `TimeoutReported`: an expired timeout reaches the machine, whatever number of signals is sent behind it and as long as urgent ones are finitely many | 3 numbered sends, or signals without data sent for ever; one timeout, queues of 0 to 4; without queue, overflowing, roomy, with sending handlers, with urgent signals beside the timeout's, with stops. All but `TimeoutReported` proved for all |
| | publisher | `SendTellsAllSubscribers` | 3 machines, 4 signals (one reserved), tables of 2 by 2: both tables overflow. The last subscriber leaves only the last row (section 7). Proved for all |
| | response | `MatchFollowsPeer`: the handler flags only the whole pattern and misses nothing sent after the request, or, when the pattern does not fit the buffer, flags nothing without a NUL from the peer. `TimedRequestEnds` | patterns `aba` (begins with its end), `a`, `aab` with a length of 2; one of five characters in a buffer of four, whole and with a length of 3; one with a NUL and lengths up to and beyond the buffer. `MatchFollowsPeer` proved for all |
| | cli | `ExecutesWhatWasSent`: what is executed is what the peer sent or a task raised, and only a `raise()` during which the handler writes makes a line of both. `ReadyLineTaken`: every line is taken and the buffer becomes free | 3 lines, one longer than the buffer of 7, 2 blocks, one as long as the buffer, received or raised, 2 commands and a refused one. `ExecutesWhatWasSent` proved for all |
| | input | `SharedReadsFirst`: channels of one pin read its first one, after any addition and removal. `EventsTruthful`: the steady, edge, threshold, step and delta events a watch tells are true of the channel, and none is kept back | tick of 3 and readings of 8 values, pulse counts up to 4: all wrap. A digital channel plain and negated, an analog one (thresholds 1 and 5, hysteresis 1, readings below, in, at and above the band), one whose step and delta are changed while it is watched, three of one pin. Both proved for all |
| | text | `ArgumentsReadBack`: every argument is read back as it was printed | two arguments of every kind on a line, extreme values of 16 bits included |
| MCSchedSafety | scheduler | `OneListEach`, `NoneLost`: the lists partition the registered tasks until `add()` is called of a task that a ready or suspended list holds. `DispatchByPrecedence`: priority, then identifier, whatever the order in the lists. `QueuedDataIntact`: a notification arrives with its own data, where nobody spreads or removes. `IterationsHonoured`: n iterations, first and last told correctly. `IdleOnlyWhenNothingReady` | five applications of 2 or 3 tasks and 2 levels; one notification pending per task, 2 queued, identifiers up to 3, iteration counts 2 and PERIODIC. Three tasks are the least with a middle one; each application uses the services whose interplay a property is about. All proved for all |
| MCSchedLive | scheduler | `NotificationsServed`: a task notified simply runs whatever else is notified; one notified through the queue gets its data, asleep or not, unless the queue names a task of higher priority. `ReleaseEnds` | four applications of 2 tasks: one level, two levels with tasks that sleep, a task that is always due, a release |
| MCStateMachine | engine | `Configuration`: the states entered and not exited are the current one and its ancestors. `EntriesAndExitsNest`, `TransitionExits`: which states a transition leaves, in which order. `HistoryHonoured`: where a transition to a composite state ends. `EntryPathFits`: the path fits the array. `RunReturns` | charts of six states in four levels, every pair of source and target, every history mode; default transitions at every level, only a distant one, and chosen by callbacks. All but `RunReturns` proved for every chart |

MCServices has over four hundred thousand states, MCSchedSafety over three hundred
thousand, MCResources, MCSchedLive and MCStateMachine have between 100 and 250 thousand
each.

Runs that refute a sentence of the documents or of a comment (section 7): MCReceiverFront,
MCNotifyOrder, MCSchedSpread, MCHistory, MCPublisher, MCCoroutine, MCByteBuffer.

Every property of a passing run has a mutant: an operator, defined beside the
one it changes and marked as a mutant in its comment, that alters the code the
way a slip would. No specification uses one. With it in place of the
original, TLC finds that property violated.

The bounds that are not part of the code are `MaxSends` (guard of the sends),
`MaxEntry` (guard of `Add`), `MaxCount` (queue lengths asked for), `MaxLive`
(blocks held), `MaxDepth` (nested scopes), `MaxTime` (of the stopwatch of
waits), `MaxReads`, `MaxLine`, and the widths `W` (of an integer), `Width` (of a
reading), `BLOCK_ALLOCATED_BIT` (of a size) and `Clocks` (of the tick). `MaxNotif`, `Size`,
`MaxPriority`, `Timeouts`, `MaxNestDepth`, `MaxIndex`, `CountLimit` and the sizes of
the publisher's tables stand for limits the code has and are small so that the
limit is reached.

## 5. Fairness

* `Scheduler`: `WF(Kernel)`. `run()` is a loop that never waits, and a callback
  must return (the run-to-completion rule of the documentation). Handlers, the
  tick and the calls of callbacks owe nothing. Nothing says that a particular
  task is launched: that is what the liveness properties show.
* `QueueReceiver`: `WF(Kernel)`, for the same reason. `AllServed` asks moreover that the
  check again and again finds nothing that goes before the queue: that is a premise of the
  property, because the code serves no queue of a task that is always due.
* `StateMachine`: `WF(Engine)`. A call of `run()` that has begun goes on; nobody
  must call it.
* `SignalDelivery`: `WF(MachineStep)` for the steps of `run()`, called again and
  again by the kernel, and `SF(Return)`: a callback returns even if it makes
  calls first. Strong fairness is needed because each of those calls takes
  the machine out of the place where `Return` is enabled.
* `Response`: `WF(Task)`, a task that polls until it is answered, and
  `WF(Expire)`, time goes on. The peer owes nothing.
* `CommandLine`: `WF(CliTask)`, the owner task of a pending notification is run, and a
  `raise()` goes on.
* `Coroutine`: `CoFairness`, `WF` of the statements, of the tick and of each routine's
  task, used by MCCoroutine only.
* The others have safety properties only. In a run with several components
  fairness is that of the chosen one.

## 6. The proofs

All hold for every value of the constants under the named assumptions.

**QueueProofs** (assumption `QueueAssumption`: the largest length is positive,
`NoItem` is not an item).
`RingInvariant`: `Spec => [](TypeOK /\ RingShape /\ NoGarbage)`. The three are
inductive only together: types need the pointers inside the storage
(`RingShape`), the shape needs `itemsWaiting <= itemsCount` (`TypeOK`),
and a returned value is an item only by `NoGarbage`. The argument rests on lemmas
about the ring: a pointer moved forward or back stays inside and is addition
modulo the length; places less than one turn apart are different slots.
`QueueImplementsDeque`: `Spec => ImplementsDeque`. Under the invariant, each
operation is the one of `Deque` on `Contents`: a send at the back leaves every
waiting slot alone and writes the one after the last; a send at the front
writes `reader`, which is not among them unless the ring is full; removing
shifts the count by one.

The receiver, in the same module (premise `Setting`: what `ReceiverAssumption` says of
the constants, finitely many posts, and a null pointer that is no slot).
`NoPostRecyclesPeekedSlot`: `RSpec => PeekedSlotKept`. The invariant on top of the
ring's is `PeekedWaits`: the slot a callback was given is one of the waiting ones, not
always the first, for a post at the front may have come since; a post at either end
writes a slot that does not wait. `OrderlyServedInOrder`: `RSpec => []ServedInOrder`.
`Dispatching` is what each of the four steps leaves to the next: an item is still there,
and it is the one in front. The sequences then follow from the lemmas about `Contents`:
a post appends to it, the callback moves its head to what was served, the removal takes
the tail.

The queued notifications, in the same module (assumptions `PrioQueueAssumption`: at least
one cell, and the mark of an empty one is no entry; `UseAssumption`: uses are well formed).
`LiveCellsStayFilled`: `NotifySpec => []LiveCellsFilled`, for every use that is not
`Mixed` (tasks and handlers both notify; section 7 says what happens there). The
inductive invariant `NotifyInv` says what `insert()` knows between its accesses
(`InsertKnows`: the value it loaded is still `index`, there is room, only the last
cell is not filled yet), and, without removals, that `index` counts the live cells
(`Counted`). The lemma behind it is `ClearKeeps`: taking a live cell out leaves those
below the new `index` filled. `UniformIsFifo`: `NotifySpec => ImplementsPriorityFifo`:
with one priority, one kind of caller and no removals, `get()` takes cell 0, so that
the live cells are the pending notifications of `PriorityFifo` in its order.

**ResourceProofs**, critical sections (no assumption). `SectionsAlwaysProtect`:
`CriticalSpec => []SectionsProtect`, for any number of nested scopes. The invariant
says, for each place of the running context, how level, saved flags and hardware relate
(`RunningSafe`), and that, once the application has supplied the functions that switch
interrupts, a task is interrupted outside of its scopes only and a handler leaves none
of its own open (`InterruptedSafe`).

Memory pool (assumption `PoolAssumption`: the alignment is 2, 4 or 8, a header is as the
code rounds it, two smallest blocks fit, the area lies below the marked sizes).
`PoolIsSound`: `PoolSpec => []PoolSound`. `PoolInv` is what holds between two calls, about
the headers (`Kept`) and about what the application holds (`Owned`). The blocks tile the
area (`Tiling`: the sizes at the headers lead from one to the next up to the end mark),
the free ones are linked in address order from the start to the end mark (`Linked`), no
two are adjacent, and the counter is the sum of their sizes (`Core`, `NoAdjacent`). A
request takes one out of the list and maybe cuts it, a release puts one in and joins it
to either side: four operations on headers (`Taken`, `Released`, `Joined`, `Cut`), each
with what it does to tiling, links and sum, of which the code's two calls are
compositions. That the chain the code follows visits all the free blocks
(`FreeChainWhole`), and that a sum changes by what is added or taken out, need a
recursive definition over any number of blocks: the first by a least counterexample
among the lengths of prefixes, the second by showing that the function that adds in any
order exists.

Coroutines (assumption `CoAssumption`: finite programs of well formed statements, an
`until` ending a `perform`). `WaitsAreHonoured`: `CoSpec => WaitsHold`, for all programs
and semaphores. For delays `CoInv` has that the timer and the time gone make up what was
asked for while the last wait is a delay (`DelayRuns`). For semaphores, unless handlers
use the handles of routines (section 7), a routine can only be entered where its label
or what a handle has saved of it may be (`LabelsKept`), and (`Covered`) a semaphore's
count, with what the buffer holds of its kind, the routines that own one where they
stand (`Inside`), and those that own one where a handle may put them back (`PutAside`),
are not more than there were. What a statement takes or gives moves between these terms
(`Passed`), as does a routine that is suspended or resumed (`Moved`). A routine may
count twice: suspended in its section and restarted it may take a second one while its
handle still remembers the first place. A restart lets owners go without giving anything
back, so the sum is bounded and not conserved.

**ListProofs** (assumption `ListAssumption`: finitely many nodes, keys are numbers, the
null pointer is nothing else). `ListsHold`: `ListSpec => []ListsAreSequences`. The
invariant `HeapOK` says that every list is `Chained` to a sequence without repetitions:
its first and last are head and tail, each node's two links lead to its neighbours, and
the nodes whose container is the list are its members. It holds until a list is torn;
the insertion that tears one leads it into the other (`LeadsInto`). The code's
primitives (insert, remove, swap, join) are first described by what they write into the
links (`InsertEffect` and the like) and then by what that makes of the sequences. That
reading off the links gives that very sequence (`ChainIs`) is shown by a least
counterexample. The bubble sort: a pass moves the largest of what it has seen to the end
and swaps no equals (`InPass`, `Passed`), so that after as many passes as there are
nodes the list is settled (`Settled`). `WalksHold`: `ListSpec => []WalkVisitsAll`, with
`WalkOK`: what was visited is a prefix of what was there, and what is still ahead
(`Ahead`) is the rest, linked from the node the iterator has read already; it does not
rest on `HeapOK`, and holds of torn lists as well.

**ServiceProofs**, timer (assumption `ClockAssumption`: the clock has more than one
value). `TimerIsStopwatch`, `TimerExpiresOnTime`,
`TimerFiresOncePerInterval`. The inductive invariant is
`TypeOK /\ ElapsedIsAge`: while less than one turn of the clock has passed
since the timer was armed, the wrapped difference of two tick values is the
true time; one tick adds one to it whether or not it wraps. Expiry, remaining
time and the answers of polls follow from it.

Response (assumption `RequestAssumption`: patterns are sequences of characters, lengths
are numbers, the buffer holds a character). `MatchNeverFallsBehind`: `ResponseSpec =>
[]MatchFollowsPeer`. What has to be added to it to be inductive is that the handler
matches what was asked for as soon as it may match at all (`PatternKept`), and that the
length goes beyond what was copied if the buffer does not hold all of it, that the count
is not ahead of what the peer sent (`NeverAhead`; a match that the request cuts off by
clearing the flag may go beyond the pattern, and then flags nothing; past the terminator
of a pattern that does not fit it takes a NUL) nor, once the request has returned,
behind it (`NeverBehind`), and which outcome goes with which place (`Reported`).

Publisher (assumption `PublisherAssumption`; the theorem assumes `~LeavesAnyRow`, the
use under which the code works, section 7). `EverySubscriberIsTold`: `PublisherSpec =>
[]SendTellsAllSubscribers`. `TableInv` relates the two tables to the relation: the
used slots of the table of signals and of each row come first and are different
(`Packed`), a signal in the table has at least one subscriber and exactly those that
subscribed, one that is not has none. What the searches find is the least slot with a
property, which exists by `LeastNumber`.

Input (assumption `InputAssumption`: readings and thresholds are numbers of the width of
a reading, steps are not zero). `ChannelsReadTheFirst`: `InputSpec =>
[]SharedReadsFirst`. `InputInv` adds that each channel is in the list of its kind, an
analog one once, and that a channel outside the analog list reads its own value: `add()`
writes the pointer only when it finds a channel of the same pin, so a removed channel
that kept pointing at another would come back reading through it. A removal moves what
is behind it up by one place and keeps the order (`RemovedChannel`), so channels of
other pins keep their first (`FirstsAfterRemoval`); a channel that joins comes after all
of its pin (`FirstsAfterAdd`). `EventsAreTruthful`: `InputSpec => EventsTruthful`.
`WatchInv` adds that the wrapped difference between the tick of a watch and the one a
channel entered its zone at is the time it has stayed there, as long as that is less
than a turn of the clock (`Timed`). One watch goes through the polled channels;
`ToldTruly` says of those it has been at what was told and what was not, for the reading
and the zone before and after (`Judged`), and of the others that they are as before.
`ZoneTold` and `MovesTold` give the events of a zone and of a move, each told when it is
due and only then; that the zone fits the value is `ZoneFits`.

Command line (assumption `CliAssumption`: the buffer holds a character at least).
`ExecutesOnlyWhatWasSent`: `CliSpec => []ExecutesWhatWasSent`. In `CliInv`, a ready
buffer holds a block or the end of one line (`OneLine`); a free one the end of what was
sent of the current line, because a line that finds the buffer taken loses its beginning
and one that is too long starts again at the first place (`Collected`); and all of it
while nothing was lost and there is room (`Complete`). What is awaited goes with the
buffer until it is released (`Awaited`). While a command is raised the buffer is what
the step before has made of it, unless the handler wrote there (`BeingRaised`). That the
handler's appending is `Graphic`, and that lowering and trimming touch nothing else
(`Written`), go by least counterexamples over the places of a text.

**DeliveryProofs** (assumption `DeliveryAssumption`: numbers are numbers, applications
are well formed). `AcceptedIsDeliveredOnce`: `DeliverySpec => []AcceptedKept`;
`SignalsKeepOrder`: `DeliverySpec => []DeliveredInOrder`; `StoppedTimeoutIsSilent`:
`DeliverySpec => StoppedStaysSilent`. One inductive invariant, `DeliveryInv`, serves
the three, and TLC confirmed it first, over every combination of an application's
choices. `Places` says what each place of the machine's task leaves to the next (in
the middle of a report the signal in its hands is that of timeout `i`). `Exclusive`:
the exclusion variable is used after an overflow only, and without sending handlers it
is empty whenever the task is about to write it, and `timeoutStop()` finds the room of
what it has just taken out. `Fresh`: a number is accepted once. `Conserved`: what waits
was accepted and not delivered (`InPlace`), and waits in one place (`InOnePlace`), whoever
sends; unless handlers send and signals overflow (`Protected`), every accepted number was
delivered or waits (`InSomePlace`), with its data (`Intact`). `Ordered`: while
`timeoutStop()` rotates, the signals it has not seen (the first `cnt`) come *after*
those it has put back (`Before`); the one it holds comes between them. That the first
to wait is the next of the accepted ones (`FirstAccepted`) then follows from the
three: it was accepted, not delivered, and all others accepted and not delivered wait
behind it. `Silent`: a stopped timeout is off, is not being reported, and has no
signal in the queue; while it is being stopped, none among those that were put back.
`WaitingPlaces` and `WaitingUsers` relate this to the sequence `Waiting` of the
properties.

**SchedulerProofs** (assumptions `SchedulerAssumption`: sizes are numbers,
applications are well formed, the null pointer is nothing else; and
`PrioQueueAssumption`). `TasksInOneList`: `Spec => []OneListEach`.
`NoTaskIsLost`: `Spec => NoneLost`. The lists are seen as one family, indexed by
the priorities, -1 (waiting) and -2 (suspended). A first group of lemmas, about
any family, says what the five things the code does to lists (drop the head, add
at the end, move the head to another list, join two, reorder one) do to
"each task once" and to the set of members. `SortPermutes` says that `ByEntry`
is a permutation whatever the identifiers, equal ones included: the rank of a
place is a one-to-one map of a finite set into itself, hence onto. The
inductive invariant `ListInv` adds to `OneListEach` the types of the lists
and of the task records (the priority chooses the ready list a task goes to, the
identifiers are what the sort compares) and `Called`: while a callback runs, the
ready list of its level is not empty, because `Return` takes the head of that
list without looking. `KernelKeeps` and `CallKeeps` then have one case
per step that moves a task. Each of them leaves every task in one list, but `Add` of a task
that a ready or suspended list holds, which leaves it in two (`Relinks`); elsewhere the
only place where a task leaves the family is the removal in `ScanTask`.

**DispatchProofs** (the same assumptions) has the other four safety properties of
MCSchedSafety, each with an invariant on top of `ListInv`. `IterationCountsHonoured`:
`Spec => IterationsHonoured`. `IterInv` relates the count the kernel keeps to `owed`:
it is the negated request until the first time event and what is left from then on,
and a task chosen by a time event but not launched yet is still owed one.
`IdleWhenNothingReady`: `Spec => IdleOnlyWhenNothingReady`. `QuietInv` says, without
spreads and removals, that a task outside the ready lists has no trigger but that of
the notification just extracted (`Resting`), that each list is empty in the phases of
the cycle that have emptied it and that a ready list fills only with `anyActive` set
(`Cleared`), and that a task suspended by a cycle in which nothing was active is not
always due (`NoneDue`). `QueuedDataDelivered`: `Spec => QueuedDataIntact`.
`QueuedInv`: at most one task has the trigger `Queued`, and until it is called the one
variable that carries the data holds what it was notified with; it needs that the
notification queue is an array of entries after any `insert`, `get` and `cleanUp`
(`QueueTypes`). `LaunchedByPrecedence`: `Spec => DispatchByPrecedence`. `OrderInv`:
among tasks of one priority every list is in the order of the identifiers; while the
scan lasts what is ready comes before what still waits, and while tasks are dispatched
those that went back to waiting come before those still ready. Behind the gathering it
is the sort that restores it (`SortPlaces` of `SchedulerProofs`).

**StateMachineProofs** (assumption `ChartAssumption`: finitely many states; in each
chart every state is under the top state, at most `MaxNestDepth` levels deep, and
initial transitions lead inside their state). `EntriesPairedWithExits`,
`EntryPathIsLongEnough`, `TransitionExitsToCommonAncestor`,
`EntriesAndExitsAreNested`: the safety properties of MCStateMachine except
`HistoryHonoured`. `Up(x)` is the least set with `x` closed under parents, so a fact
about it is shown by exhibiting a closed set: that gives transitivity, one step
(`Up(x)` is `x` with `Up` of its parent), no cycles and antisymmetry. `MachineInv`
has, besides types and `Configuration`, what is true in the middle of a transition:
what is left to exit lies between the current state and what source and target share
(`Leaving`), what is left to enter is part of the path to `next` (`Entering`), the
state a signal climbs through contains the current one (`Climbing`), and what a state
remembers is nested in it (`Remembered`), without which a history transition could
enter states outside its target. `HistoryIsHonoured`: `Spec => HistoryHonoured`, for
charts whose callbacks choose no initial transitions. `HistoryInv` compares what the
code remembers at each level with `leaf`, the state that was current when a composite
state was left: every state the machine is not in remembers its child on the way to
`leaf`, or nothing if it was the current one itself (`Recorded`), unless the
transition under way has just reset it (`Left`, `Reset`); the states exited so far
were left from the current one (`LeftFrom`), and what is entered of a target follows
what its history mode asks (`Resumed`).

**Only model-checked.** Liveness, since the prover has neither fairness nor ENABLED:
`AllServed`, `NotificationsServed`, `ReleaseEnds`, `RunReturns`, `TimeoutReported`,
`TimedRequestEnds`, `ReadyLineTaken`. Of the safety properties only `ArgumentsReadBack`
of `Text`: it compares the digits a number is printed with to what a parser adds up from
them, in every base, with fractions, an induction over digits whose steps multiply and
divide by powers, which the provers do not do. Induction as such is not available to
them either (the rules of the library take a predicate as a parameter); where a proof
needs it, over the links of a list, the blocks of a pool or the characters of a line, it
takes the least number with a counterexample, or shows that a recursive function exists.

## 7. Where code and documents disagree

Shown by a run:

* **A post at the front is removed unserved** (MCReceiverFront). The dispatcher
  removes what is in front after the callback (kernel.cpp:378), which need not
  be what the callback was given (_4_events.dox:428).
* **Queued notifications come out of order** (MCNotifyOrder). `get()` scans to
  the first null cell, beyond `index` (prioqueue.cpp:39), and `clearIndex()`
  leaves old entries there; an entry served before is returned while
  another waits (_4_events.dox:194).
* **A spread notifies one task** (MCSchedSpread). The loop is left after the
  first (kernel.cpp:246), "all the tasks" are promised (_4_events.dox:356).
* **No history at the target's own level only** (MCHistory). Nested composite
  states resume what they remember (fsm.cpp:466) instead of their default
  transition (ext_fsm.dox:112).
* **Subscribers of another signal are lost** (MCPublisher). When the last
  subscriber of a signal leaves, the signals behind it move up but the rows of
  subscribers do not (fsm.cpp:112-118); "sends a signal to all its
  subscribers" (fsm.hpp:1104).
* **A timed wait has no timeout** (MCCoroutine). The macro starts no timer
  (coroutine.hpp:453); it should end when the timer expires
  (ext_coroutines.dox:117).
* **No area is accepted by a byte buffer** (MCByteBuffer). `setup()` tests the
  length the buffer has, not the one it is given (bytebuffer.cpp:27). No
  other call has an effect before one is accepted, so `ByteBuffer` checks
  nothing else of them.

Met while modelling, in the model as the code has them, and kept out of the
properties by their premises:

* `insert()` is not protected: a handler that notifies in the middle of it
  overwrites or buries an accepted notification (prioqueue.cpp:86).
* `cleanUp()` does not look at cell 0, skips the cell that moves into a cleared
  one, and decrements `index` for left-over cells, below -1
  (prioqueue.cpp:101-107).
* `add()` of a task that is already in the kernel gives it a new identifier and new fields
  even when the list refuses it, and the list refuses only a task that waits
  (kernel.cpp:62-63, list.cpp:96). A task that a ready or suspended list holds is linked into
  the waiting list as well; the list it was in ends at it, and the tasks behind it are
  reached no more.
* One queued notification is extracted per cycle, that of the highest task
  (kernel.cpp:234): a task of a higher priority that keeps being notified takes the turn of
  the lower ones for ever, and a cell it left behind can be served in the place of theirs
  (prioqueue.cpp:39).
* A queued notification and the deadline go before the queue of a task (kernel.cpp:252,
  257): the queue of a task that is always due is never served.
* After a spread the scan is not finished: the idle task may run although an
  immediate task is due, and the data of an extracted notification may be
  overwritten by the next extraction (kernel.cpp:247, 342).
* A callback that detaches the queue it was called for makes the dispatcher use
  a null pointer (kernel.cpp:378). A receiver whose item another task takes
  between check and launch gets null data (kernel.cpp:332).
* A task disabled after the scan is launched all the same (kernel.cpp:309); a
  priority changed after it takes effect in the next cycle (task.cpp:62).
* Removals decrement the counter identifiers are taken from: two tasks may get
  the same one (kernel.cpp:292). A task added again asleep keeps its
  old trigger and is dispatched by it (kernel.cpp:56).
* `remaining()` of an expired timer wraps around (timer.cpp:112).
* A signal sent while the queue is full goes to the exclusion variable and is
  accepted; it is delivered after signals sent later (fsm.cpp:269). When
  that is taken too, an expired timeout is lost (fsm.cpp:293). Urgent signals go ahead of
  those that wait (fsm.cpp:263): a callback that sends one in each run keeps the signal of a
  timeout waiting for ever, with room in the queue.
* `timeoutStop()` puts signals back one by one: a handler that posts meanwhile takes
  their room or overtakes them; a timeout signal in the exclusion variable is not
  stopped (fsm.cpp:395). An urgent post meanwhile shifts the queue by one: the last of
  the signals counted at the start is not looked at, and if it is the timeout's the
  machine is told of a timeout that was stopped.
* A timeout reset on entry or exit leaves its signal in the queue
  (fsm.cpp:341). `TIMEOUT_KEEP_IF_SET` never sets the timer (fsm.cpp:330).
* The exclusion variable's `data` is cleared after its `id`: a handler that
  sends in between has its data erased (fsm.cpp:717). With sending handlers and overflow
  `AcceptedKept` therefore promises only that nothing is delivered twice or with the data
  of another signal, not that nothing is lost.
* `entryPath` has `Q_FSM_MAX_NEST_DEPTH` pointers and needs one for its
  terminator: a hierarchy fits if its levels are counted with the top
  state (fsm.cpp:670).

The same of the components modelled beside the core:

* List: a node that another list holds is accepted (list.cpp:96), and its links are
  overwritten: its old list, which still counts it, runs into the new one. Inserting at
  an index behind the last node dereferences null (list.cpp:120), though any index is
  accepted (list.hpp:145). Removing the first or the last node by its index leaves head
  or tail wrong; a move into the middle leaves a back link (list.cpp:389). The callers
  in the library use the front and the back; `Handles` keeps the positions in `List` to
  what works. `clean()` leaves the containers of the nodes: `List` calls it on an empty
  list only.
* Response: the pattern is cut to one character less than the buffer, and at its first NUL,
  but its length may count more (response.cpp:35-36). The match then stops at the
  terminator: such a request is not answered unless the peer sends a NUL, and ends by its
  timeout, if it has one. Binary data with a length (response.hpp) therefore match only to
  their first NUL. Characters that arrive before the request call has ended may be missed; a
  poll that looks at an expired timeout first resets an answer that has
  just been received (response.cpp:43).
* Command line: `raise()` looks at `ready`, copies, fixes and notifies without
  protection (cli.cpp:241-248): characters received meanwhile are stored into the raised
  command, and a line that ends meanwhile is overwritten by it. Its test of the length
  counts up to the limit only (cli.cpp:245) and is always true: a command that is too
  long is cut. A line runs the first registered command whose name it begins with
  (cli.cpp:264), so a command whose name continues that of an earlier one never runs. A
  line is lowered up to its first `=` or `?` (cli.cpp:31); when that was among the
  characters lost from its beginning, the value is lowered too.
* Memory pool: an alignment of 1 is accepted at compile time (memory.hpp:10), but
  then the rounding makes a header one byte smaller than it is (memory.cpp:10);
  `PoolAssumption` leaves it out.
* Input: thresholds in the wrong order are accepted because the difference is unsigned
  (input.hpp:350); a
  channel added with a reader of its own in a watcher without one tells only EXCEPTION;
  a shared channel is stale when the first one has no callback or an invalid
  configuration; a step of 0 divides by zero. After the step of a channel was changed,
  the first reading is compared with the number of the step it was on in the old size.
  Two pulses past the interval are told as a pulsation although input.hpp:42 says they
  come within it: `EventsTruthful` says nothing of pulsations. DELTA is told of a
  difference that is greater than or equal to the parameter (input.cpp:45), "greater"
  says input.hpp:51.
* Coroutine: a blocking statement leaves once even if its condition holds; a
  delay of 0 never ends; a resume without a suspend, or two suspends, lose
  the position; a suspend after a restart to the same label is refused. A
  handle used from a handler, while the routine runs, is overwritten by the
  label the routine leaves with, and the position it has saved is then one the
  routine has gone on from (coroutine.cpp:14): a resume puts it back into a section it
  has left. `WaitsHold` promises the semaphores to tasks only, and the time of a
  delay to a routine that has begun no other wait since (a resume may put it back into a
  delay while the timer runs for another statement).
* Text: `strcat` appends up to `maxlen - 1` characters whatever is there
  already (util.hpp:100); `outputRAW` sends an uninitialised character and never
  what it is given (util.cpp:261); an empty argument leaves the caller's
  buffer as it was.

## 8. What is not modelled

* Of the kernel: what callbacks are only told (first call, start delay, cycle
  and iteration counters, names, task data); `getTaskByName` and
  other queries; time inside a cycle; `run()` after a task was linked twice. Scheduler takes
  `notify()` and `add()` as one step each. The wrappers that run a state
  machine, a command line or an input watcher as a task are the fair steps of
  those modules and not tasks of `Scheduler`; a refused `add` of one leaves the
  task with a callback and no object (kernel.cpp:81).
* Of the state machine: the surrounding callback, the argument of `run(sig)`,
  which signals exist. Engine and delivery are separate
  modules: the engine does not ask where its signal came from, and the delivery
  does not ask what a callback did with it.
* Of the pool: a second `setup()` while blocks are held, and the release of
  what was never allocated. Of the inputs: `setChannel` and `setCallback` on a
  watched channel. Of util: `outputRAW`, random numbers and bit helpers, and
  the overflow of `integerToString` at the least integer.
* The logger and trace (output through util, no state but the level), helpers,
  types and configuration (compile-time), firmware checks and examples (client
  code).
* Conversions between time formats.

## 9. Plan

Done: the core (`Queue`, `QueueReceiver`, the notification queue, `Scheduler`,
`Timer`, `StateMachine`, `SignalDelivery`), every other component of
section 1 that keeps state, and the proofs of section 6: every safety property that a
passing run checks, except `ArgumentsReadBack`, is a theorem.

Next, in order of value:

1. `Text`: that a number is read back as it was printed, for any width and base, once the
   provers can be given the induction over its digits.
2. The engine and the delivery of a state machine in one module, for signals sent by the
   callbacks of a transition.
3. The surrounding callback and the queries of the kernel.
