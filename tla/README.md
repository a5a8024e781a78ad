# A verification of the greenlet scheduler

TLA+ models of `greenlet-scheduler`, a C++ extension for Python that runs
*tasklets* (microthreads on top of the greenlet library) in a run queue and
lets them meet on *channels*. The modules are translated from the C++ sources
under `src/`; TLC checks them on small instances, and TLAPS proves what matters most
for any number of tasklets, channels and threads: that the linked queue is a line and
changes only as a line does, that the channels' books are right, that tasklets of several
threads meet their partners and leave nothing behind, that the lists of blocked tasklets
and the references on them are kept, that a QueueChannel hands out its data in order, and
that without nesting the scheduler loses no tasklet and is right about who runs and who lives,
the first without channels, the second with them too, where also the channels' books stay right
whatever calls are suspended.

## 1. The system

| part | sources | state it keeps | operations |
|---|---|---|---|
| run queue | `ScheduleManager.cpp` 147-285, 523-562 | `m_next`/`m_previous` of each tasklet, `m_previousTasklet` (the tail), `m_scheduled`, `m_reschedule`, `m_numberOfTaskletsInQueue` | `InsertTasklet`, `InsertTaskletToRunNext`, `RemoveTasklet`, the re-insertion in `Run` |
| ScheduleManager | `ScheduleManager.cpp/.h` | the current and the main tasklet, the switch trap, the run limits | `Run`, `Yield`, `Schedule`, `RunNTasklets`, `RunTaskletsForTime`, one instance per thread |
| Tasklet | `Tasklet.cpp/.h` | the flags alive, paused, blocked, first run, tagged for removal, transfer in progress, kill pending; the waiting exception; the parent | `SwitchTo`, `Run`, `SwitchImplementation`, `Insert`, `Remove`, `Kill`, `ThrowException`, `Bind`, `Setup`, `UnBind` |
| Channel | `Channel.cpp/.h` | two intrusive lists of blocked tasklets, balance, preference, closing, closed | `Send`, `Receive`, `ClearBlocked`, `UnblockAllActiveChannels`, `Close`, `Open` |
| CallableWrapper | `PyTasklet.cpp` 1296-1523 | the owner tasklet | runs a callable and swallows its exceptions |
| Python bindings, C API | `PyTasklet.cpp`, `PyChannel.cpp`, `PyScheduleManager.cpp`, `SchedulerModule.cpp`, `include/Scheduler.h` | object validity | argument checking around the methods above |
| QueueChannel, `block_trap` | `python/scheduler/__init__.py` | a queue of data in front of a channel | sends that never wait |
| threads and teardown | `ScheduleManager.cpp` 32-128, 717-752, `Tasklet.cpp` 1013-1044 | the managers that are closing, the tasklets of a thread | killing what is left when a thread ends |
| reference counts | `PythonCppType.cpp`, and their use in `Channel.cpp`, `ScheduleManager.cpp`, `PyTasklet.cpp` | the references that queue and channels hold on tasklets | `Incref`, `Decref` |
| greenlet library | external | one C stack per tasklet, a parent to fall back to | switch, set parent, die |

How they interact. C++ code holds the GIL, so one OS thread runs it at a time; each
thread has a ScheduleManager of its own, and threads meet on channels and in
Python code. Within a thread greenlets switch only where the code calls
`PyGreenlet_Switch`. So the concurrency is that of coroutines, and what makes it hard is that *the
scheduler itself runs on the greenlets it schedules*: `Run` is a loop in the
C stack of whoever called it; inside `SwitchTo` that stack is suspended, and
other greenlets run their own `Run` and `Yield` over the same queue, change
the parents of its tasklets, kill and unblock them. When the suspended call
goes on, it works with pointers and flags that others have changed.

The behaviours that are hard to test follow from this:

* **Nested runs.** With `use_nested_tasklets` on (the default), `tasklet.run()`
  starts a loop in the middle of the queue, on the caller's stack. With it off
  (*flat*), `run()` moves the tasklet to the front and yields.
* **Guesses after a switch.** `SwitchTo` learns that a tasklet has ended only
  from the absence of flags (`Tasklet.cpp:414`), and takes a waiting exception
  from the *current* tasklet (`:402`), not from the one it switched to.
* **Failure half way.** `Schedule`, `Send`, `Kill` set flags first and fail
  afterwards (switch trap, block trap, closed channel, an exception that
  arrives while the tasklet waits).
* **Kill and throw** reach tasklets that have not started, wait on a channel,
  or are suspended in a run; pending ones arrive later.
* **Threads.** A tasklet woken by a partner on another thread goes into the queue
  of its own; between two Python statements another thread may come in
  (`QueueChannel` looks first and sends afterwards); a thread that ends kills what
  it has left, and may not leave anything behind for the others.
* **Ownership.** A reference is taken when a tasklet is queued or begins to wait,
  and given back on each of a dozen ways out.
* **Deadlock and progress.** A main tasklet that blocks with an empty queue must
  be told; `clear()` repeats kills until nobody waits; limited runs must end.

What makes each part correct: the queue is one list of exactly the scheduled
tasklets and nobody overtakes; no runnable tasklet is lost and nothing queued is
without a greenlet; `alive` says whether the code has ended; control returns to
the runner; a kill is done when it returns; a channel's balance, lists and
blocked flags agree, messages are neither lost nor overwritten; limits belong
to the call that set them.

## 2. The modules

| module | what it is |
|---|---|
| `QueueLine` | what the run queue promises: the queued tasklets stand in a line, and who may change place in it and how. |
| `RunQueueOps` | the run queue as a record `q`, and every method that changes it as an operator from record to record. No state, no recursion, so that both the proofs and the other modules use it. |
| `RunQueue` | the specification of the queue on its own: one action per use of it in the code, in any order. It implements `QueueLine`, reading the line off the links, and is implemented by the scheduler. |
| `RunQueueProofs` | the TLAPS proofs that `RunQueue` keeps the queue a list and implements `QueueLine`. |
| `ChannelOps` | one channel as a record, and its bookkeeping as the code does it. |
| `ChannelBook` | what the channels promise: who may begin to wait where, how a tasklet leaves, and what balance and closed are then. |
| `ChannelBookProofs` | the TLAPS proof of what `ChannelBook` keeps true, and that the operators of `ChannelOps` do what it says. |
| `TaskletScheduler` | one thread: tasklets, greenlets, the C stacks with their suspended calls, the ScheduleManager. |
| `TaskletChannels` | extends it with channels. It implements `RunQueue` and `ChannelBook`. |
| `Ownership` | the blocked lists of the channels as the pointers they are, and the references that queue and channels hold on tasklets. It implements `ChannelBook`, reading the lists off the links. |
| `Threads` | several threads, each with a ScheduleManager, that share channels, and the end of a thread. It implements `ChannelBook`. |
| `QueueChannel` | extends it with the Python class `QueueChannel`. |
| `OwnershipProofs`, `ThreadsProofs` | the TLAPS proofs about these three (`ThreadsProofs` is about `Threads` and `QueueChannel`). |
| `SchedulerProofs`, `TaskletChannelsProofs`, `TaskletBooksProofs` | the TLAPS proofs about `TaskletScheduler` and `TaskletChannels` without nesting, each on top of the one before. |
| `WalkLemmas` | facts about walks along links, for the proofs. |
| `MC...` | what TLC needs besides the .cfg: symmetries, and on which thread each tasklet lives. |

The modules are at two grains. `TaskletScheduler` and `TaskletChannels` keep the C
stacks, with every call of `Run` and `Yield` suspended there, on one thread.
`Ownership` and `Threads` each drop most of that (any queued tasklet may run next; nesting
is off and the main tasklet runs the loop) to make room for what they add.
What joins them are the abstract specifications: each of the three modules with
channels is checked to implement the same `ChannelBook`, and this is proved as well: for `Ownership` and
`Threads`, and without nesting for `TaskletChannels`.

### How state corresponds to the code

`q` holds the fields that the queue's methods touch: `next`, `prev`,
`scheduled`, `reschedule` and `blockedOn` (`m_channelBlockedOn`; `m_blocked` is
`blockedOn # NULL`) per tasklet, `tail` (`m_previousTasklet`), `current`
(`m_currentTasklet`), `count` (`m_numberOfTaskletsInQueue`). `q.nullDeref` is
set where the code would follow a null pointer; nothing is enabled after it, so
that a crash is a deadlock for TLC, and every run checks for deadlocks.

`tk[t]` holds the other flags of a tasklet, `exc` its waiting exception
(`TaskletExit` or any other), `args` the message it has been handed. `gl[t]` is
its greenlet: `unborn` (not set up), `new`, `started`, `dead`, and its parent.
`mgr` holds the limits and the trap, `ch[c]` a channel.

`stack[t]` is the C stack of t's greenlet: the calls of `Run`, `Yield` and of
whatever called them (`Send`, `Kill`, ...) that are suspended there, innermost
first. `active` is the running greenlet and `ret` what its continuing code is
handed: success or an exception. An action is what the C++ code does between
two points where control can leave: from a call made by Python code to the
first `SwitchTo`, from there to the next, and so on. `RunSwitches` is the head
of the loop of `Run` up to `PyGreenlet_Switch`; `SwitchReturns` what `SwitchTo`
does after it; `RunContinues` and `RunFails` the rest of the body. An empty stack
is Python code; it may make any call named in `MainOps` (the main tasklet) or
`TaskletOps` (the others), return, or raise.

In `Ownership`, `list[c]` holds the four pointers of a channel with its balance,
`link[t]` is `m_nextBlocked` and `m_previousBlocked`, `refs[t]` counts the references
that the queue and the channels hold (`Incref`, `Decref`; Python's own are left out).
In `Threads`, `queue[th]` is the line of a thread, `loop[th]` how far the `Run` of
its main tasklet is, `phase[th]` whether its program goes on, `gil` the
thread that is in C++ code. In `QueueChannel`, `plan[t]` is what a tasklet that has
looked at the channel is about to do: another thread may act before it does.

### Abstractions

Messages are their sender and whether they are an exception; exceptions are
`TaskletExit` or `Error`. Call sites, timings, contexts and
callbacks are left out, and so are reference counts except in `Ownership`. A time limit
is expired, or not, whenever it is tested. The blocked lists of a channel are
sequences, except in `Ownership`. Tasklets stay referenced by Python code, so that
none is destroyed while it is alive. Setting up and binding a tasklet
is allowed while it is not alive, and `rebind` says whether a tasklet that has
ended may be bound again; `rebind_killed` and `throw_killed` say whether one that
was ever killed with `pending` may be bound again or get a `throw()`.

Calls outside the model: `run()`, `switch()`, `kill()` and `throw()` on the main
tasklet; `run()` of the running tasklet itself without nesting; `unbind()` of a
suspended tasklet; a tasklet bound without arguments. From another thread, `kill()`,
`throw()`, `bind()`, `setup()` and `switch()` are refused and `run()` does nothing, so
`Threads` has no such action; `insert()` and `remove()` of another thread's tasklets
are not checked by the code, and left out.

Operators marked *Faulty* are plausible slips, kept beside the definition they
would replace. Each property was checked to fail when one of them takes the
definition's place, which shows that the run can reach what the property is about.

## 3. The runs

Most instances have the main tasklet and two others, enough for a runner, the one it
runs and a bystander, and for two runs nested in each other; three others where
an order among them matters (`RunQueue`, `Limits`, `QueueChannel`).
Tasklets other than main are interchangeable, and symmetric in the runs that check
safety only. State spaces are finite without state constraints: a stack grows
only by calls of greenlets that are suspended. `MaxLimit` bounds the argument of
`run_n_tasklets`; the switch trap goes from 0 to 1 and back; `MaxRefs` stops a
tasklet whose references have leaked from making the next call (2: the queue's and one
more, where at most one is needed at a time); `MaxSent` bounds how much is sent
through a QueueChannel (3: more than there are receivers).

| run | instance | what it shows |
|---|---|---|
| `RunQueue` | 4 tasklets, 1 channel | `TypeOK`, `QueueIsAList`: whatever the order of operations, the queue is one list from main to the tail, of the scheduled tasklets, of the length counted. `LineSpec`: it implements `QueueLine`, so one tasklet at a time changes place and nobody overtakes unless asked to. |
| `FlatScheduler` | nesting off; schedule, run, insert, remove, throw, kill, bind, unbind; tasklets that raise, with and without `dont_raise` | nobody is lost (`NoLostTasklet`; a tasklet that a failed switch has marked `m_remove` is exempt for good, as the mark is never cleared, also when it is bound again), what is queued can run (`QueuedCanRun`), a tasklet whose code goes on is alive, and one that is dead is not (`AliveUntilDone`), a `kill()` that goes to its tasklet and returns without an exception has ended it, and one that returns at once because another is pending (`Tasklet.cpp:567`) finds the `TaskletExit` of that one still waiting (`KillIsDone`), no code runs in a tasklet for which a kill is pending or a `TaskletExit` waits, begun or not (`KilledRunsNoMore`), exceptions arrive where they were thrown (`ThrownAtItsTarget`), and the scheduler implements `RunQueue` (`QueueSpec`). |
| `NestedRuns` | nesting on, 1 channel; `run()`, `switch()`, `insert()`, preferences, exceptions sent and caught | `RunnersWait`: a runner suspended in its loop is the parent of the tasklet it runs; `CurrentIsActive`: `getcurrent()` is right; `DoneIsNotAlive`: what has ended is not alive; `WokenByItsPartner`: a send or receive comes back only with its message passed, however many runs are suspended around it; nobody is lost, and the queue is still `RunQueue`. |
| `Limits` | nesting off, 4 tasklets, limits 1 and 2, run for a time, switch trap | `LimitsMatchTheCall`: limits never outlive their call. `TrapKeepsControl`: under the trap control leaves a greenlet only when it ends. `LimitedRunEnds` and `QueuedGetsItsTurn`: progress, below. |
| `ChannelClosing` | 1 channel; close, open, preferences, block traps; kills of tasklets that raise or catch | `BookSpec`, `BalanceOK`: the channel changes only as `ChannelBook` says. `BlockedDoesNotRun`: a failed kill may leave a tasklet marked blocked in the queue, where the run switches to it, but it gives control away again (the loop at `ScheduleManager.cpp:342`). |
| `ChannelKill` | nesting on, 2 channels; kill, kill pending, `clear()` and `unblock_all_channels()` from main | `BlockedIsListed`, `TransferOver`, `KeptUntilTaken`: nothing is left behind by operations that are cut short; `MainWakes`, `ClearReturns`: progress. |
| `Ownership` | main and two others, 1 channel; send, receive, close, preferences, kill, remove, insert | `OnlyTakenIsGivenBack`: no step gives back a reference that was not taken for it; `GivenBack`: what no longer holds a tasklet has given its reference back. The exceptions they name are the known ones below. `ListsReadBothWays`: the links of a list agree in both directions; `LinksImplementBook`: the linked lists implement `ChannelBook`, with tasklets taken from the middle: all three wait on one list, and main, in the middle, is told of the deadlock. |
| `Threads` | 2 threads with a tasklet each, 1 channel; kill, catch, close; both threads end | `QueuedAtHome`: whoever wakes a tasklet, it waits in the queue of its own thread, once, or on its channel; `WokenByItsPartner`; `BookSpec`; `NothingLeft`: nothing of a thread that has ended is queued or on a channel; `TeardownEnds`: progress. |
| `QueueChannel` | 1 thread with main and three others, 1 channel, 3 data; kill, catch, close | `SenderNeverBlocks`, `NobodyWaitsForQueuedData`, `InOrder`: on one thread the class keeps what its docstring says, although tasklets are killed and the channel closed. |

### Fairness

`FairSpec` of the scheduler asks three things. `WF(Scheduler)`: C++ code between two
switches runs on; it has no wait of its own. `WF(GivesWay)`: a tasklet's Python code
that can call `schedule()` or end does one of them some day; the scheduler is
cooperative and promises nothing otherwise. `WF(Propagate)`: an exception that
nobody handles ends its tasklet. Nothing is asked of the main
tasklet's code. `ChannelFairSpec` asks that C++ code runs on, that an exception
nobody handles ends its tasklet, and that each tasklet that runs again and
again ends some day (strong fairness, as its code is interrupted by others); a
tasklet that schedules for ever would keep a waiting main tasklet waiting, and
rightly so. `FairSpec` of `Threads` asks the same: C++ code runs on, and a tasklet
that gets to run again and again ends some day, so it does not handle the
`TaskletExit` of the teardown for ever.

### Where the code does otherwise

Three runs expect a violation. Each shows the code departing from what its own
documentation says:

| run | what happens |
|---|---|
| `TeardownHangs` | A tasklet that has handed its message to the main tasklet has yet to finish `Send` when the thread's program ends. The kill makes `Send` return false with `m_transferInProgress` set (`Channel.cpp:130-134`), so the tasklet is never taken for finished (`Tasklet.cpp:414`), and `ClearThreadTasklets` (`ScheduleManager.cpp:743`) repeats for ever, holding the GIL. `memoryDesign.rst:38` says that each tasklet of a thread that finishes "will be killed". `TeardownEnds` shows that this is the only way for it not to end. |
| `QueueChannelRace` | Senders on two threads see the same waiting receiver, and the second one blocks, although "The sender always continues" (`__init__.py:19`). |
| `NestedResume` | With nesting, a tasklet that comes back from a nested run is guessed to have finished from the flags of the tasklet it switched to (`Tasklet.cpp:414`), which may be suspended: that one is marked dead while its code goes on. `PyTasklet.cpp:672` says of `alive`: "True while a tasklet is still running." `clear()` then loops for ever on it. `AliveUntilDone` is claimed for `FlatScheduler` only, and in `ChannelKill` only main runs others. |

The calls that lead to these are left out of the passing runs, or their properties are
not claimed there. Others were met while modelling, and are treated in the same way:

* A send refused by a closed channel returns with `m_transferInProgress` set
  (`Channel.cpp:42-72`), and its tasklet stays alive after its code has ended.
  To see it, check `DoneIsNotAlive` with `send` and `catch` for tasklets and `close` for main.
* A tasklet that removes itself while it runs leaves `m_previousTasklet` null when it
  comes back (`ScheduleManager.cpp:528-531`), although the comment there says it
  is kept at the end of the chain. To see it, allow `remove_running`.
* `m_killPending` is set at `Tasklet.cpp:598` and never reset. A tasklet that a pending kill has ended and that is bound
  again is alive with no `TaskletExit` waiting, and `kill()` returns at line 567 ("Quick out if kill is already
  pending") without doing anything, this time and every other; the same holds of one that caught its exit.
  To see `KillIsDone` fail, allow `rebind_killed` in `FlatScheduler`: such a binding is otherwise not made.
* A throw at a tasklet for which a kill is pending replaces the waiting `TaskletExit` (`Tasklet.cpp:803`). If the tasklet has
  not begun, the switch to it clears what was thrown and fails, and after an `insert()` a run starts the callable of the
  killed tasklet, although `killingTasklets.rst:69` says that a pending kill "will raise" the exit. To see `KillIsDone` and
  `KilledRunsNoMore` fail, allow `throw_killed`: otherwise no throw is made at such a tasklet, and at all others it is.
* The loop of a main tasklet that waits on a channel stops as soon as main is unblocked (`ScheduleManager.cpp:518`). If the
  tasklet that has woken main then kills another, the loop stops before the victim's turn; main runs the
  killer, whose `kill()` returns without an exception, the victim alive and queued. `killingTasklets.rst:12` says
  that it "is removed before running". `KillIsDone` is therefore checked without channels; to see it fail, check it in
  `MCTaskletChannels` with `send` and `run` for main, and `receive` and `kill` for tasklets.
* `m_remove` is set by a failed switch (`Tasklet.cpp:364`, `Tasklet.cpp:434`) and never cleared: `NoLostTasklet` exempts
  such a tasklet also after it has been bound again.
* A tasklet killed before it has begun ends quietly with its `TaskletExit` still noted
  (`Tasklet.cpp:351`): bound again, it ends in the same way and never begins.
* With nesting, a tasklet that kills the one that runs it, with `pending`, and ends, lets that one go
  on: its exit is raised only at its next switch. `KilledRunsNoMore` is claimed without nesting.
* A `schedule()` refused by the switch trap leaves its `BACK` mark; the tasklet
  that ends afterwards stays alive and its finished greenlet is queued again
  (`ScheduleManager.cpp:259`).
* `clear()` under the trap kills the same tasklet in vain for ever (`Channel.cpp:539`).
* A limited run inside a limited run resets the limit of the outer one
  (`ScheduleManager.cpp:401-405`), with nesting on.
* `Receive` that prefers senders and ends with another tasklet's exception keeps
  the message, and the next transfer overwrites it (`Channel.cpp:263`,
  `Tasklet.cpp:654`). The same place leaves the transfer marked when a sender is
  killed after it has delivered (`Channel.cpp:130`).
* `throw` pending on a tasklet that waits on a channel queues it and leaves it on
  the channel's list (`Tasklet.cpp:818`).
* A failing switch without `m_remove` leaves the runner without being current
  again (`ScheduleManager.cpp:580`).
* `insert()` of a queued tasklet marks it `BACK`; if it then blocks on a channel the loop
  queues it again, and its send or receive comes back while it is listed.
* `remove()` of a tasklet that is not queued gives back a reference that the queue does
  not hold (`PyTasklet.cpp:896`), and so does a receive that an exception ends after it has
  taken its message (`Channel.cpp:263`). A receive on a closed channel
  (`Channel.cpp:171-197`) and `InsertTaskletToRunNext` of a queued tasklet, or of main
  (`ScheduleManager.cpp:147-155`), leak one. `OnlyTakenIsGivenBack` and `GivenBack` name
  these steps and claim the rest.
* The teardown of a thread also hangs on a tasklet with `m_killPending` set, and under
  the switch trap; `clear()` called from another thread repeats a kill that is
  refused for ever.
* A tasklet that is killed does not call `__exit__` of the context manager it has entered
  (`PyTasklet.cpp:1385`), which a `with` statement would (`PyTasklet.cpp:792`); what a
  channel callback raises is not looked at (`Channel.cpp:433`). Neither is modelled.
* A main tasklet that blocks with an empty queue is told of a deadlock although a
  tasklet of another thread could come to meet it (`ScheduleManager.cpp:296`).
* Without nesting, a tasklet that calls `scheduler.run()` and then runs its own
  runner takes a null front out of the queue (`ScheduleManager.cpp:550`).
* With nesting, a tasklet bound again while another is suspended on the way to
  it is marked dead when that one goes on; `NestedRuns` leaves `rebind` out.
* A tasklet that kills its own runner, with nesting, fails to run it
  (`RunCannotAdopt`) and leaves it with a waiting `TaskletExit`.
* A `kill()` whose run is ended by another tasklet's exception marks its target
  blocked again, although it has left the queue of the channel or waits in the run
  queue (`Tasklet.cpp:624`); `ChannelClosing` does not claim `BlockedIsListed`.
  With two channels and `catch`, the target may have caught its exit and wait elsewhere; the next
  kill takes it off the wrong channel, and `BalanceOK` fails.
* A tasklet that kills a sender while main is blocked may wake main in the middle of it. The
  target is then listed and not blocked; it may catch its exit and send again, and is listed twice.
  To see it, allow tasklets `kill`.
* A tasklet that main's failed `kill()` has marked blocked, and that another tasklet has killed with
  `pending`, comes out of `Yield` with the exception, its mark still set, and may catch it and go on:
  `BlockedDoesNotRun` fails. To see it, allow tasklets `kill_pending` in `ChannelClosing`.
* A tasklet may catch `TaskletExit` and go on; `KillIsDone` and `KilledRunsNoMore` are claimed only
  where tasklets do not.

## 4. What is proved

Every theorem holds for all values of the constants that satisfy the named assumptions of
the modules; where it has hypotheses of its own, they are given here.

### The run queue

`RunQueueProofs` proves, for any finite set of tasklets and any channels (assumptions: the
main tasklet is one of the tasklets, `NULL` is neither a tasklet nor a channel):

* `QueueTypeCorrect`: `Spec => []TypeOK`
* `QueueStaysAList`: `Spec => []QueueIsAList`

`QueueIsAList` says that there is a numbering `s` of the queue from 0 (main) to
`count` (the tail) that visits exactly the scheduled tasklets, once each, with
`next` and `prev` stepping along it and null at both ends, and outside it.
The inductive invariant is `Good`: the types, a current tasklet that exists,
and `WellFormed`. The types alone are not inductive (the counter could
drop below zero), and the list is not without the types. The argument has
three layers. `LinkIntoList` and `UnlinkFromList` give the new numbering when a
tasklet is linked in at a place or taken out of it; `ListFacts` says what the
fields of a list tell, in particular that a tasklet is queued exactly if its
neighbours differ, which is the test `RemoveTasklet` makes. On them rest one lemma
per operator (`InsertKeepsTheList`, `InsertToRunNextKeepsTheList`, ...,
`ReturnKeepsTheList`), and `NextKeepsTheList` has one step per action.

The scheduler uses the same operators, and `QueueSpec` says that its steps are
steps of `RunQueue`, so that the theorems carry over to it. Without nesting this is
proved, without channels (`FlatQueueSpec`, below) and with them (`ChannelQueueSpec`); with
nesting TLC checks it, in `NestedRuns`.

For finite sets of tasklets the module also proves `QueueImplementsLine`: `Spec => LineSpec`.
`LineSpec` maps the queue to the line that a walk from main along `next` meets, which is a recursive
function. `WalkLemmas` shows what its values are without induction on data: if the walk
left the numbering there would be a least place where it does (`LeastNumber`, `SameWalk`),
and a walk that does not meet anybody twice is no longer than the set of tasklets is large
(`NoRepetition`; here the set has to be finite). So `WalkIsTheNumbering`: the line is the
numbering that the proof of `QueueStaysAList` carries along. `LinkedOrder` and `UnlinkedOrder` turn what
linking and unlinking do to the numbering into the `Behind` and `Others` of the line. On
them rests one `...Order` lemma per operator, of which `SecondOrder` is the difficult one
(`InsertTaskletToRunNext` puts a tasklet behind the front by taking the front out and
putting it back), and one `...InLine` lemma per action.

### Channels

`ChannelBookProofs` proves, for any sets of tasklets and channels and without
assumptions on them:

* `BalanceIsRight`: `Spec => []BalanceOK`, the balance counts who waits
* `WaitsAreExclusive`: no sender and receiver wait for each other, nobody waits twice
* `ClosedIsDrained`: nobody waits on a closed channel
* `CountedByDirection`: `RemoveTaskletFromBlocked` takes a tasklet out and counts it by
  the direction noted on it, which is what `ChannelBook` says as long as that is the
  direction of its list, and does nothing for one that has left already
* `ClosedByBalance`: `UpdateCloseState`, which looks at the balance only, closes
  exactly the channels that are drained

The inductive invariant is `Kept`. A balance that is right stays right only if whoever
leaves has one place to leave, so `BalanceOK` needs `ListsOnce` and `OneSide`; that nobody
is put in twice needs `WaitsOnOne`. `KeptByChannel` splits `Kept` into `Orderly`, which
speaks of one channel, and `WaitsOnOne`, which speaks of all; one lemma per operator
(`LeftOrderly`, `SettledOrderly`, `AddedOrderly`) shows that it keeps a channel
orderly, and `OneChannelChanges` that a step that changes one channel and adds at most
one tasklet, which waits nowhere, keeps the whole. `UnlinkedKeeps` and `AppendKeeps` are
the facts about lists.

### Blocked lists and references

`OwnershipProofs` proves about `Ownership`, for any finite set of tasklets that contains main
and not `NULL`, and any channels:

* `ReadBothWays`: `Spec => []ListsReadBothWays`
* `LinksKeepTheBook`: `Spec => LinksImplementBook`
* `OnlyTakenIsReturned`: `Spec => OnlyTakenIsGivenBack`
* `TheRestIsReturned`: `Spec => GivenBack`

The hypotheses, `"insert_queued" \notin Ops` and for the third `"remove_unqueued" \notin Ops`
as well, leave out the two calls of section 3 that break these properties; the run leaves
them out too. The inductive invariant (`OwnershipInvariant`) has three parts. `Chained`: the links of a
channel's tasklets and its four pointers string up a list, those of any other tasklet are
null, and the direction and channel that a tasklet notes say in which list it is
(`UnlinkTasklet` goes by these notes, so the lists are not inductive without them).
`B!Kept` of the channels read off the links. `Noted`: the flags of a tasklet fit together;
its part `Doomed` says that a tasklet killed on a channel is queued before it has left the
list, and without it the next one to use the channel could meet it. The layers are: a walk
along the links of a list finds it, from either end (`WalkedIsTheList`, `StrungIsRead`);
appending and unlinking, at the ends or in the middle, string up what the book says
(`AppendIsStrung`, `UnlinkedIsStrung`); a step leaves, joins or stays in the book
(`LeavesTheBook`, `JoinsTheBook`, `StaysInTheBook`); notes and references move together
(`Moves`, which composes along the chain of updates of a C++ function); one lemma per action.

### Threads

`ThreadsProofs` proves about `Threads`, for any threads, tasklets and channels (assumptions:
each thread is named by its main tasklet, each tasklet has one home, preferences are
directions) and any set `M` of messages:

* `ThreadsTyped`: the types
* `PartnersMeet`: `Spec => []WokenByItsPartner`
* `NobodyAstray`: `Spec => []QueuedAtHome`
* `NothingIsLeft`: `Spec => []NothingLeft`
* `ThreadsKeepTheBook`: `Spec => BookSpec`

The parts of the inductive invariant (`ThreadsInvariant`) need each other. `Sane` and `Places` tie what a tasklet
notes to the channels' lists: a send that finds a receiver wakes one that has no message
yet, and `RemoveTaskletFromBlocked`, which goes by the notes, takes out the one meant.
`Queues` and `Runnable` say who is queued, which makes a woken tasklet one that is not in a
queue already, and the emptied queues of a teardown those of a thread with nobody left to run.
`Killing` is about the moment between a kill and the end of the killed tasklet's wait: it is
still listed on the channel though no longer blocked, and what saves the others from
meeting it there is that it stands first in its queue while its thread keeps the GIL.
`Ended` says what a thread leaves when it is over. One lemma per action rests on facts
about one tasklet that yields (`YieldsKeeps`), joins a queue (`JoinedBy`) or a list
(`PlacesMore`), and leaves one (`PlacesLess`).

### QueueChannel

The second half of `ThreadsProofs` is about `QueueChannel`, on top of the theorems about `Threads`:

* `SendersContinue`: `QSpec => []SenderNeverBlocks`
* `DataIsTaken`: `QSpec => []NobodyWaitsForQueuedData`
* `DataInOrder`: `QSpec => InOrder`

The hypothesis is `OneThread`, all tasklets have the same home, which the run
`QueueChannelRace` shows to be needed; `DataInOrder` also has `OneChannel`, as the numbers by which
data is told apart are counted over all channels. The invariant adds to that of
`Threads` that only the tasklet that runs has a plan and that what it saw is still so
(`Plan`, `Foreseen`). The bulk of the proof shows that nothing Python or C++ code does between the look and the
act lets anybody begin to wait (`NoneJoins`).

### The scheduler

`SchedulerProofs` proves about `TaskletScheduler`, for any finite set of tasklets and any
`MaxLimit`, without nesting:

* `FlatTypeCorrect`, `FlatCurrentIsActive`, `FlatRunnersWait`, `FlatLimitsMatch`: `Spec => []`
  of `TypeOK`, `CurrentIsActive`, `RunnersWait`, `LimitsMatchTheCall`
* `FlatQueueSpec`: `Spec => QueueSpec`
* `FlatTrapKeepsControl`: `Spec => TrapKeepsControl`
* `FlatNoLostTasklet`, `FlatQueuedCanRun`, `FlatAliveUntilDone`: `Spec => []` of
  `NoLostTasklet`, `QueuedCanRun`, `AliveUntilDone`
* `FlatThrownAtItsTarget`: `Spec => ThrownAtItsTarget`
* `FlatKilledRunsNoMore`, `FlatKillIsDone`: `Spec => []` of `KilledRunsNoMore`, `KillIsDone`

The hypotheses say which calls the program makes. `Flat`, for all of them: nesting is off; only
main calls `run()` and the limited runs; nobody calls `switch()`, which starts a loop where
it stands, or removes the running tasklet from the queue; and if the switch trap is used at all,
tasklets do not run, kill or throw at each other (a tasklet that fails to give way
under the trap keeps its place behind the front noted, and the loop follows a null pointer when
nobody else is queued). `Plain`, for the last six: no switch trap, no `insert()` of
a tasklet that is queued and no pending throw at one, which leave marks and exceptions on
tasklets that are not on their way back. The others hold under `Plain`, and under `NoThrow`, no
exceptions but kills, with the switch trap. `SureKills`, for `FlatKillIsDone`: no run has a limit, and
tasklets do not catch what they are made to raise or bind anybody again. A limited run may stop after the
killer has given way and before its victim is run, and main may then change the queue before it goes on; and a
victim that is dead and bound again is alive when `kill()` returns. `OnceKilled`, for `FlatKilledRunsNoMore` and
`FlatKillIsDone`: where pending kills are made, nothing is thrown at a tasklet while its kill is pending, it is not bound again
(`throw_killed` and `rebind_killed`, section 3), and tasklets do not catch. `FlatScheduler` satisfies `Flat`, `Plain`,
`SureKills` and `OnceKilled`; `Limits` satisfies `Flat` and `NoThrow`.

The invariant (`SchedulerInvariant`) is `Control` and `Flags`. `Control` says where control can
be: the main tasklet runs the only loop, whatever its stack is below it; every other tasklet that
has begun is suspended in the switch of its `Yield` (`Suspended`, `Stacks`); while one
runs, it is the target of the loop, queued, current, and a child of main, and when main goes on, the
loop is before or after `SwitchTo`'s look at the flags (`Runs`); and a tasklet to be put back
behind the front is on its way and not alone in the queue (`Marks`), without which the
re-insertion follows a null pointer. `Flags` says of each tasklet what may be noted on it at the
place it is at: here, leaving, waking, back in the loop, past `SwitchTo`, away (`Where`,
`Fits`). `AliveUntilDone` is not inductive, as the flag is wrong between the death of a greenlet
and the look at the flags; that the look finds out rests on a wish to be put back,
or a tag, being noted on everybody who comes back alive and on nobody else. From `Flags` follows
also that no exception waits when `SwitchTo` looks for one (`Calm`), on which `Control` depends, and
about each step that exceptions are taken by those they were thrown at (`Proper`).

The first half of `KillIsDone` is about a span of many steps, during which other tasklets may run, and `KillsEnd` says how far each kill
has come. A victim of main is on its last way (`Dying`): it is picked next with the exception waiting,
raises it, is dead, and is noted as dead. A tasklet that kills gives control away itself, and the
order of the queue decides who goes first (`Coming`): the killer moves to the place behind its victim
(`ComesBehind`), or stands there while the victim dies, or comes back when it is dead (`Outlived`). `RunsThrough` says why
nobody comes between: the loop of main runs the first of the queue, does not stop before the queue is
empty, and whoever waits in a call has begun. The lemmas on links (`LinksAfterReturning` and those before it) say what the
insertion in front, behind the front, and the removal of the dead do to these two places.

Pending kills need an invariant of their own, `AllDoomed`: whoever is marked `m_killPending` has a `TaskletExit` waiting, or
is dead or unbound, or is the one in which the exit is being raised. A step may change this at three places only: where the exit is
taken when a switch comes back, and then it propagates, through the frames below (`ReturnKeepsDoomed`), until the greenlet ends;
where a call writes the exception of a tasklet (`KillKeepsDoomed`, `ThrowKeepsDoomed`, the second by `OnceKilled`); and where a
tasklet that has not begun is switched to (`RunSwitchesKeepsDoomed`). With `Flags` it gives both properties while code runs
(`NobodyDoomedCalls`, `TheExitWaits`): code that runs has no exception waiting, and none is being raised.

The module goes through each layer twice, for `Control` and for `Flags`: the queue's operators and
the fields that are not links (`Inserted`, `Moved`, `CameBack`, by the theorems of
`RunQueueProofs`), the shapes of stacks (`Rests`, `Switching`), a call that stays on its greenlet
(`StayingKeepsControl`, `CallKeepsFlags`), one lemma per call of Python code, one per step of the
loop and of `Yield`; `FlatQueueSpec` has a third one that only says which operator was used.

### The scheduler with channels

`TaskletChannelsProofs` and `TaskletBooksProofs` prove about `TaskletChannels`, for any finite sets of tasklets and channels
(`ChannelsAssumption`: the code keeps the active channels in a set that it can walk through;
`MessageAssumption`: a null pointer is no message):

* `ChannelTypeCorrect`: `ChannelSpec => []TypeOK`
* `ChannelCurrentIsActive`: `ChannelSpec =>` always `CurrentIsActive`, `RunnersWait` and
  `LimitsMatchTheCall`
* `ChannelQueueSpec`: `ChannelSpec => QueueSpec`
* `ChannelBookKept`: `ChannelSpec => BookSpec`, it implements `ChannelBook`
* `ChannelBalance`: `ChannelSpec => []BalanceOK`
* `PartnersWake`: `ChannelSpec => []WokenByItsPartner`
* `NoBlockedCode`: `ChannelSpec => []BlockedDoesNotRun`
* `MarksMatchLists`: `ChannelSpec => []BlockedIsListed`
* `MessagesKept`: `ChannelSpec => KeptUntilTaken`
* `NoMessageLeft`: `ChannelSpec => [](InCode => tk[active].args = NULL)`, the second half of `TransferOver`

The first three are in `TaskletChannelsProofs`, the others in `TaskletBooksProofs`.
The hypotheses of the first three are `Flat` and `NoThrow`, which `ChannelClosing` satisfies; sends, receives,
`clear()`, `unblock_all_channels()`, kills, `close()` and the switch trap are all allowed. What a channel adds to
`Control` is that calls other than those of the scheduler are suspended in the stacks, and
continue with what their caller has to do next. So the invariant is `Control(Channels)`, whose
shapes of stacks admit a send or receive on any of the channels, together with `OwnFrames`: a
suspended call of `Send`, `Receive` or `Kill` is that of the greenlet it is found on, and the
loops of `clear()` and `unblock_all_channels()` are found on the main tasklet's stack only.
Without it a send that goes on would withdraw somebody else. The steps of the scheduler keep
`Control(Channels)` by the lemmas of `SchedulerProofs`, which were stated for any set of channels;
new is one lemma per step of a channel (`SendKeepsControl`, `RestsKeepControl`,
`ClearsKeepControl`, ...), all on `Moved` and `Resting` of the queue, and that `OwnFrames` is kept
(`NextOwn`, `TransfersOwn`).

The others have the hypothesis `Gentle`, which `ChannelClosing` satisfies as well. It adds: no
switch trap; no `insert()` of a queued tasklet; main binds no tasklet again; tasklets kill
only with `pending`; and either there is one channel, or main neither kills, clears nor unblocks.
Section 3 tells what goes wrong otherwise: a tasklet leaves its send or receive while it is
listed, or leaves another list than the one it is in.

The invariant is `Books`: what `ChannelBook` keeps true (`Kept`), and what ties it to the rest of
the state. `Noting`: the direction a tasklet notes on itself is that of the list it is in, for the
balance is counted by it. `Placed`: whoever is listed is suspended in the very call that has put it
there, with nothing but that call left to do (`Asleep`), and is marked blocked there; the
exceptions are one who is just being killed, whose mark `Kill` has taken away before it is switched to
(`Killed`), and one who has come back with an exception and is about to withdraw (`Failed`). So a call that
starts is made by somebody who waits nowhere (`CallerIsFree`), and one that goes on finds its tasklet in the list it
joined, or taken out by a partner. That nobody listed is switched to for another reason needs `Sound`: a
mark to be put back in the queue is on its way to the loop, a greenlet that has begun has a stack, and one
that has not has none; `MainSound` and `Ended` say the same of main and of who has just ended.

There is one lemma per operator of `ChannelOps` on `Kept` and `Noting` (`TakenOut`, `LeavesTheBook`,
`JoinsTheBook`, `StaysInTheBook`), and the steps are sorted by what they do to those who wait: a call that leaves
them alone (`QuietCall`), a partner that takes one of them out (`PartnerLeaves`), one that joins
them (`BlockingKeepsBooks`), one whose wait is over (`OperationOver`), all by `CallKeepsBooks`; and
the steps of the loop and of `Yield`, by `LoopMoves`. Each concludes `KeepsBooks`, that `Books` is kept and
the step is one of `ChannelBook`; one lemma per action shows which sort it is.

`PartnersWake` is about the time between a partner's step and the return of the call it has woken, when
the tasklet is in no list any more and `Books` says nothing of it. `Meets` adds: whoever has a
send or receive left on its stack and is in no list has lost, or been given, its message, or an exception
ends the call (`Met`; the exception waits for it, or is on its way up its stack, `Exits`); a send or receive is
the first call of its tasklet, so that there is one to speak of (`Lone`); and an exception waits for
the running tasklet only at the moment it is raised (`Taking`), without which the call
could return while `Exits` still excuses it. The lemmas sort the steps by whom they tell something: nobody
(`Untold`, `CallsMeet`, `LoopMeets`, `ReturnMeets`), a tasklet that is killed (`KillTaskletMeets`), or
the partner (`TransferMeets`); `PartnerWaits` uses `Books` to show that the one who is told waits for just that.

`NoBlockedCode` has the further hypothesis `Unmixed`: a program whose main tasklet uses `kill()`, `clear()` or
`unblock_all_channels()` (`Forced`) kills nobody with `pending` (section 3 tells what happens otherwise) and
unbinds nobody (TLC finds nothing wrong with that; the proof does not follow a dead tasklet into a second life).
`ChannelClosing` satisfies it. `MarksMatchLists` is for programs that are not `Forced`: those of `ChannelClosing`
that do not kill, and any others with pending kills, `raise` and `catch`.
The invariant adds `Strikes` to `Books`. A mark means that its tasklet is listed, or that it is a `Stray`: a
failed kill has marked it, and it is dead or sits in `Yield` with no exception waiting for it (`Marked`). That
a stray stays harmless needs `Urgent`: the exception of a kill is raised at once, the killed one being the
first of the queue or in its `Yield` already, so that no stray is given one before its mark is gone;
and that only tasklets that have begun are marked again, which is a fact about the `Kill` calls suspended on main's
stack (`OwnedFrames(Begun)`): one that has not begun would run its code without a look at the
mark. Whether a tasklet begins in a step is `Ages`; the steps are sorted by what they do to marks and exceptions (`Eases`,
`Frees`), one lemma per action, and `PythonIsFree` with `WaitersSleep` turn the invariant into the two properties.

`MessagesKept` and `NoMessageLeft` are for channels whose preference nobody changes from its default, the receiver. Where the
sender is preferred, `Receive` gives control away between taking the message and returning it (`Receive.taken`); a
receiver that is killed there and catches the exit keeps the message, and its next send overwrites
it (TLC shows it with `preference`, `kill_pending` and `catch`). The invariant adds to `Meets` that every channel
still prefers receivers (`Prefers`), and that whoever has a message has a send left on its stack, or a receive whose
partner has come (`Carried`). A step keeps it that leaves the message, and the send or receive, where they are (`AllHold`,
`Unread`); a call that returns takes its message along or gives it up (`RestsCarry`); and one that blocks or is
given a message has none, the first because nothing is left on its stack (`NothingCarried`), the second because by
`Books` it waits as a receiver.

### What is only model-checked

Progress under fairness, which is beyond the prover: `TeardownEnds`, `LimitedRunEnds`,
`QueuedGetsItsTurn`, `MainWakes`, `ClearReturns`. What `TaskletScheduler` does
with nesting. Of `TaskletChannels`: `BalanceOK`, `BookSpec`, `WokenByItsPartner`, `BlockedDoesNotRun` with nesting and outside
`Gentle`; `BlockedIsListed` with nesting, and with the kills and `clear()` of main (`ChannelKill`, where nobody catches
the exit); `KeptUntilTaken` with nesting; and that no transfer flag is left behind, the first half of `TransferOver`: a
sender that is killed after it has delivered keeps its flag, so that property needs more than `Gentle`.

## 5. What is not modelled

Channel and schedule callbacks: Python code that may call back into the scheduler from
the middle of a C++ call, which the model's stacks do not have (Python code runs there
only on an empty stack); context managers and exception handlers of tasklets; tasklets
destroyed while they are alive, and channels freed while they are cleared; the
branch of `SwitchTo` for another thread's tasklet (`Tasklet.cpp:331`), which no caller
reaches; nested runs in a program of several threads; a manager that cannot be
created; the `block_trap` context manager and the iterators in `__init__.py`, which only call
what is modelled; the descriptive fields of a tasklet (context, call site, run
time); the Stackless compatibility header and the capsule of the C API, which are
other names for the same calls; argument parsing and getters; the GIL guard and string
helpers.

## 6. Plan

1. Done: the run queue with its proof, the scheduler of one thread, channels.
2. Done: the abstract line and book and what implements them, blocked lists as
   pointers, ownership, threads and their teardown, QueueChannel, the proofs about
   channels.
3. Done: the proofs about `Threads`, `Ownership` and `QueueChannel`, and that `RunQueue`
   implements `QueueLine`.
4. Done: `TaskletScheduler` without nesting, kills included, and control, queue, books, wakers and marks of
   `TaskletChannels` without nesting.
5. Done: the messages of `TaskletChannels`. Next: its transfer flags, for programs in which nobody is killed in
   `Send.delivered` or `Receive.taken`; then nesting.
