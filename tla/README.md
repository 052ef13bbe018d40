# A verification development for qemu-driver

qemu-driver is a Go library that runs QEMU virtual machines: it launches QEMU
(as a child process or as a transient unit of systemd), talks QMP to it,
notices its exit, and plugs CPUs, memory, volumes and network adapters into a
running machine.  This directory holds TLA+ specifications of the parts of it
that are concurrent or that have to survive failing commands and crashes, the
TLC configurations that check them, and proofs (TLAPS) of their safety properties
for any number of processes, callers and devices.

Paths are relative to the repository's source.

## 1. Inventory

### Components, their state and their operations

| component | source | state | operations | spec |
|---|---|---|---|---|
| pidfd waiter | `pidfd/epoll.go` | `fdmap` (pidfd number -> channel), the epoll interest list, `mu` | `Add`, `Remove`, `Close`; goroutine `run` closes the channel of a pidfd that became readable | `PidfdWaiter` |
| fork strategy | `execution/fork.go` | `pidFd`, `quitCh`, pid file | `Start`, `FindRunning`, `IsRunning`, `Kill`, `Close`; a goroutine per process (`watch`) closes the pidfd after the exit | `ForkStrategy` |
| systemd strategy and waiter | `execution/systemd.go`, `systemd/waiter.go` | `unitName`, `chIn`, `chOut`, unit name file; `unitMap` | the same methods; `watch()` per unit, a goroutine per D-Bus signal | `SystemdStrategy` |
| strategy contract | `execution/strategy.go` | - | the interface the driver programs against | `Execution` |
| driver lifecycle | `driver/driver.go`, `driver/status.go` | `mon`, `cancelWatcher`, `vsockCid`, `mu`; flag file of `Create` | `Create`, `Start`, `Stop`, `GetStatus`, `Close` under `mu`; `startWatcher`'s goroutine; `connectMonitor` in nine methods without lock | `Driver`; `New`, `Create` and `Start` across restarts in `Launch` |
| RESET events | `driver/driver.go` (`startWatcher`) | `lastReset` | ignores the second RESET of a pair | `ResetFilter` |
| CPU and memory hotplug | `driver/driver.go` | none of its own; QEMU's | `SetCPUs`, `SetMemory` | `Hotplug` |
| volumes | `driver/driver.go`, `devices/storage/*.go` | none of its own; QEMU's | `AttachVolume`, `DetachVolume`, two `Plug` methods | `Volumes` |
| network adapters | `driver/driver.go`, `devices/pcie/tapNetwork.go` | none of its own; QEMU's, and fds | `AttachNetworkAdapter`, `DetachNetworkAdapter`, `Plug`, `UnplugTapNetworkDevice` | `Nics` |
| PCIe allocator | `devices/pcie/bus.go` | buses and devices of a description | `AddDevice`, `Allocate` | `PcieBus` |
| root disk, cloud-init image | `driver/driver.go`, `driver/cloudinit.go` | the disk, the flag file; the image, its hash file | `createRootDisk`, `resizeRootdisk`, `generateCloudInitIso` | `Launch` |
| vsock | `driver/vsock.go` | an open vhost-vsock device, passed to QEMU | `openVsock`, `openFreeVsock` | `Launch`; `vsockCid` in `Driver` |
| machine description, command line | `machine/description.go`, `config/`, `cmdBuilder/` | the devices; fds to pass on | `BuildConfig`, `CloseFds` | the devices and the fds in `Launch` |
| QMP monitor | `qmp/monitor.go` | a socket | one method per command; `Events` | as steps of the above |
| escaping of unit names, tools | `systemd/escape.go`, `main.go`, `vmctl/` | none | formatting | not modelled |

### How they interact

- `driver.Start` calls `strategy.Start`, which calls `waiter.Add` and returns
  the channel that will be closed on the exit.  The driver's watcher goroutine
  receives from it, and so does the strategy's own goroutine: two independent
  reactions to one event, in any order.
- The watcher publishes `ProcessExitEvent` and `StoppedEvent` to subscribers;
  `Stop` subscribes two waiters while it holds `d.mu`, and the watcher needs
  `d.mu` after it has published.
- The strategy answers `IsRunning` from `s.pidFd` (or `s.unitName`); the driver
  decides by it whether to replace a root disk, and whether to query QEMU.
- The methods that change devices hold no lock: the QMP commands of concurrent
  callers interleave one by one.
- `Start` asks the allocator where the devices go, and plugs its adapters into
  the root ports that it laid out; `AttachNetworkAdapter` later looks for one
  that is still empty.
- A program that is killed leaves QEMU, files, sockets and perhaps a qemu-img
  behind; the next one learns of them by the pid file or unit name file, and
  by what the flag and hash files say.
- A pidfd waiter may be shared by strategies; the numbers it works with are
  handed out by the kernel, which reuses them at once.

### What is hard here

1. *Numbers that outlive what they stand for.*  `epoll_wait` returns pidfd
   numbers; the map is consulted later; `fdmap` never forgets an exited
   process; a number may be that of another process by then.
2. *Fields read after the fact.*  Both `watch` goroutines use the strategy's
   fields when they get to run, not those of the process they were started for.
3. *A lock held across a wait.*  `Stop` waits, under `d.mu`, for an event of a
   goroutine that takes `d.mu`.
4. *Late clean-up.*  The watcher of an old QEMU drops whatever monitor is
   current when it gets the lock.
5. *Partial failure.*  A `Start` that fails after launching; a DIMM refused
   after its backend was added; a block node without its device.
6. *Time.*  Two fifteen-second timers against two events; the 100ms window of
   RESET; the second of sleep in `DetachVolume`.
7. *Restart of the program* with a QEMU still running (`FindRunning`), or in the
   middle of writing a disk, an image or a hash.

PROJECT.json lists each such place with its line and the properties about it.

### What makes each component correct

- waiter and strategies: the channel is closed only after the exit, once, and
  eventually; "not running" is never said of a living process; no pidfd leaks.
- driver: one QEMU per machine; a failed `Start` leaves nothing running; `Stop`
  returning nil means QEMU is gone; a root disk is not replaced under a QEMU;
  no method keeps `d.mu` for ever; an exit is published and cleaned up after.
- RESET events: no reset is lost, none is published twice.
- hotplug, volumes, adapters: success means what it says, whatever other callers do;
  failures can be retried and have a reason; nothing is left behind.
- launch: a created VM has a whole disk; a started one has what was asked for;
  no second QEMU joins one that outlived the program; leftovers are harmless.
- PCIe allocator: no address twice, buses before what is behind them, function 0
  first, and a root port to itself for everything that is plugged later.

## 2. The modules

| module | what it is |
|---|---|
| `Execution` | abstract: what a strategy promises.  `run[s]` is the process the strategy says is running, `done[p]` the channel; `early` and `broken` say how much of the promise is left after a use that came too early. |
| `PidfdWaiter` | the waiter with the kernel's pidfd table, interest list and EPOLLONESHOT; used by `ForkStrategy` through EXTENDS. |
| `ForkStrategy` | strategies over one waiter; refines `Execution` (`ImplementsExecution`). |
| `SystemdStrategy` | strategy and waiter over systemd's units and signals; refines the safety part of `Execution`. |
| `Driver` | the locked methods of one driver, step by step, with QEMU, the goroutines of the strategy, the watchers and the callers without lock; composed with `Execution`, whose contract it keeps (`KeepsStrategyContract`). |
| `ResetFilter` | the RESET branch of the watcher, with a clock. |
| `Hotplug` | `SetCPUs` and `SetMemory` of several callers, one QMP command per step. |
| `Volumes` | `AttachVolume` and `DetachVolume` of several callers, one QMP command per step. |
| `Nics` | `AttachNetworkAdapter` and `DetachNetworkAdapter` of several callers, one QMP command per step, with the fds that are sent to QEMU.  `MCNics` adds the symmetry for TLC. |
| `PcieBus` | `Allocate` as a function of how many devices cannot be hotplugged and how many can, and what makes a layout sound. |
| `Launch` | `New`, `Create` and `Start` over everything that outlives the program, which may be killed between any two steps; uses `PcieBus`.  `MCLaunch` adds the options for TLC, and symmetry. |
| `ForkStrategyProofs`, `SystemdStrategyProofs`, `DriverProofs`, `ResetFilterProofs`, `HotplugProofs`, `VolumesProofs`, `NicsProofs`, `LaunchProofs` | the theorems about the module of that name; those about `PcieBus` are the first part of `LaunchProofs`. |

Variables are named after the fields they stand for (`pidFd` is `s.pidFd`,
`mon` is `d.mon`), actions after functions, with a suffix where one function
takes several steps (`StopBegins`, `StopChecks`, ...).  PROJECT.json `map`
gives the lines of every definition.

**What is one step.**  In `PidfdWaiter` and `ForkStrategy` a critical section of
`s.mu` or `e.mu` is one step, and so is each unlocked read of the goroutine
(`<-s.quitCh` reads the field, then waits: two steps).  `Start` and
`FindRunning` of the fork strategy take `s.mu` throughout and are atomic towards
the goroutines; the waiter's loop is not excluded by `s.mu`, but all that it
does is close channels, and it needs `e.mu`, as `Add` does.  The waiter handles
a batch under `e.mu`: one step.  In `SystemdStrategy` no lock covers `Start`,
so each of its effects is a step.  In `Driver` a step is what happens between
two points at which another actor could make a difference, with `pc` for the
place; connection attempts and commands may fail at any time.  `Hotplug`,
`Volumes` and `Nics` have one step per QMP command, except that the two queries at
the start of `AttachNetworkAdapter` are one step.  In `Launch` a step is what
changes one thing on disk or one process; a crash within such a step is a step
that failed half way, followed by a crash.

**Definitions under "What the code might be"** are wrong variants of actions,
such as a dropped check; no specification uses them.  They show that a property
would notice: with the variant in place of the original, TLC finds the property
violated (PROJECT.json `mutants`).

### What the environment may do

- Processes exit at any time, killed or not.  A pidfd is a number from a small
  set, reused as soon as it is closed.  A child's `os.Process` keeps a duplicate
  of the pidfd, so closing the number does not by itself end its epoll
  registration.
- systemd emits the signal of an exit after it; signals are handled in any order.
- QEMU may ignore `quit`, the guest may shut down or reset at any time, QEMU may
  stop on an internal error, commands may fail without effect.  In `Hotplug`,
  `Volumes` and `Nics` it refuses names in use, devices without their backing, and removal
  of what is in use, and otherwise commands fail at most `MaxFaults` times, with
  or without having been carried out.
- QEMU takes a netdev away from a device that still uses it; an fd sent under a
  name that is taken replaces the earlier one; `netdev_add` refuses a taken id
  before it looks at its fds, and takes the fds it uses.
- A SIGKILL is delivered; it takes effect later (`Exit`).
- In `Launch` the program may be killed at any step.  QEMU lives on, and so does a
  running qemu-img, which is assumed to have opened the file it writes to; pids
  and unit names are used again after an exit.  QEMU writes its pid file some
  time after its launch, but before it answers QMP, and removes it only when it
  exits by itself.  Other VMs on the host take cids and give them back.
- Subscribers are served by an external library (go-fanout), which is assumed to
  deliver every event to everybody subscribed, without holding up the publisher.

### What callers do, and what it costs them

No model restricts when `Start`, `Stop`, `Create`, `Kill` and `Close` are called, since
the code does not: `driver.Start` rejects a VM only if its status is `Running`, and a
status is `Unknown` whenever a query fails; the strategies do not ask at all.
What the models do take from the code is who calls: `FindRunning` is called by `New`
only, once, on a new strategy; the methods of `driver` that take `d.mu` come one at a
time; nothing is called after `Close`; the waiter is closed by its owner, after its last
strategy (no code of this repository closes one that is shared).

Calls that come too early do harm in this code.  The models let it happen, and *history
variables* name what it may have spoilt.  No action reads one: they restrict no behaviour, and
each property says what is true outside of what they name.

| variable | set by | what may then happen, and TLC shows |
|---|---|---|
| `early` (`ForkStrategy`, `Execution`, `Driver`) | `Start` on top of a process the strategy holds, or before its goroutine is over | the pidfd of the first is lost and stays open; the old goroutine closes the new pidfd; `IsRunning` is false of a living process |
| `early` (`SystemdStrategy`) | a unit started while the last one runs or before its `watch()` is over | `watch()` closes the new channel, or closes one twice and panics |
| `loose` (`ForkStrategy`; `broken` in `Execution`) | `Close` while the exit of the process is in a batch of the waiter, or announced but not handled by the goroutine | the number is reused: the waiter closes the channel of a living process, the goroutine closes the pidfd of another strategy |
| `disturbed` (`Driver`) | a `Start` that launches while a QEMU is held or a goroutine still waits for an exit, for all processes concerned; a `Start` that loses the pidfd | two QEMUs on one disk, a `Stop` that returns nil too early, a failed `Start` that leaves QEMU alive, a disk replaced under it |
| `lost` (`Launch`) | `Start` while a QEMU lives, is not forgotten, or an old goroutine is not over ("joined"); a crash before the pid file is written ("unnamed"); a start without an answer ("unanswered") | a second QEMU, also one that `New` does not find; a cid that is not the one asked for |
| `torn` (`Launch`) | a `Start` that breaks off between the image and its hash file | the old configuration is taken to be on the image |

Each exception is needed: with it removed, TLC refutes the property on the constants of the
same run (`loose` in `NoDoubleClose` and `ExitIsNoticed` only on three processes:
the first leaves a batch pending, a second one's goroutine closes the number
of the third).  So a passing run says that these are the ONLY ways to the harm, for every
interleaving, failure and crash in the model.  `lost` goes back to "no" when `Start`
or `New` finds that nothing of the VM lives any more; the others are never taken back.

## 3. The runs

| run | bounds | checks |
|---|---|---|
| `fork` | 2 strategies, started and closed at any time, 2 processes, 2 pidfd numbers, batches of 2 | `DoneMeansDead`, `NoDoubleClose`, `PidFdsAreOwned`; `ExitIsNoticed`; `ImplementsExecution` |
| `systemd` | 2 units, started at any time | `NoDoubleClose`; `ExitIsNoticed`; `ImplementsExecution` |
| `driver` | 2 QEMUs, which may overlap, 1 connection, 1 caller without lock | `OneQemu`, `StopMeansDead`, `FailedStartIsKilled`, `CreateNeedsNoQemu`; `KeepsStrategyContract` |
| `driver_live` | 2 QEMUs, which may overlap, 1 connection, a VM that was created | `LockIsReleased`, `ExitIsHandled` |
| `driver_create` | 2 QEMUs, 1 cid | `CreateSparesQemu` is violated |
| `driver_vsock` | 2 QEMUs, 1 cid | `VsockCidIsThatOfVM` is violated |
| `resets` | 4 resets, window 2, gaps up to 3, clock up to 12 | `NoResetIsLost`, `PublishedOnceIfTimely` |
| `resets_late` | 2 resets | `TimelySecondIsIgnored` is violated |
| `volumes` | 2 callers, a Ceph volume and an image file, 2 faults | `SuccessIsLasting`, `FailsForAReason` |
| `hotplug` | 2 callers, 3 CPU slots, 3 units of memory, 2 DIMM slots, 1 fault | `NoCpuTooMany`, `SuccessIsEnough`, `NoMemoryTooMuch`, `NoBackendLeft`, `RefusedForAReason` |
| `nics` | 2 callers, 2 adapters, 2 root ports, 2 CPUs (queues), 1 fault | `SuccessIsLasting`, `NoFdIsLeft`, `FailsForAReason` |
| `launch` | both strategies, 2 pids or unit names, 4 sets of options, 1 image, 1 cid; blocks of 4 and numbers of 4 bits | `StoppedMeansWhole`, `StartedAsAsked`, `OneQemuAcrossRestarts`, `LeftoversAreHarmless`, `DevicesAreLaidOut` |

Every run of a module that passes checks its type invariant too; that of `Driver`
is checked by `driver`.  That a strategy which says that nothing runs is
right (`NotRunningMeansDead`) is part of `ImplementsExecution`: `Execution`
forgets a process only when it is dead.

`KeepsStrategyContract` is what puts the parts together.  `Execution` is what both
strategies are shown to implement, whenever they are called; the driver, with a
simplified fork strategy inside, is shown to be one of its behaviours too, so what the
driver's properties assume of a strategy is no more than `Execution` promises, and what
its calls spoil is no more than `early` says.

### Why the bounds are enough for what they show

- *fork*: the kernel reuses a number as soon as it is closed, also while the waiter
  still has a stale entry or a stale batch for it; two strategies make "the right
  one" a question, and let the one take a number the other has just given up; a batch of two
  lets two exits be handled at once.  An old and a new process are enough for each of
  the confusions in the table above; a process found by `FindRunning` is
  one that `Init` has alive.  The theorems remove these bounds for safety.
- *systemd*: with two units, a signal and the goroutine of the first can still be on
  their way when the second is started.  (TLC has also been through three units, with the
  same result, in 3.4 million states.)
- *driver*: two processes let everything of the first (goroutines, watcher,
  connection) outlive it into the life of the second, or the two overlap.  A third life
  only adds more of the same old goroutines.  With one connection a second attempt to connect
  fails while somebody still holds the first, which the code has to cope with anyway.
  (TLC has also been through two connections without the unlocked caller, 3.3 million
  states.)  What `driver` checks is proved for any number of each.  In `driver_live` there
  is no unlocked caller, since liveness checking needs the smaller graph.
- *resets*: a late pair, and timely ones before and after it; also proved without
  bounds.
- *nics*: two callers always compete for the same port although another is free;
  the second CPU may come between two attempts, so that their names differ.
- *launch*: two pids let a file name a process that is not QEMU any more, and a
  second QEMU run beside the first.  The options are chosen to grow the disk and to
  leave it; to change the configuration back and forth; to take a given cid, a free one,
  none, and one that is reserved; and nine adapters fill more than one slot of root
  ports.  A disk may have grown beyond the size asked for, which is refused.  There is
  no bound on the number of crashes and calls.  That a size may be rounded up
  past the largest number is not in TLC's instance; it is in the theorems, which have no
  bounds.
- *volumes*, *hotplug*: two callers give every pair of interleaved calls; the
  second fault of `volumes` lets the retry of a failed call fail too.  Each fault
  counter is a bound on the environment, not on the code.  Proved for any number of
  callers, devices, slots and faults, as is what `nics` checks.

`CHECK_DEADLOCK FALSE` is in every configuration but that of `launch`: processes
are used up (each runs once), volumes and callers may rest, a clock ends, and
after `Close` or a panic nothing more happens.  That no method gets stuck while
it holds the lock is `LockIsReleased`.

### Fairness, and what in the code justifies it

- goroutines that can run do run: the waiter's loop, the `watch` goroutines, the
  watcher (weak fairness), timers expire.  In `Driver` the fairness is that of all
  goroutines about one process together: they have only finitely many steps to take for it,
  so none is kept from running for ever;
- the holder of `d.mu` goes on, EXCEPT where it waits for a QEMU that is alive and may
  never answer, or for qemu-img (`AwaitsAnswer`): no QMP command and no greeting has a
  time limit (`qmp/monitor.go`).  A dead QEMU's socket is closed, and the command fails.
  `LockIsReleased` therefore says that a method keeps the lock for ever only if it waits
  for such an answer for ever, and `ExitIsHandled` has that case as an exception.  A query
  that never returns at the beginning of `Start`, `Stop` or `GetStatus` is a call that
  takes no step: the model does not tell it from one that was not made;
- a goroutine that wants `d.mu` gets it although callers keep taking it: strong
  fairness of `WatcherCleans`.  `sync.Mutex` hands the lock to a waiter that has
  starved for a millisecond;
- a process that was sent SIGKILL exits; a unit that systemd was told to stop
  stops.

No fairness is assumed of callers, of guests, of QEMU (it need not obey `quit`, nor
answer), of systemd's answers to `Start`, or of command success.

### What the violation runs show

1. `resets_late`.  A comment in `startWatcher` says that the second RESET event is
   ignored.  `lastReset` is set only when zero and cleared only when an event is
   dropped.  Once a second event has come late, no event is within the window of
   the time stored, and both events of every later reset are published.
2. `driver_vsock`.  The comment on `GetVsockCid` promises the cid the running VM
   was started with.  `Start` clears the field before anything can fail, and goes
   on whenever the status is not exactly `Running`, which it is not when the query
   fails.
3. `driver_create`.  `Create` asks the strategy rather than QEMU, so that no disk
   is replaced under a live process.  When the status of a running VM cannot be had,
   `Start` goes on; if the command cannot be executed, `cmd.Start` leaves -1 in
   `s.pidFd`, which was that of the running QEMU; `IsRunning` is then false, and
   `Create` proceeds.  The `watch` goroutine of an earlier process gets there by
   another way: when a VM is started again before it got to run, it closes the pidfd of
   the new process and sets the field to -1.  `CreateNeedsNoQemu` of the run
   `driver` says that such a `Start` is the only way.

## 4. What is proved

Every theorem is about the specification itself, for any values of its constants
that satisfy the named assumption.  Every invariant and action property of a run
that passes is the subject of one.  TLC finds no counterexample to the inductive
invariants (`IInv`) of the strategies, `Driver`, `Launch`, `Hotplug`, `Volumes` and `Nics` in the runs of
their modules.

### The fork strategy

`ForkStrategyProofs`, for any sets of strategies, processes and pidfd numbers and
any size of batch, from `WaiterAssumption` and `ForkAssumption` (the null values
are not members of the sets, and batches are not empty):

- `TypeCorrect`, `DoneOnlyAfterExit`, `NotRunningOnlyAfterExit`,
  `ChannelsAreClosedOnce`, `PidFdsHaveOneOwner`, `InterestStaysOpen`: the safety
  properties of `ForkStrategy`;
- `ForkImplementsExecution`: the safety part of the refinement.

There is no assumption about when strategies are started and closed.  What a `Start` on
top of a process, and a `Close` that overtakes an exit, may spoil is excepted in each
statement by `early` and `loose` (section 2), and the refinement maps the latter to
`broken`.

The invariant behind them is `IInv`.  `DoneMeansDead` alone is not inductive: the
loop closes a channel because of a *number*.  What is needed is

- `Entries`: the map and the interest list agree on every number that was not given up
  too early, an entry that is armed leads to an open channel and is in no batch, and
  no two numbers lead to the same channel;
- `Batch`: a number in a pending batch that was not given up since still leads to the
  channel it led to when epoll reported it, open, of a process that is dead;
- `Goroutines`: a goroutine that has not finished waits for the process its strategy
  holds now, unless the strategy was used too early; in a closed strategy it waits for ever,
  or its number is among those given up too early;
- `Ownership`, `PidFiles`, `Sight`: a process belongs to one strategy, which holds an open
  pidfd of it as long as it lives.

The reason that a stale entry does no harm, as long as its number is not given up by a
`Close`, is that it is never removed: `Add` refuses a number that has one, so nothing
can be registered under it.  `Remove` in `Close` is what makes the number usable again.

### The systemd strategy

`SystemdStrategyProofs`, for any set of units, from `SystemdAssumption` (the null
value is no unit), whenever units are started: `TypeCorrect`, `ChannelsAreClosedOnce`, and
`SystemdImplementsExecution`, which is the property of the run itself.  `watch()`
reads `s.unitName`, `s.chIn` and `s.chOut` at three different times, so neither
property is inductive.  The invariant adds

- `Calls`: FindRunning comes first; while a call is about a unit, what of it exists already;
- `Channels`: what `watch()` finds is there, whenever units were started: no channel is
  nil, and those of a unit about to be watched are still nobody's;
- `Goroutines`: until a unit is started too early, a goroutine that is not over is that of
  the last unit, whose channels are those that `s` holds;
- `Deaths`: a signal and a closed channel of the waiter are evidence of an exit, whatever
  was started when; so is a closed channel of the driver until a unit is started too early.

### The driver

`DriverProofs`, for any numbers of lives, connections, cids and callers without
lock, from `DriverAssumption`, and without any assumption about when calls are made:
`TypeCorrect`, `OneQemuAlways`, `StopMeansDeadAlways`, `FailedStartIsKilledAlways`,
`CreateNeedsNoQemuAlways` and the composition with the strategies, `ContractIsKept`.

They are about the *clean* processes, those alive for which no `Start` came too early.
None of the properties is inductive, since what `Stop` and `Create` go by was observed
earlier: an event, an answer of the strategy, a channel.

- `CleanInv`: a clean process is the one the strategy holds, a `Start` under way is about
  it, and every goroutine and watcher that still waits for an exit waits for its exit.
  This survives any `Start`: one that launches beside it makes it, and the new
  process, disturbed;
- `GoroutineInv`, `HeardInv`: a closed channel is evidence of an exit, and an exit that a
  waiter of `Stop` heard of is evidence that no clean QEMU is alive; none is while
  `Create` is at the disk;
- `PendingInv`, `ResultInv`: a result is there only between calls, and stays true
  until the next launch;
- `StrategyInv`: as long as the strategy was not used too early, its goroutine is that of
  the process it holds.

`ContractIsKept` maps every step to one of `Execution` or to a stutter: the steps that
launch, fail to, kill, forget, announce and exit have lemmas of their own, all others are
`UnseenSteps`.

### RESET events

`ResetFilterProofs`, for any window, gaps and number of resets, from
`ResetAssumption`: `TypeCorrect`, `ResetsAreNotLost` and `TimelyResetsArePublishedOnce`.  The
invariant says what `lastReset` can be between resets (zero, or too old to
matter) and in the middle of one (this reset's time, or too old).

### CPU and memory hotplug

`HotplugProofs`, for any numbers of callers, CPU slots, DIMM slots, units of memory
and faults, from `HotplugAssumption`: `TypeCorrect`, `CpusAreBounded`, `SuccessLasts`,
`MemoryIsBounded`, `BackendsAreRemoved` and `RefusalsHaveAReason`, one for each invariant
of the run `hotplug`.  The argument is that interleaved calls do not scatter:

- `CpuInv`: the slots in use are always the first *k*, and what a call is still to plug
  is an interval that starts at *k* + 1 or before, because the code sorts the slots; a
  call that starts before *k* + 1 is refused at its next command, so *k* never passes
  what the calls want;
- `DimmInv`: the DIMMs are numbered 1 to *k*, and no call has a number beyond *k* + 1;
- `BackendInv`: a backend without its DIMM belongs to one call at most, and to exactly one
  as long as no command failed by a fault, although calls may have chosen the same number: QEMU takes a name only once, and the loser fails
  before it has anything to undo;
- `SizeInv`, `AloneInv`: what a call is to add was enough when it asked, memory never
  shrinks, and it is exactly enough as long as the calls do not overlap;
- `RefusalInv`: the number that an undisturbed call has chosen stays free.

QEMU's memory is a variable, the number that `query-memory-size-summary` reports, and not
a sum over the DIMMs: that a sum grows by the size of the DIMM added would be an
induction over the set, which is out of reach (below).

### Volumes

`VolumesProofs`, for any numbers of callers, Ceph volumes, image files and faults, from
`VolumesAssumption`: `TypeCorrect`, `SuccessLasts`, `FailuresHaveAReason`.  They are about
calls that met no fault and no other caller of the same volume.  `AloneInv` says that
such a call has its volume to itself until it is over, so that `ProgressInv` can relate
each of its steps to what it found at the beginning: what is there is what was there,
except for what the call itself has done and a device that the guest let go of
meanwhile.  `CallInv` says that nothing is reported about a volume with a call under way,
which is why a report can only be made false by a later call on that volume.

### Network adapters

`NicsProofs`, for any numbers of callers, adapters, CPUs and faults and any finite set of
root ports, from `NicsAssumption`: `TypeCorrect`, `SuccessLasts`, `FdsAreUsedUp`, and the
action property `RefusalsHaveAReason`.  Here two calls get in each other's way by the
adapter and also by the root port, which both choose before either uses it.

- `CallInv`: queues are sent in order, so what a call has sent is an initial segment of
  its queues, none of which is beyond the CPUs of the VM (`SentOf`); a clean call shares
  neither adapter nor, while it attaches, its port (`Apart`);
- `FdInv`: a tap fd in QEMU is owned by a call that will use it up or close it, unless a
  command failed; no fd has the number of a queue that the VM has no CPU for, and none
  is there for an adapter that is reported as attached: that attach took all of them,
  those left by attempts with fewer queues included, as CPUs are never unplugged;
- `ProgressInv`: how far a clean call has come, and that whatever is in its way was
  there when it began (`excused`).

`EmptyBridge` is a maximum over the empty ports.  That a finite set of numbers has one is
not among the library's facts; `MaxOfFinite` derives it from the well-foundedness of
the strict subsets of a finite set, which is why `NicsAssumption` says that `Ports` is
finite.

### The PCIe allocator

The first part of `LaunchProofs`, for any numbers of devices: `LayoutsAreSound` (all five parts of
`LayoutIsSound`) and `LayoutsFit`: the root ports stay clear of the chipset's slot
exactly as long as there are at most 240.  There is no induction:
`Allocate` is the union of four sets given by arithmetic, and the lemmas compare
them in pairs.  What carries them is `HotFirstFacts`: the first hotplug port is a
multiple of eight that no function of another device lies behind.

### Launch

`LaunchProofs`, for any pids, options, images, configurations, cids and either
strategy, from `LaunchAssumption`: `Typed`, `Whole`, `AsAsked`, `OneQemu`,
`Harmless` and `LaidOut`, one for each property of the run `launch`.  Its
invariant has a part for each kind of thing that is left behind:

- `Sight`: as long as nothing was lost sight of (`lost`), a living QEMU is the one the
  strategy holds, or the one the file names while there is no program to hold it,
  and no goroutine of an earlier one is pending; the other parts rest on this, as
  what belongs to a VM may change only while none runs;
- `DiskInv`: between qemu-img's start and the flag file the flag is not there,
  unless a second Create is replacing the disk;
- `SizeInv`, `IsoInv`: from its own step of `Start` on, the disk has its size and the
  image its configuration; the hash file never names another configuration than
  the image's, unless a generation was broken off;
- `VsockInv`: the cid on its way to QEMU is in the builder's fds or is QEMU's, and
  no other VM's;
- `SocketInv`: past `StartClears` there is no socket in the way; and why a `Start` may
  have failed.

### Only model-checked

Liveness (`ExitIsNoticed`, `LockIsReleased`, `ExitIsHandled`, and the fairness
part of the fork strategy's `ImplementsExecution`) is out of reach of the provers
in use, and so is anything that needs ENABLED, and induction over data.  No safety
property of a passing run depends on that: all of them are proved.  The properties of the
violation runs are of course refuted, by TLC.

## 5. What is not modelled, and why

- `New` on a running VM: it calls `startWatcher` while `d.mon` is nil, and
  `d.mon.Events()` panics.  In `Launch` that is a program which does not come up:
  `New` has no step until the process found has exited.  `Driver` begins where no
  QEMU is left; the strategies' `FindRunning` is modelled in their own modules.
- `Reboot` panics ("implement me").
- In `Driver` the strategy is the fork strategy alone with its waiter: numbers of pidfds
  are in `ForkStrategy`, units in `SystemdStrategy`.
- In `Launch` the goroutines of the strategy are two steps, `Forget` for the process
  held and `ForgetStale` for any earlier one.  They allow more than the code does:
  `Forget` also forgets a process that could not be watched, and `ForgetStale` does
  not ask whether the earlier process has exited yet.
- Reuse of process ids in `ForkStrategy`, whose pid file names a process, not a
  number; `Launch` has it, and there FindRunning misses nothing, but may find a
  process that is not QEMU.  The model lets QEMU's successor under a number be
  only another QEMU of this VM.
- `epoll_wait` failing (the code panics), failures of `NewWaiter`, of the D-Bus
  connection, of reading and writing the small files, except where a failure
  leaves state behind.
- Goroutines and connections that nobody needs any more and that are never
  ended: the two waiters of a `Stop` that returned early, which block on channels
  that nobody reads, and the forwarder of `Events`.
- QMP encoding and the socket monitor of go-qemu: a command is a step that may
  fail.  After a disconnect the watcher gets one empty event and hears nothing
  any more, which in `Driver` is a connection that delivers no SHUTDOWN.
- `systemd/escape.go`: a conversion of names.  A byte below 16 is escaped to one
  digit and unescaped as two, but no unit name has such a byte.
- Contents of files: the ISO of cloud-init, QEMU's configuration, log files.
- Formatting, option handling, the tools `main.go` and `vmctl`.

## 6. Plan

Done, in this order: `PidfdWaiter` and `ForkStrategy` against `Execution`, with
proofs; `SystemdStrategy` against `Execution`, with proofs; `Driver`;
`ResetFilter` with proofs; `Volumes`; `Hotplug`; `Nics`; `PcieBus` and `Launch`,
with proofs; the composition of `Driver` with `Execution`; the proofs about `Driver`,
`Volumes`, `Nics` and `Hotplug`.

Since then: the models of the strategies, of `Driver` and of `Launch` were freed of
restrictions on their callers, and proved again.

Next, proofs: `SuccessIsLasting` for calls that overlap others of the same volume or
adapter, in the cases where it holds (TLC is to say first).

Next, models: `Nics` over the root ports that `PcieBus` lays out, instead of any
set of ports; a pid file that names a process of somebody else.

## 7. Running

    tlc -config ForkStrategy.cfg ForkStrategy
    tlc -config Driver.cfg Driver
    tlc -config MCLaunch.cfg MCLaunch
    tlapm ForkStrategyProofs.tla

PROJECT.json lists every run with its configuration.  `ResetFilter` and `Driver`
have several configurations; the others have one of their own name.  The modules
of proofs have names that end in `Proofs`.
