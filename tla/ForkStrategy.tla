---------------------------- MODULE ForkStrategy ----------------------------
(***************************************************************************)
(* execution/fork.go: strategies that run QEMU as a child process and      *)
(* learn of its exit from a pidfd waiter, possibly a shared one.           *)
(*                                                                         *)
(* s.mu is held by every method and by the last part of the goroutine that *)
(* watch starts, so each of them is one action.  The goroutine reads       *)
(* s.quitCh without s.mu, at a moment of the scheduler's choosing.         *)
(*                                                                         *)
(* Start and Close are called at any time, as the code allows; FindRunning *)
(* once, on a new strategy (by driver.New, its only caller), and nothing   *)
(* after Close.  Two uses cost promises, and history variables tell which: *)
(*   early   strategies that were told to start a process while they held  *)
(*           another one, whose number then is lost;                       *)
(*   loose   numbers that Close gave up while their last exit was still on *)
(*           its way through the waiter or the goroutine of watch, which   *)
(*           may then hit the next process that gets the number.           *)
(* No action reads them; the properties say what holds outside of them.    *)
(***************************************************************************)
EXTENDS PidfdWaiter

CONSTANTS Strategies,   \* the strategies that share the waiter
          NoFd,         \* the value -1 of s.pidFd
          NoStrategy    \* nobody's process

ASSUME ForkAssumption ==
    /\ NoFd \notin Fds
    /\ NoStrategy \notin Strategies

VARIABLES
    killed,     \* processes that were sent SIGKILL
    pidFile,    \* the process named by the pid file, or NoProc
    pidFd,      \* s.pidFd
    quitCh,     \* s.quitCh
    starter,    \* the strategy a process was started or found by
    goroutine,  \* the goroutine started by watch for a process
    waits,      \* the channel that goroutine receives from
    closed,     \* strategies that were closed
    early,      \* history: strategies used too early
    loose       \* history: numbers given up too early

strategyVars == <<pidFile, pidFd, quitCh, starter, goroutine, waits, closed>>
history == <<early, loose>>
vars == <<waiterVars, killed, strategyVars, history>>

TypeOK ==
    /\ WaiterTypeOK
    /\ killed \in SUBSET Procs
    /\ pidFile \in [Strategies -> Procs \cup {NoProc}]
    /\ pidFd \in [Strategies -> Fds \cup {NoFd}]
    /\ quitCh \in [Strategies -> Procs \cup {NoProc}]
    /\ starter \in [Procs -> Strategies \cup {NoStrategy}]
    /\ goroutine \in [Procs -> {"none", "spawned", "waiting", "finished"}]
    /\ waits \in [Procs -> Procs \cup {NoProc}]
    /\ closed \in SUBSET Strategies
    /\ early \in SUBSET Strategies
    /\ loose \in SUBSET Fds

\* A process of an earlier life of the program may be alive, and a pid file
\* may name it.
Init ==
    /\ WaiterInit
    /\ killed = {}
    /\ pidFile \in [Strategies -> {p \in Procs : proc[p] = "alive"}
                                  \cup {NoProc}]
    /\ \A s, t \in Strategies : pidFile[s] = pidFile[t] => s = t \/ pidFile[s] = NoProc
    /\ pidFd = [s \in Strategies |-> NoFd]
    /\ quitCh = [s \in Strategies |-> NoProc]
    /\ starter = [p \in Procs |-> NoStrategy]
    /\ goroutine = [p \in Procs |-> "none"]
    /\ waits = [p \in Procs |-> NoProc]
    /\ closed = {}
    /\ early = {}
    /\ loose = {}

IsRunning(s) == pidFd[s] # NoFd

\* A goroutine of watch that has not closed s.pidFd yet.
Pending(p) == goroutine[p] \in {"spawned", "waiting"}

------------------------------------------------------------------------------
\* What the code might be, for the checks of the properties.
WatchWithoutGoroutine(s, f, p) ==
    \/ Add(f, p) /\ quitCh' = [quitCh EXCEPT ![s] = p] /\ UNCHANGED goroutine
    \/ AddFails /\ UNCHANGED <<quitCh, goroutine>>

GoroutineFiresEarly(p) ==
    /\ goroutine[p] = "waiting"
    /\ LET s == starter[p]
       IN /\ pidFd' = [pidFd EXCEPT ![s] = NoFd]
          /\ fdProc' = [f \in Fds |-> IF f = pidFd[s] THEN NoProc ELSE fdProc[f]]
    /\ goroutine' = [goroutine EXCEPT ![p] = "finished"]
    /\ UNCHANGED <<proc, registered, armed, fdmap, done, loop, batch, closing,
                   killed, pidFile, quitCh, starter, waits, closed, history>>

GoroutineFiresLeaking(p) ==
    /\ goroutine[p] = "waiting"
    /\ done[waits[p]] = "closed"
    /\ pidFd' = [pidFd EXCEPT ![starter[p]] = NoFd]
    /\ goroutine' = [goroutine EXCEPT ![p] = "finished"]
    /\ UNCHANGED <<waiterVars, killed, pidFile, quitCh, starter, waits, closed,
                   history>>

------------------------------------------------------------------------------
Watch(s, f, p) ==
    \/ /\ Add(f, p)
       /\ quitCh' = [quitCh EXCEPT ![s] = p]
       /\ goroutine' = [goroutine EXCEPT ![p] = "spawned"]
    \/ AddFails /\ UNCHANGED <<quitCh, goroutine>>

\* The pidfd of a process comes into s.pidFd under a number that is free.
Hold(s, f, p) ==
    /\ fdProc[f] = NoProc
    /\ fdProc' = [fdProc EXCEPT ![f] = p]
    /\ pidFd' = [pidFd EXCEPT ![s] = f]
    /\ starter' = [starter EXCEPT ![p] = s]
    /\ Watch(s, f, p)

\* A number that s.pidFd holds is overwritten, not closed.  When watch fails
\* the process runs and Start returns an error.  QEMU writes its pid file.
Start(s, p) ==
    /\ s \notin closed
    /\ proc[p] = "unborn"
    /\ proc' = [proc EXCEPT ![p] = "alive"]
    /\ \E f \in Fds : Hold(s, f, p)
    /\ pidFile' = [pidFile EXCEPT ![s] = p]
    /\ early' = IF IsRunning(s) THEN early \cup {s} ELSE early
    /\ UNCHANGED <<killed, loop, batch, closing, waits, closed, loose>>

\* When the program cannot be executed cmd.Start leaves -1 in s.pidFd.  (Other
\* failures leave it alone.)
StartFails(s) ==
    /\ s \notin closed
    /\ IsRunning(s)
    /\ pidFd' = [pidFd EXCEPT ![s] = NoFd]
    /\ early' = early \cup {s}
    /\ UNCHANGED <<waiterVars, killed, pidFile, quitCh, starter, goroutine,
                   waits, closed, loose>>

Fresh(s) ==
    /\ s \notin closed \cup early
    /\ ~IsRunning(s)
    /\ \A p \in Procs : starter[p] # s

\* FindRunning, when the pid file names a live process ...
FindRunning(s) ==
    /\ Fresh(s)
    /\ \E p \in Procs, f \in Fds :
          /\ p = pidFile[s]
          /\ proc[p] = "alive"
          /\ Hold(s, f, p)
    /\ UNCHANGED <<proc, killed, pidFile, loop, batch, closing, waits, closed,
                   history>>

\* ... and when the process is gone (ESRCH): the pid file is removed.
RemovePidFile(s) ==
    /\ Fresh(s)
    /\ pidFile[s] # NoProc
    /\ proc[pidFile[s]] = "dead"
    /\ pidFile' = [pidFile EXCEPT ![s] = NoProc]
    /\ UNCHANGED <<waiterVars, killed, pidFd, quitCh, starter, goroutine,
                   waits, closed, history>>

\* The signal goes to the process the number stands for, if any (EBADF).
Kill(s) ==
    /\ s \notin closed
    /\ IsRunning(s)
    /\ killed' = killed \cup ({fdProc[pidFd[s]]} \ {NoProc})
    /\ UNCHANGED <<waiterVars, strategyVars, history>>

\* The goroutine of watch evaluates s.quitCh ...
GoroutineReads(p) ==
    /\ goroutine[p] = "spawned"
    /\ goroutine' = [goroutine EXCEPT ![p] = "waiting"]
    /\ waits' = [waits EXCEPT ![p] = quitCh[starter[p]]]
    /\ UNCHANGED <<waiterVars, killed, pidFile, pidFd, quitCh, starter, closed,
                   history>>

\* ... and, once that channel is closed, closes whatever s.pidFd holds.  The
\* interest list keeps an entry that is not taken off by its number as long as
\* another descriptor, which os.Process has of a child, keeps the file open.
GoroutineFires(p) ==
    /\ goroutine[p] = "waiting"
    /\ done[waits[p]] = "closed"
    /\ LET s == starter[p]
       IN /\ pidFd' = [pidFd EXCEPT ![s] = NoFd]
          /\ fdProc' = [f \in Fds |-> IF f = pidFd[s] THEN NoProc ELSE fdProc[f]]
          /\ \E gone \in SUBSET (registered \cap {Entry(f) : f \in Fds \cap {pidFd[s]}}) :
                /\ registered' = registered \ gone
                /\ armed' = armed \ gone
    /\ goroutine' = [goroutine EXCEPT ![p] = "finished"]
    /\ UNCHANGED <<proc, fdmap, done, loop, batch, closing,
                   killed, pidFile, quitCh, starter, waits, closed, history>>

\* The waiter or a goroutine of s is about to act on the number s.pidFd.
ExitOnItsWay(s) ==
    \/ pidFd[s] \in batch /\ fdmap[pidFd[s]] = fdProc[pidFd[s]]
    \/ \E p \in Procs : starter[p] = s /\ Pending(p) /\ done[p] = "closed"
    \/ s \in early

\* Close leaves s.pidFd as it is, and a failing Remove does not stop it.
Close(s) ==
    /\ s \notin closed
    /\ IF IsRunning(s)
       THEN /\ Remove(pidFd[s])
            /\ fdProc' = [fdProc EXCEPT ![pidFd[s]] = NoProc]
            /\ loose' = loose \cup {f \in {pidFd[s]} : ExitOnItsWay(s)}
       ELSE UNCHANGED <<fdProc, registered, armed, fdmap, done, loose>>
    /\ closed' = closed \cup {s}
    /\ UNCHANGED <<proc, loop, batch, closing, killed, pidFile, pidFd, quitCh,
                   starter, goroutine, waits, early>>

\* A process exits by itself, or because it was killed.
Exit(p) ==
    /\ proc[p] = "alive"
    /\ proc' = [proc EXCEPT ![p] = "dead"]
    /\ UNCHANGED <<fdProc, registered, armed, fdmap, done, loop, batch, closing,
                   killed, strategyVars, history>>

\* The waiter's own steps.  Its owner closes it after its last strategy.
WaiterLoop == (EpollWait \/ HandleBatch \/ StopLoop)
              /\ UNCHANGED <<killed, strategyVars, history>>

WaiterClose == Strategies = closed /\ CloseWaiter
               /\ UNCHANGED <<killed, strategyVars, history>>

Next ==
    \/ \E s \in Strategies, p \in Procs : Start(s, p)
    \/ \E s \in Strategies : StartFails(s) \/ FindRunning(s) \/ RemovePidFile(s)
                             \/ Kill(s) \/ Close(s)
    \/ \E p \in Procs : GoroutineReads(p) \/ GoroutineFires(p) \/ Exit(p)
    \/ WaiterLoop
    \/ WaiterClose

SafeSpec == Init /\ [][Next]_vars

\* Goroutines that can run do run, and SIGKILL is not survived.
Fairness ==
    /\ WF_vars(WaiterLoop)
    /\ \A p \in Procs : /\ WF_vars(GoroutineReads(p))
                        /\ WF_vars(GoroutineFires(p))
                        /\ WF_vars(p \in killed /\ Exit(p))

Spec == SafeSpec /\ Fairness

------------------------------------------------------------------------------
(* Properties.                                                             *)

\* The map has the channel of p for a number that was given up too early.
Mixed(p) == \E f \in loose : fdmap[f] = p

\* The channel that Start or FindRunning returned (quitCh) is closed only
\* after the process has exited.  The waiter closes channels by the NUMBER of
\* a pidfd, at a time when the number may belong to another process; only a
\* Close that comes between epoll_wait and the closing lets it hit one.
DoneMeansDead ==
    \A p \in Procs : done[p] = "closed" => proc[p] = "dead" \/ Mixed(p)

\* IsRunning is false only when every process the strategy ever started or
\* found is dead, unless Start was called while one was held, or the process
\* is one whose exit was announced for another that had its number before.
NotRunningMeansDead ==
    \A p \in Procs :
       LET s == starter[p]
       IN (s # NoStrategy /\ s \notin closed \cup early /\ ~IsRunning(s))
             => proc[p] = "dead" \/ Mixed(p)

\* close(ch) in run() panics on a channel that is closed already: no number of
\* a pending batch leads to such a channel, unless it was given up too early.
NoDoubleClose ==
    \A f \in batch \cap Fds :
       fdmap[f] # NoProc => done[fdmap[f]] = "open" \/ f \in loose

\* A pidfd is open exactly as long as the strategy that started or found its
\* process holds it, unless that strategy started another one on top, and the
\* number a strategy holds stands for a process of its own, so Kill never hits
\* another one's, unless the number was given up too early by a strategy whose
\* goroutine then closes it again.
PidFdsAreOwned ==
    /\ \A f \in Fds : fdProc[f] # NoProc =>
          \/ starter[fdProc[f]] \in early
          \/ starter[fdProc[f]] \notin closed /\ pidFd[starter[fdProc[f]]] = f
    /\ \A s \in Strategies \ closed : IsRunning(s) /\ pidFd[s] \notin loose =>
          /\ fdProc[pidFd[s]] # NoProc
          /\ starter[fdProc[pidFd[s]]] = s

\* epoll reports only processes that somebody still holds: what is armed on the
\* interest list is a number that is open and stands for the same process.
\* (The os.Process of a child keeps a duplicate of the pidfd, so the kernel
\* would not clean up by itself.)
InterestIsOpen ==
    \A e \in armed : fdProc[e[1]] = e[2] \/ starter[e[2]] \in early \/ e[1] \in loose

\* After the exit of a watched process its strategy comes to say that nothing
\* runs, unless the strategy is closed first, was used too early, or got a
\* number that was given up too early.
Disturbed(p) ==
    \/ Mixed(p)
    \/ \E s \in Strategies : s = starter[p] /\ (s \in early \/ pidFd[s] \in loose)

ExitIsNoticed ==
    \A p \in Procs :
       (done[p] # "none" /\ proc[p] = "dead")
          ~> (starter[p] \in closed \/ goroutine[p] = "finished" \/ Disturbed(p))

\* The contract of Strategy, as Execution states it.
Run == [s \in Strategies |->
          IF s \in closed \/ pidFd[s] = NoFd THEN NoProc ELSE fdProc[pidFd[s]]]

By == [p \in Procs |-> IF done[p] = "none" THEN NoStrategy ELSE starter[p]]

Exec == INSTANCE Execution WITH run <- Run, by <- By, broken <- (loose # {})

ImplementsExecution == Exec!Spec

==============================================================================
