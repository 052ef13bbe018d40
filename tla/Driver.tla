------------------------------- MODULE Driver -------------------------------
(***************************************************************************)
(* driver/driver.go: the life of one virtual machine.                      *)
(*                                                                         *)
(* Start, Stop, Create, GetStatus and Close hold d.mu, so at most one of   *)
(* them is under way; pc says where it is.  Concurrently with it run:      *)
(*   - the QEMU processes,                                                 *)
(*   - the goroutines of the execution strategy, which announce an exit    *)
(*     and then forget the process,                                        *)
(*   - a watcher goroutine per process that publishes events, and takes    *)
(*     d.mu to drop the monitor when the process is gone,                  *)
(*   - Users: callers of the methods that take no lock (GetCPUs,           *)
(*     SetMemory, AttachVolume, ...), each of which begins with            *)
(*     connectMonitor.                                                     *)
(*                                                                         *)
(* The strategy is that of execution/fork.go, alone with its waiter and    *)
(* without the numbers of pidfds (ForkStrategy.tla has them).  New is not  *)
(* an action: Init is what New returns when no QEMU is left from an        *)
(* earlier life of the program.                                            *)
(*                                                                         *)
(* Callers make any call at any time.  Start asks only whether the status  *)
(* is Running, and so it may launch a QEMU while another one lives, or     *)
(* while goroutines are still busy with the last one, which then act on    *)
(* the new one.  The history variable disturbed names the processes that   *)
(* were launched, or still somebody's business, at such a Start; early     *)
(* tells that the strategy was used too early in the sense of Execution.   *)
(* No action reads them; the properties say what holds apart from them.    *)
(***************************************************************************)
EXTENDS Naturals, FiniteSets

CONSTANTS
    Procs,      \* QEMU processes, numbered in the order they are launched
    NoProc,
    Conns,      \* QMP connections, by number
    NoMon,      \* a nil monitor
    Users,      \* callers of the methods that take no lock
    Cids,       \* vsock cids
    NoCid       \* the cid 0

ASSUME DriverAssumption ==
    /\ Procs \subseteq Nat /\ NoProc \notin Procs
    /\ Conns \subseteq Nat /\ NoMon \notin Conns
    /\ NoCid \notin Cids

VARIABLES
    proc,       \* the life of each process; while it lives, QEMU's run state
    shutdown,   \* watchers to which a SHUTDOWN event is on its way
    killed,     \* processes that were sent SIGKILL
    cidOf,      \* the vsock cid of each living process
    held,       \* strategy: the process behind s.pidFd, or NoProc for -1
    done,       \* strategy: the channel that announces the exit
    forgets,    \* strategy: processes whose watch goroutine has not finished
    quitCh,     \* strategy: s.quitCh, by the process whose exit closes it
    waits,      \* strategy: the channel each of those goroutines waits for
    registered, \* strategy: processes on the waiter's interest list
    early,      \* history: a process was started too early
    disturbed,  \* history: processes a Start came too early for
    mon,        \* d.mon
    conn,       \* the process each connection was made to, until Disconnect
    sock,       \* the process that listens on the QMP socket path
    watcher,    \* the watcher goroutine of each process
    watches,    \* the connection whose events it reads
    cancelled,  \* watchers whose context is cancelled
    cancel,     \* d.cancelWatcher: the process of the watcher it cancels
    vsockCid,   \* d.vsockCid
    created,    \* the flag file of Create exists
    pc,         \* what the holder of d.mu does next; "free" without holder
    now,        \* the process Start launched, or the monitor Stop talks to
    heardStop,  \* what Stop's first waiter returned
    heardExit,  \* what Stop's second waiter returned
    result,     \* "start_failed" or "stopped" when the last Start or Stop ended so
    user,       \* the methods without lock
    over        \* "no", "closed" after Close, "panic" after a nil dereference

qemuVars     == <<proc, shutdown, killed, cidOf>>
history      == <<early, disturbed>>
strategyVars == <<held, done, forgets, quitCh, waits, registered, history>>
monVars      == <<mon, conn>>
watcherVars  == <<watcher, watches, cancelled, cancel>>
fileVars     == <<sock, created>>
opVars       == <<pc, now, heardStop, heardExit, result>>
vars == <<qemuVars, strategyVars, monVars, watcherVars, fileVars, opVars,
          vsockCid, user, over>>

RunStates == {"prelaunch", "running", "error", "quitting", "shutdown"}

TypeOK ==
    /\ proc \in [Procs -> RunStates \cup {"unborn", "dead"}]
    /\ shutdown \in SUBSET Procs
    /\ killed \in SUBSET Procs
    /\ cidOf \in [Procs -> Cids \cup {NoCid}]
    /\ held \in Procs \cup {NoProc}
    /\ done \in [Procs -> {"none", "open", "closed"}]
    /\ forgets \in SUBSET Procs
    /\ quitCh \in Procs \cup {NoProc}
    /\ waits \in [Procs -> Procs \cup {NoProc}]
    /\ registered \in SUBSET Procs
    /\ early \in BOOLEAN
    /\ disturbed \in SUBSET Procs
    /\ mon \in Conns \cup {NoMon}
    /\ conn \in [Conns -> Procs \cup {NoProc}]
    /\ sock \in Procs \cup {NoProc}
    /\ watcher \in [Procs -> {"none", "watching", "leaving", "over"}]
    /\ watches \in [Procs -> Conns \cup {NoMon}]
    /\ cancelled \in SUBSET Procs
    /\ cancel \in Procs \cup {NoProc}
    /\ vsockCid \in Cids \cup {NoCid}
    /\ created \in BOOLEAN
    /\ pc \in {"free", "create", "launch", "unwatched", "connect", "continue",
               "status", "quit", "wait", "kill", "clean", "exit"}
    /\ now \in Procs \cup Conns \cup {NoProc}
    /\ heardStop \in {"nothing", "stopped", "exit", "timeout"}
    /\ heardExit \in {"nothing", "exit", "timeout"}
    /\ result \in {"none", "start_failed", "stopped"}
    /\ user \in [Users -> {"idle", "query", "connect"}]
    /\ over \in {"no", "closed", "panic"}

Init ==
    /\ proc = [p \in Procs |-> "unborn"]
    /\ shutdown = {}
    /\ killed = {}
    /\ cidOf = [p \in Procs |-> NoCid]
    /\ held = NoProc
    /\ done = [p \in Procs |-> "none"]
    /\ forgets = {}
    /\ quitCh = NoProc
    /\ waits = [p \in Procs |-> NoProc]
    /\ registered = {}
    /\ early = FALSE
    /\ disturbed = {}
    /\ mon = NoMon
    /\ conn = [c \in Conns |-> NoProc]
    /\ sock = NoProc
    /\ watcher = [p \in Procs |-> "none"]
    /\ watches = [p \in Procs |-> NoMon]
    /\ cancelled = {}
    /\ cancel = NoProc
    /\ vsockCid = NoCid
    /\ created \in BOOLEAN
    /\ pc = "free"
    /\ now = NoProc
    /\ heardStop = "nothing"
    /\ heardExit = "nothing"
    /\ result = "none"
    /\ user = [u \in Users |-> "idle"]
    /\ over = "no"

Alive(p) == p \in Procs /\ proc[p] \in RunStates
Free     == pc = "free" /\ over = "no"
At(l)    == pc = l /\ over = "no"

------------------------------------------------------------------------------
(* The monitor and the status.                                             *)

\* A connection that would answer: QEMU runs and nobody disconnected it.
Answers(c) == c \in Conns /\ Alive(conn[c])

Disconnected == [c \in Conns |-> IF c = mon THEN NoProc ELSE conn[c]]

\* Numbers of connections that nobody refers to any more are used again.
Unused == {c \in Conns : /\ conn[c] = NoProc
                         /\ c \notin {mon, now}
                         /\ \A p \in Procs : watches[p] # c}

\* "existing" are the connections once the broken one is disconnected.
Connects(c, existing) ==
    /\ c \in Unused
    /\ \A d \in Unused : c <= d
    /\ Alive(sock)
    /\ mon' = c
    /\ conn' = [existing EXCEPT ![c] = sock]

\* connectMonitor returns the connection c, or an error (NoMon): d.mon if it
\* answers a query, otherwise a new connection.  A query to a live QEMU may
\* fail; after a failure d.mon stays as it is.
ConnectMonitor(c) ==
    \/ c = mon /\ Answers(c) /\ UNCHANGED monVars
    \/ Connects(c, Disconnected)
    \/ c = NoMon /\ conn' = Disconnected /\ UNCHANGED mon

\* status.go: of the states a driver's QEMU can be in, running is Running.
MapQemuStatus(s) ==
    CASE s = "prelaunch" -> "PausedSystem"
      [] s = "error"     -> "Error"
      [] s = "shutdown"  -> "Unknown"
      [] OTHER           -> "Running"

\* getStatus, with the reconnection it may bring about.  Looking for the flag
\* file may fail.
Status(st) ==
    IF held = NoProc
    THEN /\ st \in {"Unknown", IF created THEN "Stopped" ELSE "Uninitialized"}
         /\ UNCHANGED monVars
    ELSE \E c \in Conns \cup {NoMon} :
            /\ ConnectMonitor(c)
            /\ \/ st = "Unknown"
               \/ c # NoMon /\ st = MapQemuStatus(proc[conn'[c]])

Statuses == {"Stopped", "Uninitialized", "PausedSystem", "Error", "Unknown", "Running"}

\* executionStrategy.Kill(), with its "not running" ignored.
Kill == killed' = killed \cup ({held} \ {NoProc})

\* What the code might be, for the checks of the properties.
HearAny(event) ==
    IF pc \in {"status", "quit", "wait", "kill", "clean", "exit"}
    THEN /\ heardStop' = IF heardStop = "nothing" THEN event ELSE heardStop
         /\ heardExit' = IF heardExit = "nothing" THEN event ELSE heardExit
    ELSE UNCHANGED <<heardStop, heardExit>>

\* Publish, as far as the two waiters of Stop, once subscribed, take notice.
Hear(event) ==
    IF pc \in {"status", "quit", "wait", "kill", "clean", "exit"}
    THEN /\ heardStop' = IF heardStop = "nothing" THEN event ELSE heardStop
         /\ heardExit' = IF heardExit = "nothing" /\ event = "exit"
                         THEN event ELSE heardExit
    ELSE UNCHANGED <<heardStop, heardExit>>

Goto(l) == pc' = l /\ UNCHANGED <<now, heardStop, heardExit, result>>

Hold(l, n, r) ==
    /\ pc' = l
    /\ now' = n
    /\ heardStop' = "nothing"
    /\ heardExit' = "nothing"
    /\ result' = r

Return(r) == Hold("free", NoProc, r)

------------------------------------------------------------------------------
(* Start.                                                                  *)

Living == {p \in Procs : Alive(p)}

\* Nothing runs for the strategy, and no exit is waiting to be announced.
Idle == held = NoProc /\ \A p \in Procs : done[p] # "open"

\* Processes that goroutines still wait for.
Watched == {p \in Procs : watcher[p] = "watching"}

Pending == forgets \cup Watched

\* What the launch of p means for the history.
Notes(p) ==
    /\ early' = (early \/ ~Idle)
    /\ disturbed' = IF Alive(held) \/ Pending # {}
                    THEN disturbed \cup {p} \cup Living \cup Pending
                    ELSE disturbed

\* QEMU p is launched, and s.pidFd refers to it.
Launches(p) ==
    /\ proc[p] = "unborn"
    /\ \A q \in Procs : q < p => proc[q] # "unborn"
    /\ proc' = [proc EXCEPT ![p] = "prelaunch"]
    /\ cidOf' = [cidOf EXCEPT ![p] = vsockCid]
    /\ sock' = p
    /\ Notes(p)

\* The waiter takes the pidfd, and a goroutine is started.
Watches(p) ==
    /\ done' = [done EXCEPT ![p] = "open"]
    /\ registered' = registered \cup {p}
    /\ quitCh' = p
    /\ forgets' = forgets \cup {p}
    /\ pc' = "connect"
    /\ now' = p
    /\ UNCHANGED <<waits, heardStop, heardExit, result>>

Unwatched ==
    Goto("unwatched") /\ UNCHANGED <<done, registered, quitCh, forgets, waits>>

\* What the code might be, for the checks of the properties.
StartConnectsWithoutKill(c) ==
    /\ At("connect")
    /\ ConnectMonitor(c)
    /\ IF c # NoMon
       THEN /\ watcher' = [watcher EXCEPT ![now] = "watching"]
            /\ watches' = [watches EXCEPT ![now] = c]
            /\ cancel' = now
            /\ UNCHANGED cancelled
            /\ Goto("continue")
       ELSE Return("start_failed") /\ UNCHANGED watcherVars
    /\ UNCHANGED <<qemuVars, strategyVars, fileVars, vsockCid, user, over>>

StartLaunchesForgetting(p) ==
    /\ At("launch")
    /\ Launches(p)
    /\ \/ Watches(p) /\ held' = p
       \/ Unwatched /\ held' = NoProc
    /\ UNCHANGED <<shutdown, killed, monVars, watcherVars, created, vsockCid,
                   user, over>>

StopCleansTrusting ==
    /\ At("clean")
    /\ conn' = Disconnected
    /\ mon' = NoMon
    /\ IF heardStop \in {"stopped", "exit"} THEN Return("stopped") ELSE Goto("exit")
    /\ UNCHANGED <<qemuVars, strategyVars, watcherVars, fileVars, vsockCid,
                   user, over>>

StopWaitsForEver ==
    /\ At("wait")
    /\ heardStop \in {"stopped", "exit"}
    /\ Goto("clean")
    /\ UNCHANGED <<qemuVars, strategyVars, monVars, watcherVars, fileVars,
                   vsockCid, user, over>>

CreateBeginsByStatus ==
    /\ Free
    /\ \E st \in Statuses \ {"Running"} : Status(st)
    /\ Goto("create")
    /\ UNCHANGED <<qemuVars, strategyVars, watcherVars, fileVars, vsockCid,
                   user, over>>

ForgetWhenKilled(p) ==
    /\ p \in forgets
    /\ waits[p] \in killed \/ (waits[p] # NoProc /\ done[waits[p]] = "closed")
    /\ over # "panic"
    /\ held' = NoProc
    /\ forgets' = forgets \ {p}
    /\ UNCHANGED <<qemuVars, done, quitCh, waits, registered, history, monVars,
                   watcherVars, fileVars, opVars, vsockCid, user, over>>

WatcherLeavesOnlyCancelled(p) ==
    /\ watcher[p] = "watching"
    /\ p \in cancelled
    /\ over # "panic"
    /\ watcher' = [watcher EXCEPT ![p] = "leaving"]
    /\ watches' = [watches EXCEPT ![p] = NoMon]
    /\ shutdown' = shutdown \ {p}
    /\ UNCHANGED <<proc, killed, cidOf, strategyVars, monVars, cancelled,
                   cancel, fileVars, opVars, vsockCid, user, over>>

------------------------------------------------------------------------------
\* The status is queried, the files of the last run are removed, the cid is
\* allocated and the command is built.  Any of the many steps may fail, before
\* or after d.vsockCid is reset, and before or after it is set.
StartBegins ==
    /\ Free
    /\ \E st \in Statuses :
          /\ Status(st)
          /\ \/ st = "Running" /\ Return("none") /\ UNCHANGED <<sock, vsockCid>>
             \/ /\ st # "Running"
                /\ \/ Return("none") /\ sock' \in {sock, NoProc} /\ UNCHANGED vsockCid
                   \/ /\ Return("none") \/ Hold("launch", NoProc, "none")
                      /\ sock' = NoProc
                      /\ vsockCid' \in Cids \cup {NoCid}
    /\ UNCHANGED <<qemuVars, strategyVars, watcherVars, created, user, over>>

StartFails == Kill /\ Return("start_failed")

\* executionStrategy.Start launches a process, and watches it or returns an
\* error because the pidfd waiter refused the pidfd.  What s.pidFd was is lost.
StartLaunches(p) ==
    /\ At("launch")
    /\ Launches(p)
    /\ held' = p
    /\ Watches(p) \/ Unwatched
    /\ UNCHANGED <<shutdown, killed, monVars, watcherVars, created, vsockCid,
                   user, over>>

StartUnwatched ==
    /\ At("unwatched")
    /\ StartFails
    /\ UNCHANGED <<proc, shutdown, cidOf, strategyVars, monVars, watcherVars,
                   fileVars, vsockCid, user, over>>

\* No process: a log file cannot be made, or the command cannot be executed
\* and s.pidFd becomes -1.
StartCannotLaunch ==
    /\ At("launch")
    /\ \/ StartFails /\ UNCHANGED <<held, history>>
       \/ /\ held' = NoProc
          /\ early' = (early \/ held # NoProc)
          /\ disturbed' = disturbed \cup (Living \cap {held})
          /\ UNCHANGED killed
          /\ Return("start_failed")
    /\ UNCHANGED <<proc, shutdown, cidOf, done, forgets, quitCh, waits, registered,
                   monVars, watcherVars, fileVars, vsockCid, user, over>>

\* connectMonitor and startWatcher.
StartConnects(c) ==
    /\ At("connect")
    /\ ConnectMonitor(c)
    /\ IF c # NoMon
       THEN /\ watcher' = [watcher EXCEPT ![now] = "watching"]
            /\ watches' = [watches EXCEPT ![now] = c]
            /\ cancel' = now
            /\ UNCHANGED <<cancelled, killed>>
            /\ Goto("continue")
       ELSE StartFails /\ UNCHANGED watcherVars
    /\ UNCHANGED <<proc, shutdown, cidOf, strategyVars, fileVars, vsockCid,
                   user, over>>

\* The devices are plugged and QEMU is told to run, over the connection that
\* connectMonitor returned.  Any command may fail.
StartContinues ==
    /\ At("continue")
    /\ \/ /\ Answers(watches[now])
          /\ proc' = [proc EXCEPT ![conn[watches[now]]] = "running"]
          /\ UNCHANGED killed
          /\ Return("none")
       \/ StartFails /\ UNCHANGED proc
    /\ UNCHANGED <<shutdown, cidOf, strategyVars, monVars, watcherVars,
                   fileVars, vsockCid, user, over>>

------------------------------------------------------------------------------
(* Stop.                                                                   *)

\* Connect, start both waiters and wait until they have subscribed.
StopBegins(c) ==
    /\ Free
    /\ ConnectMonitor(c)
    /\ IF c # NoMon
       THEN Hold("status", c, "none")
       ELSE Return("none")
    /\ UNCHANGED <<qemuVars, strategyVars, watcherVars, fileVars, vsockCid,
                   user, over>>

StopChecks ==
    /\ At("status")
    /\ \E st \in Statuses :
          /\ Status(st)
          /\ CASE st = "Running" -> Goto("quit")
               [] st = "Stopped" -> Return("stopped")
               [] OTHER          -> Return("none")
    /\ UNCHANGED <<qemuVars, strategyVars, watcherVars, fileVars, vsockCid,
                   user, over>>

\* When the command fails, the first waiter is told to give up.
StopQuits ==
    /\ At("quit")
    /\ \/ /\ Answers(now)
          /\ proc' = [proc EXCEPT ![conn[now]] = IF @ = "shutdown" THEN @ ELSE "quitting"]
          /\ pc' = "wait"
          /\ UNCHANGED heardStop
       \/ pc' = "kill" /\ heardStop' = "timeout" /\ UNCHANGED proc
    /\ UNCHANGED <<shutdown, killed, cidOf, strategyVars, monVars, watcherVars,
                   fileVars, now, heardExit, result, vsockCid, user, over>>

StopWaits ==
    /\ At("wait")
    /\ heardStop # "nothing"
    /\ Goto(IF heardStop = "timeout" THEN "kill" ELSE "clean")
    /\ UNCHANGED <<qemuVars, strategyVars, monVars, watcherVars, fileVars,
                   vsockCid, user, over>>

\* "not running" ends Stop with an error, and leaves d.mon.
StopKills ==
    /\ At("kill")
    /\ Kill
    /\ IF held = NoProc THEN Return("none") ELSE Goto("clean")
    /\ UNCHANGED <<proc, shutdown, cidOf, strategyVars, monVars, watcherVars,
                   fileVars, vsockCid, user, over>>

\* The monitor is dropped; nothing is awaited if the first waiter saw the exit.
StopCleans ==
    /\ At("clean")
    /\ conn' = Disconnected
    /\ mon' = NoMon
    /\ IF heardStop = "exit" THEN Return("stopped") ELSE Goto("exit")
    /\ UNCHANGED <<qemuVars, strategyVars, watcherVars, fileVars, vsockCid,
                   user, over>>

StopReturns ==
    /\ At("exit")
    /\ heardExit # "nothing"
    /\ Return(IF heardExit = "exit" THEN "stopped" ELSE "none")
    /\ UNCHANGED <<qemuVars, strategyVars, monVars, watcherVars, fileVars,
                   vsockCid, user, over>>

\* Each waiter has a timer of fifteen seconds; both start with Stop.
StopTimesOut ==
    /\ over = "no"
    /\ pc \in {"status", "quit", "wait", "kill", "clean", "exit"}
    /\ \/ heardStop = "nothing" /\ heardStop' = "timeout" /\ UNCHANGED heardExit
       \/ heardExit = "nothing" /\ heardExit' = "timeout" /\ UNCHANGED heardStop
    /\ UNCHANGED <<qemuVars, strategyVars, monVars, watcherVars, fileVars, pc,
                   now, result, vsockCid, user, over>>

------------------------------------------------------------------------------
(* The other locked methods.                                               *)

GetStatus ==
    /\ Free
    /\ \E st \in Statuses : Status(st)
    /\ UNCHANGED <<qemuVars, strategyVars, watcherVars, fileVars, opVars,
                   vsockCid, user, over>>

\* Create goes on to replace the root disk only when IsRunning is false.
CreateBegins ==
    /\ Free
    /\ held = NoProc
    /\ Goto("create")
    /\ UNCHANGED <<qemuVars, strategyVars, monVars, watcherVars, fileVars,
                   vsockCid, user, over>>

\* The disk is converted and the flag file written, or one of them fails.
CreateEnds ==
    /\ At("create")
    /\ created' \in {created, TRUE}
    /\ Goto("free")
    /\ UNCHANGED <<qemuVars, strategyVars, monVars, watcherVars, sock,
                   vsockCid, user, over>>

\* The strategy takes its pidfd off the waiter's list.  The driver is not used
\* after Close.
Close ==
    /\ Free
    /\ cancelled' = cancelled \cup ({cancel} \ {NoProc})
    /\ registered' = registered \ {held}
    /\ over' = "closed"
    /\ UNCHANGED <<qemuVars, held, done, forgets, quitCh, waits, history, monVars,
                   watcher, watches, cancel, fileVars, opVars, vsockCid, user>>

------------------------------------------------------------------------------
(* connectMonitor in the methods that hold no lock: d.mon is read, used and *)
(* assigned at different times.                                            *)

UserCalls(u) ==
    /\ over = "no"
    /\ user[u] = "idle"
    /\ user' = [user EXCEPT ![u] = IF mon = NoMon THEN "connect" ELSE "query"]
    /\ UNCHANGED <<qemuVars, strategyVars, monVars, watcherVars, fileVars,
                   opVars, vsockCid, over>>

UserQueries(u) ==
    /\ over = "no"
    /\ user[u] = "query"
    /\ \/ /\ mon = NoMon
          /\ over' = "panic"
          /\ UNCHANGED <<user, conn>>
       \/ /\ Answers(mon)
          /\ user' = [user EXCEPT ![u] = "idle"]
          /\ UNCHANGED <<conn, over>>
       \/ /\ mon # NoMon
          /\ conn' = Disconnected
          /\ user' = [user EXCEPT ![u] = "connect"]
          /\ UNCHANGED over
    /\ UNCHANGED <<qemuVars, strategyVars, mon, watcherVars, fileVars, opVars,
                   vsockCid>>

\* Another caller's connection may be in d.mon by now: it is not disconnected.
UserConnects(u) ==
    /\ over = "no"
    /\ user[u] = "connect"
    /\ user' = [user EXCEPT ![u] = "idle"]
    /\ UNCHANGED monVars \/ \E c \in Conns : Connects(c, conn)
    /\ UNCHANGED <<qemuVars, strategyVars, watcherVars, fileVars, opVars,
                   vsockCid, over>>

------------------------------------------------------------------------------
(* QEMU.                                                                   *)

\* SHUTDOWN goes to every watcher that reads a connection to this process.
ShutsDown(p) ==
    /\ proc[p] \in {"running", "quitting"}
    /\ proc' = [proc EXCEPT ![p] = "shutdown"]
    /\ shutdown' = shutdown \cup
          {w \in Procs : watches[w] \in Conns /\ conn[watches[w]] = p}
    /\ UNCHANGED <<killed, cidOf, strategyVars, monVars, watcherVars, fileVars,
                   opVars, vsockCid, user, over>>

\* An internal error of QEMU stops the machine, not the process.
Errs(p) ==
    /\ proc[p] = "running"
    /\ proc' = [proc EXCEPT ![p] = "error"]
    /\ UNCHANGED <<shutdown, killed, cidOf, strategyVars, monVars, watcherVars,
                   fileVars, opVars, vsockCid, user, over>>

Exit(p) ==
    /\ Alive(p)
    /\ proc' = [proc EXCEPT ![p] = "dead"]
    /\ cidOf' = [cidOf EXCEPT ![p] = NoCid]
    /\ UNCHANGED <<shutdown, killed, strategyVars, monVars, watcherVars, fileVars,
                   opVars, vsockCid, user, over>>

------------------------------------------------------------------------------
(* The goroutines of the strategy.                                         *)

\* The waiter closes the channel of a process and takes it off its list.
Announce(p) ==
    /\ proc[p] = "dead"
    /\ done[p] = "open"
    /\ p \in registered
    /\ over # "panic"
    /\ done' = [done EXCEPT ![p] = "closed"]
    /\ registered' = registered \ {p}
    /\ UNCHANGED <<qemuVars, held, forgets, quitCh, waits, history, monVars,
                   watcherVars, fileVars, opVars, vsockCid, user, over>>

\* The watch goroutine of p evaluates s.quitCh, without a lock ...
ForgetReads(p) ==
    /\ p \in forgets
    /\ waits[p] = NoProc
    /\ over # "panic"
    /\ waits' = [waits EXCEPT ![p] = quitCh]
    /\ UNCHANGED <<qemuVars, held, done, forgets, quitCh, registered, history,
                   monVars, watcherVars, fileVars, opVars, vsockCid, user, over>>

\* ... and when that is closed, closes whatever pidfd the strategy holds NOW,
\* which may take the process behind it off the waiter's list.
Forget(p) ==
    /\ p \in forgets
    /\ waits[p] # NoProc
    /\ done[waits[p]] = "closed"
    /\ over # "panic"
    /\ held' = NoProc
    /\ registered' \in {registered, registered \ {held}}
    /\ forgets' = forgets \ {p}
    /\ waits' = [waits EXCEPT ![p] = NoProc]
    /\ UNCHANGED <<qemuVars, done, quitCh, history, monVars, watcherVars,
                   fileVars, opVars, vsockCid, user, over>>

------------------------------------------------------------------------------
(* The goroutine of startWatcher.                                          *)

WatcherPublishes(p) ==
    /\ watcher[p] = "watching"
    /\ p \in shutdown
    /\ over # "panic"
    /\ shutdown' = shutdown \ {p}
    /\ Hear("stopped")
    /\ UNCHANGED <<proc, killed, cidOf, strategyVars, monVars, watcherVars,
                   fileVars, pc, now, result, vsockCid, user, over>>

\* The loop ends with the process or with the context, whichever select picks;
\* the exit is published unless the context is cancelled.
WatcherLeaves(p) ==
    /\ watcher[p] = "watching"
    /\ done[p] = "closed" \/ p \in cancelled
    /\ over # "panic"
    /\ watcher' = [watcher EXCEPT ![p] = "leaving"]
    /\ watches' = [watches EXCEPT ![p] = NoMon]
    /\ shutdown' = shutdown \ {p}
    /\ IF p \in cancelled THEN UNCHANGED <<heardStop, heardExit>> ELSE Hear("exit")
    /\ UNCHANGED <<proc, killed, cidOf, strategyVars, monVars, cancelled,
                   cancel, fileVars, pc, now, result, vsockCid, user, over>>

\* Under d.mu, and whatever d.mon and d.cancelWatcher are by now.
WatcherCleans(p) ==
    /\ watcher[p] = "leaving"
    /\ pc = "free"
    /\ over # "panic"
    /\ watcher' = [watcher EXCEPT ![p] = "over"]
    /\ conn' = Disconnected
    /\ mon' = NoMon
    /\ cancel' = NoProc
    /\ UNCHANGED <<qemuVars, strategyVars, watches, cancelled, fileVars,
                   opVars, vsockCid, user, over>>

------------------------------------------------------------------------------
LockedStep ==
    \/ \E p \in Procs : StartLaunches(p)
    \/ StartCannotLaunch \/ StartUnwatched
    \/ \E c \in Conns \cup {NoMon} : StartConnects(c)
    \/ StartContinues
    \/ StopChecks \/ StopQuits \/ StopWaits \/ StopKills \/ StopCleans \/ StopReturns
    \/ CreateEnds

Call ==
    \/ StartBegins \/ GetStatus \/ CreateBegins \/ Close
    \/ \E c \in Conns \cup {NoMon} : StopBegins(c)

Goroutine(p) ==
    \/ Announce(p)
    \/ ForgetReads(p)
    \/ Forget(p)
    \/ WatcherPublishes(p)
    \/ WatcherLeaves(p)

Next ==
    \/ Call
    \/ LockedStep
    \/ StopTimesOut
    \/ \E u \in Users : UserCalls(u) \/ UserQueries(u) \/ UserConnects(u)
    \/ \E p \in Procs : ShutsDown(p) \/ Errs(p) \/ Exit(p)
    \/ \E p \in Procs : Goroutine(p) \/ WatcherCleans(p)

\* The holder of d.mu waits for somebody who may never be done: a QEMU that
\* lives but does not answer (no QMP command has a time limit), or qemu-img.
AwaitsAnswer ==
    \/ pc \in {"connect", "status"} /\ (Answers(mon) \/ Alive(sock))
    \/ pc = "continue" /\ Answers(watches[now])
    \/ pc = "quit" /\ Answers(now)
    \/ pc = "create"

\* Otherwise the holder of d.mu, timers and goroutines make progress; a mutex is
\* not kept from a goroutine for ever (sync.Mutex hands it over after 1ms of
\* starvation); SIGKILL is not survived.  What goroutines do about one process
\* ends after a few steps, so none of them waits for ever for the others.
Fairness ==
    /\ WF_vars(~AwaitsAnswer /\ LockedStep)
    /\ WF_vars(StopTimesOut)
    /\ \A p \in Procs : /\ WF_vars(Goroutine(p))
                        /\ SF_vars(WatcherCleans(p))
                        /\ WF_vars(p \in killed /\ Exit(p))

SafeSpec == Init /\ [][Next]_vars

Spec == SafeSpec /\ Fairness

\* The same for a machine that was created in an earlier life of the program.
CreatedInit == Init /\ created

CreatedSpec == CreatedInit /\ [][Next]_vars /\ Fairness

------------------------------------------------------------------------------
(* Properties.                                                             *)

\* No two QEMU processes run on the disks of one machine, unless Start was called
\* while the one lived, or before its goroutines were over: the driver by itself
\* never loses sight of a QEMU, whatever fails and whoever else calls.
OneQemu == \A p, q \in Living \ disturbed : p = q

\* Stop returns nil only when the QEMU process is gone, whether it quit, was
\* killed, or had exited already, unless Start came too early for it.
StopMeansDead == result = "stopped" => Living \subseteq disturbed

\* A Start that returns an error leaves no QEMU behind that was not killed,
\* unless Start came too early for it.
FailedStartIsKilled == result = "start_failed" => Living \subseteq killed \cup disturbed

\* The root disk is replaced (Create) only when no QEMU runs, unless Start came
\* too early for it.
CreateNeedsNoQemu == pc = "create" => Living \subseteq disturbed

\* "we specifically check for the pidfd here rather than using GetStatus()
\* because it matters whether the qemu process is running" (Create): at least
\* the disk of a QEMU that nobody killed is left alone.
CreateSparesQemu == pc = "create" => Living \subseteq killed

\* "GetVsockCid is the cid the running VM was started with, or 0 if it has no
\* vsock device": as long as the VM runs, whatever other calls are made.
VsockCidIsThatOfVM ==
    \A p \in Living : (proc[p] = "running" /\ p \notin killed) => vsockCid = cidOf[p]

\* The driver with its strategy inside behaves as Execution says: nothing makes
\* the strategy forget a living process, and no exit is announced early, before
\* the first Start that comes too early.
Life(p) == CASE proc[p] = "unborn" -> "unborn"
             [] proc[p] = "dead"   -> "dead"
             [] OTHER              -> "alive"

E == INSTANCE Execution WITH
        Strategies <- {"vm"},
        proc       <- [p \in Procs |-> Life(p)],
        NoStrategy <- "nobody",
        run        <- [s \in {"vm"} |-> IF over = "closed" THEN NoProc ELSE held],
        by         <- [p \in Procs |-> IF done[p] = "none" THEN "nobody" ELSE "vm"],
        closed     <- IF over = "closed" THEN {"vm"} ELSE {},
        early      <- IF early THEN {"vm"} ELSE {},
        broken     <- FALSE

KeepsStrategyContract == E!SafeSpec

\* A method keeps d.mu for ever only while it waits for ever for one and the same
\* answer: Stop gives up on a QEMU that ignores quit, and no waiter depends on
\* the lock that Stop holds.
LockIsReleased ==
    [](pc # "free" /\ over = "no"
          => <>(pc = "free" \/ over = "panic" \/ []AwaitsAnswer))

\* The exit of a QEMU that was started in full is published, its monitor is
\* dropped and the strategy forgets it, whatever the callers do meanwhile, unless
\* Start is called before that, or d.mu is kept for ever.
ExitIsHandled ==
    \A p \in Procs :
       [](proc[p] = "dead" /\ watcher[p] = "watching"
             => <>(\/ watcher[p] = "over" /\ p \notin forgets
                   \/ over # "no"
                   \/ p \in disturbed
                   \/ []AwaitsAnswer))

==============================================================================
