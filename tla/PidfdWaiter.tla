----------------------------- MODULE PidfdWaiter -----------------------------
(***************************************************************************)
(* pidfd/epoll.go: one goroutine waits with epoll for the exit of any      *)
(* number of processes, each known by a pidfd, and closes a channel per    *)
(* process.  The waiter may be shared by several strategies.               *)
(*                                                                         *)
(* The kernel's side is here too: the processes, the table of open pidfds  *)
(* and the interest list of the epoll instance.  A pidfd is a small number *)
(* that the kernel hands out again once it is closed, so the same number   *)
(* may stand for different processes at different times.  The interest     *)
(* list goes by number AND open file, here by the pair of a number and a   *)
(* process; what epoll_wait returns, and the map, go by the number alone.  *)
(* A process is added at most once, so its channel goes by its name.       *)
(***************************************************************************)
EXTENDS Naturals, FiniteSets

CONSTANTS Procs,      \* processes
          Fds,        \* numbers the kernel may use for a pidfd
          EventFd,    \* the eventfd by which Close wakes the goroutine
          NoProc,     \* no process, no channel
          MaxBatch    \* events one epoll_wait may return (8 in the code)

ASSUME WaiterAssumption ==
    /\ NoProc \notin Procs
    /\ EventFd \notin Fds
    /\ MaxBatch \in Nat \ {0}

VARIABLES
    proc,        \* kernel: the life of each process
    fdProc,      \* kernel: the process an open pidfd stands for, or NoProc
    registered,  \* kernel: the interest list, a set of <<number, process>>
    armed,       \* kernel: its entries that have not fired (EPOLLONESHOT)
    fdmap,       \* e.fdmap: the channel to close for a pidfd, or NoProc
    done,        \* the channels
    loop,        \* run(): in EpollWait, about to lock e.mu, or left the loop
    batch,       \* run(): what the last EpollWait returned
    closing      \* the eventfd was written

waiterVars == <<proc, fdProc, registered, armed, fdmap, done, loop, batch,
                closing>>

WaiterTypeOK ==
    /\ proc \in [Procs -> {"unborn", "alive", "dead"}]
    /\ fdProc \in [Fds -> Procs \cup {NoProc}]
    /\ registered \in SUBSET (Fds \X Procs)
    /\ armed \in SUBSET registered
    /\ fdmap \in [Fds -> Procs \cup {NoProc}]
    /\ done \in [Procs -> {"none", "open", "closed"}]
    /\ loop \in {"wait", "batch", "stopped"}
    /\ batch \in SUBSET (Fds \cup {EventFd})
    /\ closing \in BOOLEAN

WaiterInit ==
    /\ proc \in [Procs -> {"unborn", "alive"}]
    /\ fdProc = [f \in Fds |-> NoProc]
    /\ registered = {}
    /\ armed = {}
    /\ fdmap = [f \in Fds |-> NoProc]
    /\ done = [p \in Procs |-> "none"]
    /\ loop = "wait"
    /\ batch = {}
    /\ closing = FALSE

\* After the eventfd the goroutine leaves its loop with e.mu locked.
MutexFree == loop # "stopped"

\* epoll_ctl knows an entry by the number and the file behind it NOW.
Entry(f) == <<f, fdProc[f]>>

------------------------------------------------------------------------------
\* What the code might be, for the checks of the properties.
NotifyRearming(fs) ==
    /\ done' = [p \in Procs |->
                   IF \E f \in fs : fdmap[f] = p THEN "closed" ELSE done[p]]
    /\ armed' = armed \cup ({Entry(f) : f \in fs} \cap registered)
    /\ UNCHANGED <<registered, fdmap>>

NotifyLeavingArmed(fs) ==
    /\ done' = [p \in Procs |->
                   IF \E f \in fs : fdmap[f] = p THEN "closed" ELSE done[p]]
    /\ registered' = registered \ {Entry(f) : f \in fs}
    /\ armed' = armed \cup ({Entry(f) : f \in fs} \cap registered)
    /\ UNCHANGED fdmap

RemoveLeavingRegistered(f) ==
    /\ MutexFree
    /\ IF fdmap[f] # NoProc /\ Entry(f) \in registered
       THEN fdmap' = [fdmap EXCEPT ![f] = NoProc]
       ELSE UNCHANGED fdmap
    /\ UNCHANGED <<registered, armed, done>>

------------------------------------------------------------------------------
\* Add, when it returns a channel.
Add(f, p) ==
    /\ MutexFree
    /\ fdmap[f] = NoProc
    /\ fdmap' = [fdmap EXCEPT ![f] = p]
    /\ registered' = registered \cup {<<f, p>>}
    /\ armed' = armed \cup {<<f, p>>}
    /\ done' = [done EXCEPT ![p] = "open"]

\* Add, when it returns an error: the number is in the map already, or
\* epoll_ctl fails and the entry just made is deleted again.
AddFails == MutexFree /\ UNCHANGED <<fdmap, registered, armed, done>>

\* Remove leaves the map alone when epoll_ctl does not know the pidfd.
Remove(f) ==
    /\ MutexFree
    /\ IF fdmap[f] # NoProc /\ Entry(f) \in registered
       THEN /\ fdmap' = [fdmap EXCEPT ![f] = NoProc]
            /\ registered' = registered \ {Entry(f)}
            /\ armed' = armed \ {Entry(f)}
       ELSE UNCHANGED <<fdmap, registered, armed>>
    /\ UNCHANGED done

------------------------------------------------------------------------------
\* The kernel reports the exit of a process to an entry that is armed.
Fired(f) == {e \in armed : e[1] = f /\ proc[e[2]] = "dead"}

Ready == {f \in Fds : Fired(f) # {}} \cup {f \in {EventFd} : closing}

\* EpollWait returns without e.mu held: the batch is handled later.
EpollWait ==
    /\ loop = "wait"
    /\ \E events \in SUBSET Ready :
          /\ events # {}
          /\ Cardinality(events) <= MaxBatch
          /\ batch' = events
          /\ armed' = armed \ UNION {Fired(f) : f \in events}
    /\ loop' = "batch"
    /\ UNCHANGED <<proc, fdProc, registered, fdmap, done, closing>>

\* Close the channel the map has NOW for each number, and take the number off
\* the interest list, which has no effect on the entry of a file whose number
\* was closed.  The number stays in the map.
Notify(fs) ==
    LET known == {f \in fs : fdmap[f] # NoProc}
    IN /\ done' = [p \in Procs |->
                      IF \E f \in known : fdmap[f] = p THEN "closed" ELSE done[p]]
       /\ registered' = registered \ {Entry(f) : f \in known}
       /\ armed' = armed \ {Entry(f) : f \in known}
       /\ UNCHANGED fdmap

HandleBatch ==
    /\ loop = "batch"
    /\ EventFd \notin batch
    /\ Notify(batch)
    /\ loop' = "wait"
    /\ batch' = {}
    /\ UNCHANGED <<proc, fdProc, closing>>

\* Events after the eventfd are dropped, and e.mu is never unlocked.
StopLoop ==
    /\ loop = "batch"
    /\ EventFd \in batch
    /\ \E before \in SUBSET (batch \cap Fds) : Notify(before)
    /\ loop' = "stopped"
    /\ batch' = {}
    /\ UNCHANGED <<proc, fdProc, closing>>

CloseWaiter ==
    /\ ~closing
    /\ closing' = TRUE
    /\ UNCHANGED <<proc, fdProc, registered, armed, fdmap, done, loop, batch>>

==============================================================================
