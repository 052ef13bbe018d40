------------------------------ MODULE Execution ------------------------------
(***************************************************************************)
(* What the driver is promised by an execution strategy (the interface     *)
(* Strategy of execution/strategy.go), whatever the mechanism behind it:   *)
(* a QEMU process is launched or found, the strategy says whether it runs, *)
(* and the channel returned by Start or FindRunning is closed once the     *)
(* process has exited.                                                     *)
(*                                                                         *)
(* The code that uses a strategy may break its promises in two ways.       *)
(*   - It may start a process before the last one is over for the          *)
(*     strategy.  From then on that strategy may confuse its processes     *)
(*     (early): their exits are announced and they are forgotten while     *)
(*     they live.                                                          *)
(*   - It may close a strategy when the exit of its process has happened   *)
(*     but the strategy has not forgotten it.  From then on nothing holds  *)
(*     of the strategies that share resources with it (broken).            *)
(***************************************************************************)
CONSTANTS Strategies,   \* the strategies in use, one per virtual machine
          Procs,        \* QEMU processes, each of which runs at most once
          NoProc,       \* no process (not a member of Procs)
          NoStrategy    \* no strategy (not a member of Strategies)

VARIABLES
    proc,      \* the life of each process
    killed,    \* processes that were sent SIGKILL
    run,       \* the process each strategy says is running
    done,      \* the channel by which the exit of a process is announced
    by,        \* the strategy that made that channel
    closed,    \* strategies that were closed
    early,     \* strategies that may confuse their processes
    broken     \* nothing is promised any more

vars == <<proc, killed, run, done, by, closed, early, broken>>

TypeOK ==
    /\ proc \in [Procs -> {"unborn", "alive", "dead"}]
    /\ killed \in SUBSET Procs
    /\ run \in [Strategies -> Procs \cup {NoProc}]
    /\ done \in [Procs -> {"none", "open", "closed"}]
    /\ by \in [Procs -> Strategies \cup {NoStrategy}]
    /\ closed \in SUBSET Strategies
    /\ early \in SUBSET Strategies
    /\ broken \in BOOLEAN

\* Processes of an earlier life of the driver may be there already.
Init ==
    /\ proc \in [Procs -> {"unborn", "alive", "dead"}]
    /\ killed = {}
    /\ run = [s \in Strategies |-> NoProc]
    /\ done = [p \in Procs |-> "none"]
    /\ by = [p \in Procs |-> NoStrategy]
    /\ closed = {}
    /\ early = {}
    /\ broken = FALSE

\* Nothing runs, and no exit is waiting to be announced.
Idle(s) == run[s] = NoProc /\ \A p \in Procs : by[p] = s => done[p] # "open"

\* Whether the exit of the process will be announced is decided here: when
\* the strategy fails to watch it, Start returns an error, the process runs.
Hold(s, p) ==
    /\ run' = [run EXCEPT ![s] = p]
    /\ \/ /\ done' = [done EXCEPT ![p] = "open"]
          /\ by' = [by EXCEPT ![p] = s]
       \/ UNCHANGED <<done, by>>

Start(s, p) ==
    /\ s \notin closed
    /\ proc[p] = "unborn"
    /\ proc' = [proc EXCEPT ![p] = "alive"]
    /\ Hold(s, p)
    /\ early' = IF Idle(s) THEN early ELSE early \cup {s}
    /\ UNCHANGED <<killed, closed, broken>>

\* Start fails and the strategy forgets a process it held ...
StartFails(s) ==
    /\ s \notin closed
    /\ run[s] # NoProc
    /\ run' = [run EXCEPT ![s] = NoProc]
    /\ early' = early \cup {s}
    /\ UNCHANGED <<proc, killed, done, by, closed, broken>>

\* ... or the process runs and the strategy does not learn of it.
StartUnseen(s, p) ==
    /\ s \notin closed
    /\ proc[p] = "unborn"
    /\ proc' = [proc EXCEPT ![p] = "alive"]
    /\ UNCHANGED <<killed, run, done, by, closed, early, broken>>

FindRunning(s, p) ==
    /\ s \notin closed
    /\ Idle(s)
    /\ proc[p] = "alive"
    /\ done[p] = "none"
    /\ \A t \in Strategies : run[t] # p
    /\ Hold(s, p)
    /\ UNCHANGED <<proc, killed, closed, early, broken>>

Kill(s) ==
    /\ s \notin closed
    /\ run[s] # NoProc
    /\ killed' = killed \cup {run[s]}
    /\ UNCHANGED <<proc, run, done, by, closed, early, broken>>

Exit(p) ==
    /\ proc[p] = "alive"
    /\ proc' = [proc EXCEPT ![p] = "dead"]
    /\ UNCHANGED <<killed, run, done, by, closed, early, broken>>

\* Several exits may be announced at once, none before it has happened.
Announce(ps) ==
    /\ ps # {}
    /\ \A p \in ps : done[p] = "open" /\ (proc[p] = "dead" \/ by[p] \in early)
    /\ done' = [p \in Procs |-> IF p \in ps THEN "closed" ELSE done[p]]
    /\ UNCHANGED <<proc, killed, run, by, closed, early, broken>>

\* Before or after the exit is announced: the strategies differ in that.
Forget(s) ==
    /\ s \notin closed
    /\ run[s] # NoProc
    /\ proc[run[s]] = "dead" \/ s \in early
    /\ run' = [run EXCEPT ![s] = NoProc]
    /\ UNCHANGED <<proc, killed, done, by, closed, early, broken>>

Announced(s) == run[s] # NoProc /\ done[run[s]] = "closed"

OnItsWay(s) == run[s] # NoProc /\ (proc[run[s]] = "dead" \/ s \in early)

Close(s) ==
    /\ s \notin closed
    /\ run' = [run EXCEPT ![s] = NoProc]
    /\ closed' = closed \cup {s}
    /\ broken' \in {broken, broken \/ OnItsWay(s)}
    /\ UNCHANGED <<proc, killed, done, by, early>>

Anything == broken /\ broken' = TRUE

Next ==
    \/ \E s \in Strategies, p \in Procs :
          Start(s, p) \/ StartUnseen(s, p) \/ FindRunning(s, p)
    \/ \E s \in Strategies : StartFails(s) \/ Kill(s) \/ Forget(s) \/ Close(s)
    \/ \E p \in Procs : Exit(p)
    \/ \E ps \in SUBSET Procs : Announce(ps)
    \/ Anything

SafeSpec == Init /\ [][Next]_vars

\* SIGKILL is not survived, and a strategy that is not closed forgets a
\* process whose exit was announced.
Spec ==
    /\ SafeSpec
    /\ \A p \in Procs : WF_vars(~broken /\ p \in killed /\ Exit(p))
    /\ \A s \in Strategies :
          WF_vars(~broken /\ s \notin early /\ Announced(s) /\ Forget(s))

==============================================================================
