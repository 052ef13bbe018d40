------------------------------ MODULE DriverProofs ------------------------------
(***************************************************************************)
(* The driver, for any number of lives, connections and callers, whatever  *)
(* calls they make and whenever: the safety properties of run driver, and  *)
(* the contract of Execution.                                              *)
(***************************************************************************)
EXTENDS Driver, TLAPS

\* The living processes that no Start came too early for.
Clean == Living \ disturbed

\* Start is at work on the process it launched.
NowInv == pc \in {"connect", "continue"} => now \in Procs

\* Only a goroutine that has not finished waits for a channel, and no channel
\* is closed before the exit it announces.
GoroutineInv ==
    /\ \A p \in Procs : waits[p] # NoProc => p \in forgets
    /\ \A p \in Procs : done[p] = "closed" => proc[p] = "dead"

\* A clean process is held, Start works on no other, and what goes on in the
\* goroutines goes on for it.
CleanInv ==
    /\ Clean \subseteq {held}
    /\ pc \in {"connect", "continue"} => Clean \subseteq {now}
    /\ \A p \in Clean : /\ Pending \subseteq {p}
                        /\ waits[p] \in {NoProc, p}
                        /\ p \in forgets => quitCh = p

\* Nothing was heard of the last QEMU when the next one is launched, no clean
\* one runs while Create is at the disk, and a waiter of Stop that hears of an
\* exit hears of the last clean one.
HeardInv ==
    /\ pc = "launch" => heardStop = "nothing" /\ heardExit = "nothing"
    /\ pc = "create" => Clean = {}
    /\ "exit" \in {heardStop, heardExit} => Clean = {}

\* Nothing is known of the result while a call is under way ...
PendingInv == pc \notin {"free", "create"} => result = "none"

\* ... and what is known afterwards stays true until the next launch.
ResultInv == StopMeansDead /\ FailedStartIsKilled

\* The goroutines of a strategy that was never used too early know but one
\* process, the one that is held.
StrategyInv ==
    ~early => \A p \in forgets : held = p /\ quitCh = p /\ waits[p] \in {NoProc, p}

CoreInv == /\ GoroutineInv /\ CleanInv /\ HeardInv /\ PendingInv /\ ResultInv
           /\ StrategyInv

IInv == TypeOK /\ NowInv /\ CoreInv

------------------------------------------------------------------------------
(* Types.                                                                  *)

\* Connections are made to processes.
LEMMA ConnectTypes ==
    ASSUME TypeOK, NEW c \in Conns \cup {NoMon}, ConnectMonitor(c)
    PROVE  mon' \in Conns \cup {NoMon} /\ conn' \in [Conns -> Procs \cup {NoProc}]
BY DEF TypeOK, ConnectMonitor, Connects, Disconnected, Unused, Alive, monVars

\* "Stopped" is what the status is only when the strategy holds no process.
LEMMA StatusFacts ==
    ASSUME TypeOK, NEW st \in Statuses, Status(st)
    PROVE  /\ mon' \in Conns \cup {NoMon} /\ conn' \in [Conns -> Procs \cup {NoProc}]
           /\ st = "Stopped" => held = NoProc
<1>1. CASE held = NoProc
  BY <1>1 DEF Status, TypeOK, monVars
<1>2. CASE held # NoProc
  <2>1. PICK c \in Conns \cup {NoMon} :
            /\ ConnectMonitor(c)
            /\ st = "Unknown" \/ (c # NoMon /\ st = MapQemuStatus(proc[conn'[c]]))
    BY <1>2 DEF Status
  <2> QED BY <2>1, ConnectTypes DEF MapQemuStatus
<1> QED BY <1>1, <1>2

LEMMA KillTypes ==
    ASSUME TypeOK, Kill
    PROVE  killed' \in SUBSET Procs
<1>1. held \in Procs \cup {NoProc} /\ killed \subseteq Procs
  BY DEF TypeOK
<1>2. {held} \ {NoProc} \subseteq Procs
  BY <1>1
<1> QED BY <1>1, <1>2 DEF Kill

LEMMA TypeOKStep ==
    ASSUME TypeOK, NowInv, [Next]_vars
    PROVE  TypeOK' /\ NowInv'
<1> USE DriverAssumption DEF TypeOK, qemuVars, strategyVars, monVars, watcherVars,
                             fileVars, opVars, history, NowInv
<1>1. CASE StartBegins
  BY <1>1, StatusFacts DEF StartBegins, Hold, Return
<1>2. CASE GetStatus
  BY <1>2, StatusFacts DEF GetStatus
<1>3. CASE CreateBegins
  BY <1>3 DEF CreateBegins, Goto
<1>4. CASE Close
  <2>1. cancelled' \in SUBSET Procs
    <3>1. {cancel} \ {NoProc} \subseteq Procs
      OBVIOUS
    <3> QED BY <1>4, <3>1 DEF Close
  <2> QED BY <1>4, <2>1 DEF Close
<1>5. ASSUME NEW c \in Conns \cup {NoMon}, StopBegins(c) PROVE TypeOK' /\ NowInv'
  BY <1>5, ConnectTypes DEF StopBegins, Hold, Return
<1>6. ASSUME NEW p \in Procs, StartLaunches(p) PROVE TypeOK' /\ NowInv'
  <2>1. /\ proc' \in [Procs -> RunStates \cup {"unborn", "dead"}]
        /\ cidOf' \in [Procs -> Cids \cup {NoCid}]
        /\ sock' \in Procs
    BY <1>6 DEF StartLaunches, Launches, RunStates
  <2>2. early' \in BOOLEAN /\ disturbed' \in SUBSET Procs
    BY <1>6 DEF StartLaunches, Launches, Notes, Living, Pending, Watched
  <2>3. /\ done' \in [Procs -> {"none", "open", "closed"}]
        /\ forgets' \in SUBSET Procs
        /\ registered' \in SUBSET Procs
        /\ quitCh' \in Procs \cup {NoProc}
        /\ pc' \in {"connect", "unwatched"}
        /\ now' \in Procs \cup Conns \cup {NoProc}
        /\ pc' = "connect" => now' \in Procs
        /\ UNCHANGED <<waits, heardStop, heardExit, result>>
    <3>1. CASE Watches(p)
      BY <3>1 DEF Watches
    <3>2. CASE Unwatched
      BY <3>2 DEF Unwatched, Goto
    <3> QED BY <1>6, <3>1, <3>2 DEF StartLaunches
  <2> QED BY <1>6, <2>1, <2>2, <2>3 DEF StartLaunches
<1>7. CASE StartCannotLaunch
  <2>1. early' \in BOOLEAN /\ disturbed' \in SUBSET Procs
    BY <1>7 DEF StartCannotLaunch, Living, history
  <2> QED BY <1>7, <2>1 DEF StartCannotLaunch, StartFails, Kill, Return, Hold
<1>8. CASE StartUnwatched
  BY <1>8 DEF StartUnwatched, StartFails, Kill, Return, Hold
<1>9. ASSUME NEW c \in Conns \cup {NoMon}, StartConnects(c) PROVE TypeOK' /\ NowInv'
  <2>1. killed' \in SUBSET Procs
    BY <1>9, KillTypes DEF StartConnects, StartFails
  <2>2. /\ mon' \in Conns \cup {NoMon}
        /\ conn' \in [Conns -> Procs \cup {NoProc}]
    BY <1>9, ConnectTypes DEF StartConnects
  <2>3. CASE c # NoMon
    <3>1. now \in Procs /\ c \in Conns /\ pc' = "continue" /\ now' = now
      BY <1>9, <2>3 DEF StartConnects, Goto, At
    <3>2. /\ watcher' \in [Procs -> {"none", "watching", "leaving", "over"}]
          /\ watches' \in [Procs -> Conns \cup {NoMon}]
          /\ cancel' \in Procs /\ cancelled' = cancelled
      BY <1>9, <2>3, <3>1 DEF StartConnects
    <3> QED BY <1>9, <2>1, <2>2, <2>3, <3>1, <3>2 DEF StartConnects, Goto
  <2>4. CASE c = NoMon
    BY <1>9, <2>1, <2>2, <2>4 DEF StartConnects, StartFails, Return, Hold
  <2> QED BY <2>3, <2>4
<1>10. CASE StartContinues
  <2>1. killed' \in SUBSET Procs
    BY <1>10, KillTypes DEF StartContinues, StartFails
  <2> QED BY <1>10, <2>1 DEF StartContinues, StartFails, Return, Hold, RunStates
<1>11. CASE StopChecks
  BY <1>11, StatusFacts DEF StopChecks, Return, Hold, Goto
<1>12. CASE StopQuits
  BY <1>12 DEF StopQuits, RunStates
<1>13. CASE StopWaits
  BY <1>13 DEF StopWaits, Goto
<1>14. CASE StopKills
  BY <1>14, KillTypes DEF StopKills, Return, Hold, Goto
<1>15. CASE StopCleans
  BY <1>15 DEF StopCleans, Disconnected, Return, Hold, Goto
<1>16. CASE StopReturns
  BY <1>16 DEF StopReturns, Return, Hold
<1>17. CASE CreateEnds
  <2>1. created' \in BOOLEAN
    BY <1>17, Zenon DEF CreateEnds
  <2> QED BY <1>17, <2>1 DEF CreateEnds, Goto
<1>18. CASE StopTimesOut
  BY <1>18 DEF StopTimesOut
<1>19. ASSUME NEW u \in Users, UserCalls(u) PROVE TypeOK' /\ NowInv'
  BY <1>19 DEF UserCalls
<1>20. ASSUME NEW u \in Users, UserQueries(u) PROVE TypeOK' /\ NowInv'
  BY <1>20 DEF UserQueries, Disconnected
<1>21. ASSUME NEW u \in Users, UserConnects(u) PROVE TypeOK' /\ NowInv'
  BY <1>21 DEF UserConnects, Connects, Alive, Unused
<1>22. ASSUME NEW p \in Procs, ShutsDown(p) PROVE TypeOK' /\ NowInv'
  <2>1. shutdown' \in SUBSET Procs
    BY <1>22 DEF ShutsDown
  <2> QED BY <1>22, <2>1 DEF ShutsDown, RunStates
<1>23. ASSUME NEW p \in Procs, Errs(p) PROVE TypeOK' /\ NowInv'
  BY <1>23 DEF Errs, RunStates
<1>24. ASSUME NEW p \in Procs, Exit(p) PROVE TypeOK' /\ NowInv'
  BY <1>24 DEF Exit
<1>25. ASSUME NEW p \in Procs, Announce(p) PROVE TypeOK' /\ NowInv'
  BY <1>25 DEF Announce
<1>26. ASSUME NEW p \in Procs, Forget(p) \/ ForgetReads(p) PROVE TypeOK' /\ NowInv'
  <2>1. CASE ForgetReads(p)
    BY <2>1 DEF ForgetReads
  <2>2. CASE Forget(p)
    <3>1. /\ registered' \in SUBSET Procs
          /\ waits' \in [Procs -> Procs \cup {NoProc}]
          /\ forgets' \in SUBSET Procs
      BY <2>2 DEF Forget
    <3> QED BY <2>2, <3>1 DEF Forget
  <2> QED BY <1>26, <2>1, <2>2
<1>27. ASSUME NEW p \in Procs, WatcherPublishes(p) PROVE TypeOK' /\ NowInv'
  BY <1>27 DEF WatcherPublishes, Hear
<1>28. ASSUME NEW p \in Procs, WatcherLeaves(p) PROVE TypeOK' /\ NowInv'
  BY <1>28 DEF WatcherLeaves, Hear
<1>29. ASSUME NEW p \in Procs, WatcherCleans(p) PROVE TypeOK' /\ NowInv'
  BY <1>29 DEF WatcherCleans, Disconnected
<1>30. CASE UNCHANGED vars
  BY <1>30 DEF vars
<1> QED
  BY <1>1, <1>2, <1>3, <1>4, <1>5, <1>6, <1>7, <1>8, <1>9, <1>10, <1>11,
     <1>12, <1>13, <1>14, <1>15, <1>16, <1>17, <1>18, <1>19, <1>20, <1>21,
     <1>22, <1>23, <1>24, <1>25, <1>26, <1>27, <1>28, <1>29, <1>30
     DEF Next, Call, LockedStep, Goroutine

------------------------------------------------------------------------------
(* The inductive invariant.                                                *)

\* A process that QEMU moves from one run state to another lives as before.
LEMMA LivesOn ==
    ASSUME proc \in [Procs -> RunStates \cup {"unborn", "dead"}],
           NEW p, Alive(p), NEW s \in RunStates,
           proc' = [proc EXCEPT ![p] = s]
    PROVE  \A q \in Procs : /\ proc'[q] = "dead" <=> proc[q] = "dead"
                            /\ proc'[q] = "unborn" <=> proc[q] = "unborn"
                            /\ proc'[q] \in RunStates <=> proc[q] \in RunStates
<1>1. p \in Procs /\ proc[p] \in RunStates
  BY DEF Alive
<1>2. \A q \in Procs : proc'[q] = IF q = p THEN s ELSE proc[q]
  BY <1>1
<1>3. {"dead", "unborn"} \cap RunStates = {}
  BY DEF RunStates
<1> QED BY <1>1, <1>2, <1>3

\* The two steps in which the driver moves QEMU to another run state.
LEMMA DriverMovesQemu ==
    ASSUME TypeOK, StartContinues \/ StopQuits
    PROVE  /\ Living' = Living
           /\ \A q \in Procs : /\ proc'[q] = "dead" <=> proc[q] = "dead"
                               /\ proc'[q] = "unborn" <=> proc[q] = "unborn"
<1>0. proc \in [Procs -> RunStates \cup {"unborn", "dead"}]
  BY DEF TypeOK
<1>1. CASE UNCHANGED proc
  BY <1>1 DEF Living, Alive
<1>2. CASE \E p : Alive(p) /\ \E s \in RunStates : proc' = [proc EXCEPT ![p] = s]
  <2>1. PICK p \in Procs, s \in RunStates : Alive(p) /\ proc' = [proc EXCEPT ![p] = s]
    BY <1>2 DEF Alive
  <2>2. \A q \in Procs : /\ proc'[q] = "dead" <=> proc[q] = "dead"
                         /\ proc'[q] = "unborn" <=> proc[q] = "unborn"
                         /\ proc'[q] \in RunStates <=> proc[q] \in RunStates
    BY <1>0, <2>1, LivesOn
  <2> QED BY <2>2 DEF Living, Alive
<1>3. CASE StartContinues
  <2>1. "running" \in RunStates
    BY DEF RunStates
  <2> QED BY <1>1, <1>2, <1>3, <2>1 DEF StartContinues, Answers
<1>4. CASE StopQuits
  <2>1. CASE UNCHANGED proc
    BY <2>1, <1>1
  <2>2. CASE /\ Answers(now)
             /\ proc' = [proc EXCEPT ![conn[now]] = IF @ = "shutdown" THEN @ ELSE "quitting"]
    <3> DEFINE s == IF proc[conn[now]] = "shutdown" THEN "shutdown" ELSE "quitting"
    <3>1. s \in RunStates /\ Alive(conn[now])
      BY <2>2 DEF RunStates, Answers
    <3>2. proc' = [proc EXCEPT ![conn[now]] = s]
      BY <2>2
    <3> HIDE DEF s
    <3> QED BY <3>1, <3>2, <1>2
  <2> QED BY <1>4, <2>1, <2>2 DEF StopQuits
<1> QED BY <1>3, <1>4

\* Steps that leave the strategy alone, start no watcher and bring no process to
\* life or to death keep what the invariant says of processes and goroutines.
LEMMA SameBusiness ==
    ASSUME GoroutineInv, CleanInv, StrategyInv,
           UNCHANGED <<held, done, forgets, quitCh, waits, early, disturbed>>,
           Living' = Living,
           \A q \in Procs : proc'[q] = "dead" <=> proc[q] = "dead",
           Watched' \subseteq Watched,
           pc' \in {"connect", "continue"} => pc \in {"connect", "continue"} /\ now' = now
    PROVE  GoroutineInv' /\ CleanInv' /\ StrategyInv' /\ Clean' = Clean
<1>1. Clean' = Clean /\ Pending' \subseteq Pending
  BY DEF Clean, Pending
<1>2. GoroutineInv'
  BY DEF GoroutineInv
<1>3. CleanInv'
  BY <1>1 DEF CleanInv
<1>4. StrategyInv'
  BY DEF StrategyInv
<1> QED BY <1>1, <1>2, <1>3, <1>4

\* The calls of the driver that launch nothing, and what they do to processes.
LEMMA LockedSteps ==
    ASSUME TypeOK, CoreInv, NEW c \in Conns \cup {NoMon},
           \/ StartBegins \/ GetStatus \/ CreateBegins \/ Close \/ StopBegins(c)
           \/ StartUnwatched \/ StartContinues \/ CreateEnds \/ StopChecks
           \/ StopQuits \/ StopWaits \/ StopKills \/ StopCleans \/ StopReturns
    PROVE  CoreInv'
<1> DEFINE quick == \/ StartBegins \/ GetStatus \/ CreateBegins \/ Close \/ StopBegins(c)
                    \/ StartUnwatched \/ CreateEnds \/ StopChecks \/ StopWaits
                    \/ StopKills \/ StopCleans \/ StopReturns
<1> USE DEF CoreInv, Free, At, Return, Hold, Goto
<1>1. /\ UNCHANGED <<held, done, forgets, quitCh, waits, early, disturbed, watcher>>
      /\ pc' \in {"connect", "continue"} => FALSE
  BY DEF StartBegins, GetStatus, CreateBegins, Close, StopBegins, StartUnwatched,
         StartContinues, CreateEnds, StopChecks, StopQuits, StopWaits, StopKills,
         StopCleans, StopReturns, StartFails, strategyVars, history, watcherVars, opVars
<1>2. Living' = Living /\ \A q \in Procs : proc'[q] = "dead" <=> proc[q] = "dead"
  <2>1. CASE StartContinues \/ StopQuits
    BY <2>1, DriverMovesQemu
  <2>2. CASE quick
    <3>1. proc' = proc
      BY <2>2 DEF StartBegins, GetStatus, CreateBegins, Close, StopBegins, StartUnwatched,
             CreateEnds, StopChecks, StopWaits, StopKills, StopCleans, StopReturns, qemuVars
    <3> QED BY <3>1 DEF Living, Alive
  <2> QED BY <2>1, <2>2
<1>3. Watched' = Watched
  BY <1>1 DEF Watched
<1>4. GoroutineInv' /\ CleanInv' /\ StrategyInv' /\ Clean' = Clean
  BY <1>1, <1>2, <1>3, SameBusiness
<1>5. held = NoProc => Clean = {}
  BY DriverAssumption DEF CleanInv, Clean, Living
<1>6. HeardInv'
  BY <1>4, <1>5 DEF HeardInv, StartBegins, GetStatus, CreateBegins, Close, StopBegins,
         StartUnwatched, StartContinues, CreateEnds, StopChecks, StopQuits, StopWaits,
         StopKills, StopCleans, StopReturns, StartFails, opVars
<1>7. PendingInv'
  BY DEF PendingInv, StartBegins, GetStatus, CreateBegins, Close, StopBegins,
         StartUnwatched, StartContinues, CreateEnds, StopChecks, StopQuits, StopWaits,
         StopKills, StopCleans, StopReturns, StartFails, opVars
<1>8. killed' = killed \/ Kill
  BY DEF StartBegins, GetStatus, CreateBegins, Close, StopBegins, StartUnwatched,
         StartContinues, CreateEnds, StopChecks, StopQuits, StopWaits, StopKills,
         StopCleans, StopReturns, StartFails, qemuVars
<1>9. killed \subseteq killed'
  BY <1>8 DEF Kill
<1>10. /\ result' = "stopped" => result = "stopped" \/ Clean = {}
       /\ result' = "start_failed" => result = "start_failed" \/ Kill
  BY <1>5, StatusFacts
     DEF StartBegins, GetStatus, CreateBegins, Close, StopBegins, StartUnwatched,
         StartContinues, CreateEnds, StopChecks, StopQuits, StopWaits, StopKills,
         StopCleans, StopReturns, StartFails, opVars, HeardInv
<1>11. Kill => Clean \subseteq killed'
  BY DriverAssumption DEF Kill, CleanInv, Clean, Living
<1>12. ResultInv'
  BY <1>1, <1>2, <1>4, <1>9, <1>10, <1>11
     DEF ResultInv, StopMeansDead, FailedStartIsKilled, Clean
<1> QED BY <1>4, <1>6, <1>7, <1>12

\* The timers, the callers without the lock, the run states of QEMU, and the
\* watchers.
LEMMA UnlockedSteps ==
    ASSUME TypeOK, CoreInv, NEW u, NEW p,
           \/ StopTimesOut \/ UserCalls(u) \/ UserQueries(u) \/ UserConnects(u)
           \/ /\ p \in Procs
              /\ \/ ShutsDown(p) \/ Errs(p)
                 \/ WatcherPublishes(p) \/ WatcherLeaves(p) \/ WatcherCleans(p)
    PROVE  CoreInv'
<1> USE DEF CoreInv
<1>1. /\ UNCHANGED <<held, done, forgets, quitCh, waits, early, disturbed, killed>>
      /\ UNCHANGED <<pc, now, result>>
  BY DEF StopTimesOut, UserCalls, UserQueries, UserConnects, ShutsDown, Errs,
         WatcherPublishes, WatcherLeaves, WatcherCleans, strategyVars, history,
         qemuVars, opVars
<1>2. Living' = Living /\ \A q \in Procs : proc'[q] = "dead" <=> proc[q] = "dead"
  <2>1. CASE UNCHANGED proc
    BY <2>1 DEF Living, Alive
  <2>2. CASE p \in Procs /\ (ShutsDown(p) \/ Errs(p))
    <3>1. PICK s \in RunStates : proc' = [proc EXCEPT ![p] = s]
      BY <2>2 DEF ShutsDown, Errs, RunStates
    <3>2. Alive(p)
      BY <2>2 DEF ShutsDown, Errs, Alive, RunStates
    <3> QED BY <3>1, <3>2, LivesOn DEF TypeOK, Living, Alive
  <2> QED
    BY <2>1, <2>2 DEF StopTimesOut, UserCalls, UserQueries, UserConnects,
         WatcherPublishes, WatcherLeaves, WatcherCleans, qemuVars
<1>3. Watched' \subseteq Watched
  <2>1. CASE UNCHANGED watcher
    BY <2>1 DEF Watched
  <2>2. CASE p \in Procs /\ (WatcherLeaves(p) \/ WatcherCleans(p))
    BY <2>2 DEF Watched, WatcherLeaves, WatcherCleans, TypeOK
  <2> QED
    BY <2>1, <2>2 DEF StopTimesOut, UserCalls, UserQueries, UserConnects, ShutsDown,
         Errs, WatcherPublishes, watcherVars
<1>4. GoroutineInv' /\ CleanInv' /\ StrategyInv' /\ Clean' = Clean
  BY <1>1, <1>2, <1>3, SameBusiness
<1>5. HeardInv'
  <2>1. CASE UNCHANGED <<heardStop, heardExit>>
    BY <1>1, <1>4, <2>1 DEF HeardInv
  <2>2. CASE StopTimesOut
    BY <1>1, <1>4, <2>2 DEF HeardInv, StopTimesOut
  <2>3. CASE p \in Procs /\ WatcherPublishes(p)
    BY <1>1, <1>4, <2>3 DEF HeardInv, WatcherPublishes, Hear
  <2>4. CASE p \in Procs /\ WatcherLeaves(p)
    <3>1. CASE p \in cancelled
      BY <2>1, <2>4, <3>1 DEF WatcherLeaves
    <3>2. CASE p \notin cancelled
      \* The exit is that of p, which is the only one a clean process waits for.
      <4>1. proc[p] = "dead" /\ p \in Watched
        BY <2>4, <3>2 DEF WatcherLeaves, GoroutineInv, Watched
      <4>2. p \notin Living
        BY <4>1 DEF Living, Alive, RunStates
      <4>3. Clean = {}
        BY <4>1, <4>2 DEF CleanInv, Clean, Pending, Living
      <4> QED BY <1>1, <1>4, <2>4, <3>2, <4>3 DEF HeardInv, WatcherLeaves, Hear
    <3> QED BY <3>1, <3>2
  <2> QED
    BY <2>1, <2>2, <2>3, <2>4 DEF UserCalls, UserQueries, UserConnects, ShutsDown,
         Errs, WatcherCleans, opVars
<1>6. PendingInv' /\ ResultInv'
  BY <1>1, <1>2 DEF PendingInv, ResultInv, StopMeansDead, FailedStartIsKilled
<1> QED BY <1>4, <1>5, <1>6

\* The process that is launched is clean when nothing of an earlier one goes on,
\* and otherwise no process is.
LEMMA LaunchStep ==
    ASSUME TypeOK, CoreInv, NEW p \in Procs, StartLaunches(p)
    PROVE  CoreInv'
<1> USE DEF CoreInv
<1>1. /\ pc = "launch" /\ held' = p /\ killed' = killed /\ watcher' = watcher
      /\ proc[p] = "unborn" /\ proc' = [proc EXCEPT ![p] = "prelaunch"]
      /\ UNCHANGED <<waits, heardStop, heardExit, result>>
      /\ result = "none" /\ heardStop = "nothing" /\ heardExit = "nothing"
  BY DEF StartLaunches, Launches, Watches, Unwatched, Goto, At, watcherVars, HeardInv,
         PendingInv
<1>2. \/ /\ done' = [done EXCEPT ![p] = "open"] /\ quitCh' = p
         /\ forgets' = forgets \cup {p} /\ pc' = "connect" /\ now' = p
      \/ UNCHANGED <<done, quitCh, forgets, now>> /\ pc' = "unwatched"
  BY DEF StartLaunches, Watches, Unwatched, Goto
<1>3. /\ Living' = Living \cup {p} /\ p \notin Living
      /\ \A q \in Procs : proc[q] = "dead" => proc'[q] = "dead"
  BY <1>1 DEF TypeOK, Living, Alive, RunStates
<1>4. Watched' = Watched
  BY <1>1 DEF Watched
<1>5. p \notin Living' \ disturbed' \/ Pending = {}
  BY DEF StartLaunches, Launches, Notes
<1>6. Clean' \subseteq {p} /\ (Clean' # {} => Pending = {})
  <2>1. CASE Alive(held) \/ Pending # {}
    <3>1. disturbed' = disturbed \cup {p} \cup Living \cup Pending
      BY <2>1 DEF StartLaunches, Launches, Notes
    <3> QED BY <1>3, <3>1 DEF Clean
  <2>2. CASE ~Alive(held) /\ Pending = {}
    <3>1. disturbed' = disturbed /\ Clean = {}
      BY <2>2 DEF StartLaunches, Launches, Notes, CleanInv, Clean, Living
    <3> QED BY <1>3, <2>2, <3>1 DEF Clean
  <2> QED BY <2>1, <2>2
<1>7. GoroutineInv'
  BY <1>1, <1>2, <1>3 DEF GoroutineInv, TypeOK
<1>8. CleanInv'
  <2>1. CASE Clean' = {}
    BY <2>1 DEF CleanInv
  <2>2. CASE Clean' # {}
    <3>1. Clean' = {p} /\ Pending = {}
      BY <1>6, <2>2
    <3>2. waits[p] = NoProc
      BY <3>1 DEF GoroutineInv, Pending
    <3>3. Pending' \subseteq {p} /\ (p \in forgets' => quitCh' = p)
      BY <1>2, <1>4, <3>1 DEF Pending
    <3>4. pc' \in {"connect", "continue"} => now' = p
      BY <1>2
    <3> QED BY <1>1, <3>1, <3>2, <3>3, <3>4 DEF CleanInv
  <2> QED BY <2>1, <2>2
<1>9. StrategyInv'
  <2>1. CASE early'
    BY <2>1 DEF StrategyInv
  <2>2. CASE ~early'
    <3>1. ~early /\ held = NoProc
      BY <2>2 DEF StartLaunches, Launches, Notes, Idle
    <3>2. forgets = {}
      BY <3>1, DriverAssumption DEF StrategyInv, TypeOK
    <3>3. waits[p] = NoProc
      BY <3>2 DEF GoroutineInv
    <3> QED BY <1>1, <1>2, <3>2, <3>3 DEF StrategyInv
  <2> QED BY <2>1, <2>2
<1>10. HeardInv' /\ PendingInv' /\ ResultInv'
  BY <1>1, <1>2 DEF HeardInv, PendingInv, ResultInv, StopMeansDead, FailedStartIsKilled
<1> QED BY <1>7, <1>8, <1>9, <1>10

\* A launch that fails: a clean process that the strategy held was killed, or
\* Start came too early for it.
LEMMA CannotLaunchStep ==
    ASSUME TypeOK, CoreInv, StartCannotLaunch
    PROVE  CoreInv'
<1> USE DEF CoreInv
<1>1. /\ pc' = "free" /\ result' = "start_failed" /\ heardStop' = "nothing"
      /\ heardExit' = "nothing"
      /\ UNCHANGED <<proc, done, forgets, quitCh, waits, watcher>>
  BY DEF StartCannotLaunch, StartFails, Return, Hold, watcherVars
<1>2. Living' = Living /\ Watched' = Watched
  BY <1>1 DEF Living, Alive, Watched
<1>3. CASE Kill /\ UNCHANGED <<held, history>>
  <2>1. GoroutineInv' /\ CleanInv' /\ StrategyInv' /\ Clean' = Clean
    BY <1>1, <1>2, <1>3, SameBusiness DEF history
  <2>2. Clean \subseteq killed'
    BY <1>3, DriverAssumption DEF Kill, CleanInv, Clean, Living
  <2>3. HeardInv' /\ PendingInv' /\ ResultInv'
    BY <1>1, <2>1, <2>2
       DEF HeardInv, PendingInv, ResultInv, StopMeansDead, FailedStartIsKilled, Clean
  <2> QED BY <2>1, <2>3
<1>4. CASE /\ held' = NoProc /\ early' = (early \/ held # NoProc)
           /\ disturbed' = disturbed \cup (Living \cap {held})
  <2>1. Clean' = {}
    BY <1>2, <1>4 DEF CleanInv, Clean
  <2>2. GoroutineInv' /\ CleanInv'
    BY <1>1, <2>1 DEF GoroutineInv, CleanInv
  <2>3. StrategyInv'
    BY <1>1, <1>4, DriverAssumption DEF StrategyInv, TypeOK
  <2>4. HeardInv' /\ PendingInv' /\ ResultInv'
    BY <1>1, <2>1
       DEF HeardInv, PendingInv, ResultInv, StopMeansDead, FailedStartIsKilled, Clean
  <2> QED BY <2>2, <2>3, <2>4
<1> QED BY <1>3, <1>4 DEF StartCannotLaunch, StartFails

\* The watcher that is started is that of the clean process.
LEMMA ConnectStep ==
    ASSUME TypeOK, NowInv, CoreInv, NEW c \in Conns \cup {NoMon}, StartConnects(c)
    PROVE  CoreInv'
<1> USE DEF CoreInv
<1>1. /\ pc = "connect" /\ now \in Procs /\ Clean \subseteq {now}
      /\ UNCHANGED <<proc, held, done, forgets, quitCh, waits, early, disturbed>>
  BY DEF StartConnects, At, NowInv, CleanInv, strategyVars, history
<1>2. Clean' = Clean /\ Living' = Living
  BY <1>1 DEF Clean, Living, Alive
<1>3. CASE c = NoMon
  <2>1. /\ Kill /\ pc' = "free" /\ result' = "start_failed" /\ heardStop' = "nothing"
        /\ heardExit' = "nothing" /\ watcher' = watcher
    BY <1>3 DEF StartConnects, StartFails, Return, Hold, watcherVars
  <2>2. Watched' = Watched
    BY <2>1 DEF Watched
  <2>3. GoroutineInv' /\ CleanInv' /\ StrategyInv'
    BY <1>1, <1>2, <2>1, <2>2, SameBusiness
  <2>4. Clean \subseteq killed'
    BY <2>1, DriverAssumption DEF Kill, CleanInv, Clean, Living
  <2>5. HeardInv' /\ PendingInv' /\ ResultInv'
    BY <1>2, <2>1, <2>4
       DEF HeardInv, PendingInv, ResultInv, StopMeansDead, FailedStartIsKilled, Clean
  <2> QED BY <2>3, <2>5
<1>4. CASE c # NoMon
  <2>1. /\ pc' = "continue" /\ watcher' = [watcher EXCEPT ![now] = "watching"]
        /\ UNCHANGED <<now, heardStop, heardExit, result>>
    BY <1>4 DEF StartConnects, Goto
  <2>2. Watched' \subseteq Watched \cup {now}
    BY <1>1, <2>1 DEF Watched, TypeOK
  <2>3. CleanInv'
    BY <1>1, <1>2, <2>1, <2>2 DEF CleanInv, Pending
  <2>4. GoroutineInv' /\ StrategyInv' /\ HeardInv' /\ PendingInv' /\ ResultInv'
    BY <1>1, <1>2, <2>1
       DEF GoroutineInv, StrategyInv, HeardInv, PendingInv, ResultInv, StopMeansDead,
           FailedStartIsKilled
  <2> QED BY <2>3, <2>4
<1> QED BY <1>3, <1>4

LEMMA ExitStep ==
    ASSUME TypeOK, CoreInv, NEW p \in Procs, Exit(p)
    PROVE  CoreInv'
<1> USE DEF CoreInv
<1>1. /\ proc' = [proc EXCEPT ![p] = "dead"]
      /\ UNCHANGED <<held, done, forgets, quitCh, waits, early, disturbed, watcher, killed>>
      /\ UNCHANGED <<pc, now, heardStop, heardExit, result>>
  BY DEF Exit, strategyVars, history, watcherVars, opVars
<1>2. Living' \subseteq Living /\ Clean' \subseteq Clean
  BY <1>1 DEF TypeOK, Clean, Living, Alive, RunStates
<1>3. Pending' = Pending
  BY <1>1 DEF Pending, Watched
<1>4. GoroutineInv' /\ StrategyInv'
  BY <1>1 DEF GoroutineInv, StrategyInv, TypeOK
<1>5. CleanInv'
  BY <1>1, <1>2, <1>3 DEF CleanInv
<1>6. HeardInv' /\ PendingInv' /\ ResultInv'
  BY <1>1, <1>2 DEF HeardInv, PendingInv, ResultInv, StopMeansDead, FailedStartIsKilled
<1> QED BY <1>4, <1>5, <1>6

LEMMA AnnounceStep ==
    ASSUME TypeOK, CoreInv, NEW p \in Procs, Announce(p)
    PROVE  CoreInv'
<1> USE DEF CoreInv
<1>1. /\ proc[p] = "dead" /\ done' = [done EXCEPT ![p] = "closed"]
      /\ UNCHANGED <<proc, held, forgets, quitCh, waits, early, disturbed, watcher, killed>>
      /\ UNCHANGED <<pc, now, heardStop, heardExit, result>>
  BY DEF Announce, qemuVars, history, watcherVars, opVars
<1>2. Living' = Living /\ Clean' = Clean /\ Pending' = Pending
  BY <1>1 DEF Clean, Living, Alive, Pending, Watched
<1>3. GoroutineInv' /\ StrategyInv'
  BY <1>1 DEF GoroutineInv, StrategyInv, TypeOK
<1>4. CleanInv'
  BY <1>1, <1>2 DEF CleanInv
<1>5. HeardInv' /\ PendingInv' /\ ResultInv'
  BY <1>1, <1>2 DEF HeardInv, PendingInv, ResultInv, StopMeansDead, FailedStartIsKilled
<1> QED BY <1>3, <1>4, <1>5

\* The goroutine of a clean process waits for its own channel ...
LEMMA ForgetReadsStep ==
    ASSUME TypeOK, CoreInv, NEW p \in Procs, ForgetReads(p)
    PROVE  CoreInv'
<1> USE DEF CoreInv
<1>1. /\ p \in forgets /\ waits' = [waits EXCEPT ![p] = quitCh]
      /\ UNCHANGED <<proc, held, done, forgets, quitCh, early, disturbed, watcher, killed>>
      /\ UNCHANGED <<pc, now, heardStop, heardExit, result>>
  BY DEF ForgetReads, qemuVars, history, watcherVars, opVars
<1>2. Living' = Living /\ Clean' = Clean /\ Pending' = Pending
  BY <1>1 DEF Clean, Living, Alive, Pending, Watched
<1>3. GoroutineInv' /\ StrategyInv'
  BY <1>1 DEF GoroutineInv, StrategyInv, TypeOK
<1>4. CleanInv'
  <2> SUFFICES ASSUME NEW q \in Clean PROVE waits'[q] \in {NoProc, q}
    BY <1>1, <1>2 DEF CleanInv
  <2>1. q \in Procs /\ p = q /\ quitCh = q
    BY <1>1 DEF CleanInv, Pending, Clean, Living
  <2> QED BY <1>1, <2>1 DEF TypeOK
<1>5. HeardInv' /\ PendingInv' /\ ResultInv'
  BY <1>1, <1>2 DEF HeardInv, PendingInv, ResultInv, StopMeansDead, FailedStartIsKilled
<1> QED BY <1>3, <1>4, <1>5

\* ... and so no goroutine makes the strategy forget a clean process.
LEMMA ForgetStep ==
    ASSUME TypeOK, CoreInv, NEW p \in Procs, Forget(p)
    PROVE  CoreInv'
<1> USE DEF CoreInv
<1>1. /\ p \in forgets /\ waits[p] # NoProc /\ done[waits[p]] = "closed"
      /\ held' = NoProc /\ forgets' = forgets \ {p}
      /\ waits' = [waits EXCEPT ![p] = NoProc]
      /\ UNCHANGED <<proc, done, quitCh, early, disturbed, watcher, killed>>
      /\ UNCHANGED <<pc, now, heardStop, heardExit, result>>
  BY DEF Forget, qemuVars, history, watcherVars, opVars
<1>2. Clean = {}
  <2> SUFFICES ASSUME NEW q \in Clean PROVE FALSE
    OBVIOUS
  <2>1. q \in Procs /\ p = q /\ waits[p] = q /\ proc[q] # "dead"
    BY <1>1 DEF CleanInv, Pending, Clean, Living, Alive, RunStates
  <2> QED BY <1>1, <2>1 DEF GoroutineInv
<1>3. Living' = Living /\ Clean' = {}
  BY <1>1, <1>2 DEF Clean, Living, Alive
<1>4. GoroutineInv' /\ CleanInv'
  BY <1>1, <1>3 DEF GoroutineInv, CleanInv, TypeOK
<1>5. StrategyInv'
  BY <1>1 DEF StrategyInv, TypeOK
<1>6. HeardInv' /\ PendingInv' /\ ResultInv'
  BY <1>1, <1>2, <1>3
     DEF HeardInv, PendingInv, ResultInv, StopMeansDead, FailedStartIsKilled
<1> QED BY <1>4, <1>5, <1>6

LEMMA CoreInvStep ==
    ASSUME TypeOK, NowInv, CoreInv, [Next]_vars
    PROVE  CoreInv'
<1>1. CASE Call
  BY <1>1, LockedSteps DEF Call
<1>2. CASE LockedStep
  BY <1>2, LockedSteps, LaunchStep, CannotLaunchStep, ConnectStep DEF LockedStep
<1>3. CASE StopTimesOut \/ \E u \in Users : UserCalls(u) \/ UserQueries(u) \/ UserConnects(u)
  BY <1>3, UnlockedSteps
<1>4. ASSUME NEW p \in Procs,
             ShutsDown(p) \/ Errs(p) \/ WatcherPublishes(p) \/ WatcherLeaves(p) \/ WatcherCleans(p)
      PROVE  CoreInv'
  BY <1>4, UnlockedSteps
<1>5. ASSUME NEW p \in Procs, Exit(p) \/ Announce(p) \/ ForgetReads(p) \/ Forget(p)
      PROVE  CoreInv'
  BY <1>5, ExitStep, AnnounceStep, ForgetReadsStep, ForgetStep
<1>6. CASE UNCHANGED vars
  BY <1>6, SameBusiness
     DEF vars, CoreInv, HeardInv, PendingInv, ResultInv, StopMeansDead,
         FailedStartIsKilled, Living, Alive, Watched, opVars, strategyVars, history,
         qemuVars, watcherVars
<1> QED BY <1>1, <1>2, <1>3, <1>4, <1>5, <1>6 DEF Next, Goroutine

LEMMA InitIInv ==
    ASSUME Init
    PROVE  IInv
BY DriverAssumption
   DEF Init, IInv, TypeOK, NowInv, CoreInv, GoroutineInv, CleanInv, HeardInv, PendingInv,
       ResultInv, StrategyInv, StopMeansDead, FailedStartIsKilled, Clean, Living, Alive,
       RunStates

------------------------------------------------------------------------------
(* The theorems.                                                           *)

\* Every variable keeps its type, whenever the callers start a VM.
THEOREM TypeCorrect == SafeSpec => []TypeOK
<1>1. Init => TypeOK /\ NowInv
  BY InitIInv DEF IInv
<1>2. TypeOK /\ NowInv /\ [Next]_vars => TypeOK' /\ NowInv'
  BY TypeOKStep
<1> QED BY <1>1, <1>2, PTL DEF SafeSpec

LEMMA Invariance == SafeSpec => []IInv
<1>1. Init => IInv
  BY InitIInv
<1>2. IInv /\ [Next]_vars => IInv'
  BY TypeOKStep, CoreInvStep DEF IInv
<1> QED BY <1>1, <1>2, PTL DEF SafeSpec

\* No two QEMU processes run on the disks of one machine, among those that no
\* Start came too early for.
THEOREM OneQemuAlways == SafeSpec => []OneQemu
<1>1. IInv => OneQemu
  BY DEF IInv, CoreInv, CleanInv, OneQemu, Clean
<1> QED BY <1>1, Invariance, PTL

\* Stop returns nil only when QEMU is gone, unless Start came too early for it.
THEOREM StopMeansDeadAlways == SafeSpec => []StopMeansDead
<1>1. IInv => StopMeansDead
  BY DEF IInv, CoreInv, ResultInv
<1> QED BY <1>1, Invariance, PTL

\* A Start that returns an error leaves no QEMU behind that was not killed, unless
\* Start came too early for it.
THEOREM FailedStartIsKilledAlways == SafeSpec => []FailedStartIsKilled
<1>1. IInv => FailedStartIsKilled
  BY DEF IInv, CoreInv, ResultInv
<1> QED BY <1>1, Invariance, PTL

\* Create replaces the root disk only when no QEMU runs, unless Start came too
\* early for it.
THEOREM CreateNeedsNoQemuAlways == SafeSpec => []CreateNeedsNoQemu
<1>1. IInv => CreateNeedsNoQemu
  BY DEF IInv, CoreInv, HeardInv, CreateNeedsNoQemu, Clean
<1> QED BY <1>1, Invariance, PTL

------------------------------------------------------------------------------
(* The driver with its strategy inside keeps the contract of Execution.    *)

Lives    == [p \in Procs |-> Life(p)]
Runs     == [s \in {"vm"} |-> IF over = "closed" THEN NoProc ELSE held]
Makers   == [p \in Procs |-> IF done[p] = "none" THEN "nobody" ELSE "vm"]
IsClosed == IF over = "closed" THEN {"vm"} ELSE {}
IsEarly  == IF early THEN {"vm"} ELSE {}

LEMMA SameView ==
    ASSUME UNCHANGED <<killed, held, done, over, early>>, Lives' = Lives
    PROVE  UNCHANGED E!vars
BY DEF E!vars, Lives

LEMMA InitRefines ==
    ASSUME Init
    PROVE  E!Init
<1>1. Lives = [p \in Procs |-> "unborn"] /\ Makers = [p \in Procs |-> "nobody"]
  BY DEF Init, Lives, Makers, Life
<1>2. Runs = [s \in {"vm"} |-> NoProc] /\ IsClosed = {} /\ IsEarly = {}
  BY DEF Init, Runs, IsClosed, IsEarly
<1> QED BY <1>1, <1>2 DEF Init, E!Init, Lives, Makers, Runs, IsClosed, IsEarly

LEMMA LaunchRefines ==
    ASSUME IInv, NEW p \in Procs, StartLaunches(p)
    PROVE  E!Start("vm", p)
<1>1. over = "no" /\ over' = "no" /\ held' = p
  BY DEF StartLaunches, At
<1>2. proc[p] = "unborn" /\ proc' = [proc EXCEPT ![p] = "prelaunch"] /\ killed' = killed
  BY DEF StartLaunches, Launches
<1>3. Lives[p] = "unborn" /\ Lives' = [Lives EXCEPT ![p] = "alive"]
  BY <1>2 DEF IInv, TypeOK, Lives, Life
<1>4. Runs' = [Runs EXCEPT !["vm"] = p] /\ IsClosed = {} /\ IsClosed' = {}
  BY <1>1 DEF Runs, IsClosed
<1>5. \/ done' = [done EXCEPT ![p] = "open"] /\ Makers' = [Makers EXCEPT ![p] = "vm"]
      \/ done' = done /\ Makers' = Makers
  BY DEF StartLaunches, Watches, Unwatched, Makers, IInv, TypeOK
<1>6. IsEarly' = IF E!Idle("vm") THEN IsEarly ELSE IsEarly \cup {"vm"}
  <2>1. E!Idle("vm") <=> Idle
    BY <1>1 DEF E!Idle, Idle
  <2>2. early' = (early \/ ~Idle)
    BY DEF StartLaunches, Launches, Notes
  <2> QED BY <2>1, <2>2 DEF IsEarly
<1> QED BY <1>2, <1>3, <1>4, <1>5, <1>6
        DEF Lives, Runs, Makers, IsClosed, IsEarly, E!Start, E!Hold

\* "not running" of a Kill changes nothing.
LEMMA KillRefines ==
    ASSUME IInv, Kill, over = "no", UNCHANGED <<held, done, over, early>>, Lives' = Lives
    PROVE  E!Kill("vm") \/ UNCHANGED E!vars
<1>1. CASE held = NoProc
  <2>1. killed' = killed
    BY <1>1 DEF Kill
  <2> QED BY <2>1, SameView
<1>2. CASE held # NoProc
  <2>1. killed' = killed \cup {held}
    BY <1>2 DEF Kill
  <2> QED BY <1>2, <2>1 DEF Lives, E!Kill
<1> QED BY <1>1, <1>2

\* A command that cannot be executed makes the strategy forget what it held.
LEMMA CannotLaunchRefines ==
    ASSUME IInv, StartCannotLaunch
    PROVE  E!StartFails("vm") \/ E!Kill("vm") \/ UNCHANGED E!vars
<1>1. over = "no" /\ UNCHANGED <<proc, done, over>>
  BY DEF StartCannotLaunch, At
<1>2. Lives' = Lives
  BY <1>1 DEF Lives, Life
<1>3. CASE Kill /\ UNCHANGED <<held, history>>
  BY <1>1, <1>2, <1>3, KillRefines DEF history
<1>4. CASE held' = NoProc /\ early' = (early \/ held # NoProc) /\ UNCHANGED killed
  <2>1. CASE held = NoProc
    <3>1. early' = early
      BY <1>4, <2>1 DEF IInv, TypeOK
    <3> QED BY <1>1, <1>2, <1>4, <2>1, <3>1, SameView
  <2>2. CASE held # NoProc
    BY <1>1, <1>2, <1>4, <2>2 DEF Lives, E!StartFails
  <2> QED BY <2>1, <2>2
<1> QED BY <1>3, <1>4 DEF StartCannotLaunch, StartFails

\* The process that a goroutine forgets is the one whose exit it heard of, before
\* the first Start that comes too early.
LEMMA ForgetRefines ==
    ASSUME IInv, NEW p \in Procs, Forget(p)
    PROVE  E!Forget("vm") \/ UNCHANGED E!vars
<1>1. /\ p \in forgets /\ waits[p] # NoProc /\ done[waits[p]] = "closed"
      /\ held' = NoProc /\ UNCHANGED <<proc, killed, done, over, early>>
  BY DEF Forget, qemuVars, history
<1>2. Lives' = Lives
  BY <1>1 DEF Lives, Life
<1>3. CASE over = "closed" \/ held = NoProc
  BY <1>1, <1>2, <1>3 DEF E!vars, Lives
<1>4. CASE over # "closed" /\ held # NoProc
  <2>1. ~early => held = p /\ proc[p] = "dead"
    BY <1>1 DEF IInv, CoreInv, StrategyInv, GoroutineInv
  <2>2. Lives[held] = "dead" \/ early
    BY <2>1 DEF Lives, Life
  <2> QED BY <1>1, <1>2, <1>4, <2>2 DEF E!Forget, Lives
<1> QED BY <1>3, <1>4

LEMMA AnnounceRefines ==
    ASSUME IInv, NEW p \in Procs, Announce(p)
    PROVE  E!Announce({p})
<1>1. done' = [done EXCEPT ![p] = "closed"] /\ done[p] = "open" /\ proc[p] = "dead"
  BY DEF Announce
<1>2. done' = [q \in Procs |-> IF q \in {p} THEN "closed" ELSE done[q]]
  BY <1>1 DEF IInv, TypeOK
<1>3. UNCHANGED <<proc, killed, held, over, early>>
  BY DEF Announce, qemuVars, history
<1>4. Lives' = Lives /\ Lives[p] = "dead"
  BY <1>1, <1>3 DEF Lives, Life
<1>5. Makers' = Makers
  BY <1>1 DEF Makers, IInv, TypeOK
<1> QED BY <1>1, <1>2, <1>3, <1>4, <1>5 DEF E!Announce, Lives, Makers

LEMMA ExitRefines ==
    ASSUME IInv, NEW p \in Procs, Exit(p)
    PROVE  E!Exit(p)
<1>1. proc[p] \in RunStates /\ proc' = [proc EXCEPT ![p] = "dead"]
  BY DEF Exit, Alive
<1>2. Lives[p] = "alive" /\ Lives' = [Lives EXCEPT ![p] = "dead"]
  BY <1>1 DEF IInv, TypeOK, Lives, Life, RunStates
<1>3. UNCHANGED <<killed, held, done, over, early>>
  BY DEF Exit, strategyVars, history
<1> QED BY <1>2, <1>3 DEF E!Exit, Lives

LEMMA CloseRefines ==
    ASSUME Close
    PROVE  E!Close("vm")
<1>1. over = "no" /\ over' = "closed" /\ UNCHANGED <<proc, killed, held, done, early>>
  BY DEF Close, Free, qemuVars, history
<1>2. Lives' = Lives
  BY <1>1 DEF Lives, Life
<1> QED BY <1>1, <1>2 DEF E!Close, Lives

\* What QEMU and the driver do to the run state of a living process is not
\* seen; nor are the steps of the methods that launch and kill nothing.
LEMMA UnseenSteps ==
    ASSUME IInv,
           \/ StartBegins \/ GetStatus \/ CreateBegins \/ CreateEnds \/ StopTimesOut
           \/ StopChecks \/ StopQuits \/ StopWaits \/ StopCleans \/ StopReturns
           \/ \E c \in Conns \cup {NoMon} : StopBegins(c)
           \/ \E u \in Users : UserCalls(u) \/ UserConnects(u)
           \/ \E p \in Procs : ShutsDown(p) \/ Errs(p)
           \/ \E p \in Procs : ForgetReads(p) \/ WatcherPublishes(p) \/ WatcherLeaves(p)
                               \/ WatcherCleans(p)
    PROVE  UNCHANGED E!vars
<1>1. UNCHANGED <<killed, held, done, over, early>>
  BY DEF StartBegins, GetStatus, CreateBegins, CreateEnds, StopTimesOut, StopChecks,
         StopQuits, StopWaits, StopCleans, StopReturns, StopBegins, UserCalls,
         UserConnects, ShutsDown, Errs, ForgetReads, WatcherPublishes, WatcherLeaves,
         WatcherCleans, qemuVars, strategyVars, history
<1>2. Lives' = Lives
  <2>1. CASE UNCHANGED proc
    BY <2>1 DEF Lives, Life
  <2>2. ASSUME NEW p \in Procs, ShutsDown(p) \/ Errs(p) PROVE Lives' = Lives
    <3>1. PICK s \in RunStates : proc' = [proc EXCEPT ![p] = s]
      BY <2>2 DEF ShutsDown, Errs, RunStates
    <3>2. Alive(p)
      BY <2>2 DEF ShutsDown, Errs, Alive, RunStates
    <3> QED BY <3>1, <3>2, LivesOn DEF IInv, TypeOK, Lives, Life
  <2>3. CASE StopQuits
    BY <2>3, DriverMovesQemu DEF IInv, Lives, Life
  <2> QED
    BY <2>1, <2>2, <2>3
       DEF StartBegins, GetStatus, CreateBegins, CreateEnds, StopTimesOut, StopChecks,
           StopWaits, StopCleans, StopReturns, StopBegins, UserCalls, UserConnects,
           ForgetReads, WatcherPublishes, WatcherLeaves, WatcherCleans, qemuVars
<1> QED BY <1>1, <1>2, SameView

LEMMA StepRefines ==
    ASSUME IInv, [Next]_vars
    PROVE  E!Next \/ UNCHANGED E!vars
<1>1. ASSUME NEW p \in Procs, StartLaunches(p) PROVE E!Next
  BY <1>1, LaunchRefines DEF E!Next
<1>2. CASE StartCannotLaunch
  BY <1>2, CannotLaunchRefines DEF E!Next
<1>3. ASSUME Kill, over = "no", UNCHANGED <<held, done, over, early>>, Lives' = Lives
      PROVE  E!Next \/ UNCHANGED E!vars
  BY <1>3, KillRefines DEF E!Next
<1>4. CASE StartUnwatched \/ StopKills
  BY <1>3, <1>4 DEF StartUnwatched, StopKills, StartFails, At, strategyVars, history, Lives, Life
<1>5. ASSUME NEW c \in Conns \cup {NoMon}, StartConnects(c)
      PROVE  E!Next \/ UNCHANGED E!vars
  <2>1. over = "no" /\ UNCHANGED <<proc, held, done, over, early>> /\ (Kill \/ killed' = killed)
    BY <1>5 DEF StartConnects, StartFails, At, strategyVars, history
  <2>2. Lives' = Lives
    BY <2>1 DEF Lives, Life
  <2> QED BY <1>3, <2>1, <2>2, SameView
<1>6. CASE StartContinues
  <2>1. over = "no" /\ UNCHANGED <<held, done, over, early>> /\ (Kill \/ killed' = killed)
    BY <1>6 DEF StartContinues, StartFails, At, strategyVars, history
  <2>2. Lives' = Lives
    BY <1>6, DriverMovesQemu DEF IInv, Lives, Life
  <2> QED BY <1>3, <2>1, <2>2, SameView
<1>7. CASE Close
  BY <1>7, CloseRefines DEF E!Next
<1>8. ASSUME NEW u \in Users, UserQueries(u) PROVE UNCHANGED E!vars
  <2>1. UNCHANGED <<proc, killed, held, done, early>>
    BY <1>8 DEF UserQueries, qemuVars, strategyVars, history
  <2>2. over' \in {over, "panic"} /\ over = "no"
    BY <1>8 DEF UserQueries
  <2> QED BY <2>1, <2>2 DEF E!vars, Life
<1>9. ASSUME NEW p \in Procs, Exit(p) PROVE E!Next
  BY <1>9, ExitRefines DEF E!Next
<1>10. ASSUME NEW p \in Procs, Announce(p) PROVE E!Next
  BY <1>10, AnnounceRefines DEF E!Next
<1>11. ASSUME NEW p \in Procs, Forget(p) PROVE E!Next \/ UNCHANGED E!vars
  BY <1>11, ForgetRefines DEF E!Next
<1>12. CASE UNCHANGED vars
  BY <1>12 DEF vars, qemuVars, strategyVars, history, E!vars, Life
<1> QED
  BY <1>1, <1>2, <1>4, <1>5, <1>6, <1>7, <1>8, <1>9, <1>10, <1>11, <1>12, UnseenSteps
     DEF Next, Call, LockedStep, Goroutine

\* The strategy inside the driver announces no exit early and forgets no living
\* process, unless it was used too early.
THEOREM ContractIsKept == SafeSpec => KeepsStrategyContract
<1>1. Init => E!Init
  BY InitRefines
<1>2. IInv /\ [Next]_vars => [E!Next]_E!vars
  BY StepRefines
<1> QED BY <1>1, <1>2, Invariance, PTL
        DEF SafeSpec, KeepsStrategyContract, E!SafeSpec

===============================================================================
