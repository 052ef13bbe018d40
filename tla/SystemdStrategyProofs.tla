------------------------- MODULE SystemdStrategyProofs -------------------------
(***************************************************************************)
(* The systemd strategy keeps the safety part of the contract in           *)
(* Execution, for any number of units and whenever it is told to start     *)
(* one.                                                                    *)
(*                                                                         *)
(* That watch() uses the channels the strategy holds when it runs does no  *)
(* harm as long as the only goroutine that is not over is that of the last *)
(* unit (Goroutines).  Once a unit was started before that (early) less is *)
(* known: that the channels are not nil, and that those of a unit about to *)
(* be watched are still nobody's (Channels).                               *)
(***************************************************************************)
EXTENDS SystemdStrategy, TLAPS

Active(u) == watch[u] \in {"spawned", "waiting", "closing"}

\* FindRunning comes first; what a call that is under way is about.
Calls ==
    /\ pc # "idle" => starting \in Units /\ ~closed
    /\ pc = "written" => unit[starting] = "unborn"
    /\ pc \in {"written", "launched"} => outChan[starting] = "none"
    /\ pc \in {"watched", "found"} => chOut = starting
    /\ starting = NoUnit \/ pc = "asking" =>
          /\ ~early /\ unitName = NoUnit
          /\ \A u \in Units : watch[u] = "none"
    /\ pc = "asking" => chIn = starting /\ inChan[starting] # "none"

\* What watch() finds.
Channels ==
    /\ unitName # NoUnit => outChan[unitName] # "none"
    /\ chOut # NoUnit => outChan[chOut] # "none"
    /\ \A u \in Units :
          /\ outChan[u] # "none" <=> watch[u] # "none"
          /\ outChan[u] # "none" => /\ inChan[u] # "none"
                                   /\ chIn # NoUnit /\ chOut # NoUnit
          /\ watch[u] \in {"waiting"} => waits[u] # NoUnit

\* If no unit was started early, a goroutine that is not over is that of the last
\* unit; its channel is open, as no other is.
Goroutines ==
    ~early =>
       /\ ~crashed
       /\ unitName \in {NoUnit, chOut}
       /\ pc = "launched" => ~Busy
       /\ \A u \in Units :
             /\ Active(u) => /\ chIn = u /\ chOut = u
                             /\ outChan[u] = "open"
                             /\ watch[u] = "waiting" => waits[u] = u
             /\ outChan[u] = "open" => Active(u)

\* What is said of an exit is said after it.
Deaths ==
    /\ \A u \in signals : unit[u] = "dead"
    /\ \A u \in Units :
          /\ unit[u] = "unborn" => inChan[u] # "closed"
          /\ inChan[u] = "closed" => unit[u] = "dead"
    /\ ~early => \A u \in Units :
          /\ outChan[u] = "closed" => unit[u] = "dead"
          /\ watch[u] \in {"closing", "over"} => unit[u] = "dead"

IInv == TypeOK /\ Calls /\ Channels /\ Goroutines /\ Deaths

------------------------------------------------------------------------------
LEMMA TypeOKStep ==
    ASSUME IInv, [Next]_vars
    PROVE  TypeOK'
<1> USE SystemdAssumption DEF IInv, TypeOK, Calls, Channels
<1>1. CASE StartLaunches
  BY <1>1 DEF StartLaunches, Busy
<1>2. CASE StartWatches
  BY <1>2 DEF StartWatches, Add, Spawn
<1>3. CASE StartReturns
  BY <1>3 DEF StartReturns, StoreName
<1>4. CASE FindRunningAsks
  BY <1>4 DEF FindRunningAsks, Spawn
<1>5. CASE FindRunningReturns
  BY <1>5 DEF FindRunningReturns, StoreName
<1>6. CASE FindRunningAdds
  BY <1>6 DEF FindRunningAdds, Callable, Add
<1>7. CASE Kill
  BY <1>7 DEF Kill, Callable, IsRunning
<1>8. CASE Close
  BY <1>8 DEF Close, Callable
<1>9. ASSUME NEW u \in Units, StartWrites(u) PROVE TypeOK'
  BY <1>9 DEF StartWrites, Callable
<1>10. ASSUME NEW u \in Units, Exit(u) PROVE TypeOK'
  BY <1>10 DEF Exit
<1>11. ASSUME NEW u \in Units, HandleSignal(u) PROVE TypeOK'
  BY <1>11 DEF HandleSignal
<1>12. ASSUME NEW u \in Units, WatchReads(u) PROVE TypeOK'
  BY <1>12 DEF WatchReads
<1>13. ASSUME NEW u \in Units, WatchClears(u) PROVE TypeOK'
  BY <1>13 DEF WatchClears
<1>14. ASSUME NEW u \in Units, WatchCloses(u) PROVE TypeOK'
  BY <1>14 DEF WatchCloses
<1>15. CASE UNCHANGED vars
  BY <1>15 DEF vars
<1> QED
  BY <1>1, <1>2, <1>3, <1>4, <1>5, <1>6, <1>7, <1>8, <1>9, <1>10, <1>11, <1>12,
     <1>13, <1>14, <1>15
     DEF Next, Call, Goroutine

LEMMA CallsStep ==
    ASSUME IInv, [Next]_vars
    PROVE  Calls'
<1> USE SystemdAssumption DEF IInv, TypeOK, Calls, Channels
<1>1. CASE StartLaunches
  BY <1>1 DEF StartLaunches, Busy
<1>2. CASE StartWatches
  BY <1>2 DEF StartWatches, Add, Spawn
<1>3. CASE StartReturns
  BY <1>3 DEF StartReturns, StoreName
<1>4. CASE FindRunningAsks
  BY <1>4 DEF FindRunningAsks, Spawn
<1>5. CASE FindRunningReturns
  BY <1>5 DEF FindRunningReturns, StoreName
<1>6. CASE FindRunningAdds
  BY <1>6 DEF FindRunningAdds, Callable, Add
<1>7. CASE Kill
  BY <1>7 DEF Kill, Callable, IsRunning
<1>8. CASE Close
  BY <1>8 DEF Close, Callable
<1>9. ASSUME NEW u \in Units, StartWrites(u) PROVE Calls'
  BY <1>9 DEF StartWrites, Callable
<1>10. ASSUME NEW u \in Units, Exit(u) PROVE Calls'
  BY <1>10 DEF Exit
<1>11. ASSUME NEW u \in Units, HandleSignal(u) PROVE Calls'
  BY <1>11 DEF HandleSignal
<1>12. ASSUME NEW u \in Units, WatchReads(u) PROVE Calls'
  BY <1>12 DEF WatchReads
<1>13. ASSUME NEW u \in Units, WatchClears(u) PROVE Calls'
  BY <1>13 DEF WatchClears
<1>14. ASSUME NEW u \in Units, WatchCloses(u) PROVE Calls'
  BY <1>14 DEF WatchCloses
<1>15. CASE UNCHANGED vars
  BY <1>15 DEF vars
<1> QED
  BY <1>1, <1>2, <1>3, <1>4, <1>5, <1>6, <1>7, <1>8, <1>9, <1>10, <1>11, <1>12,
     <1>13, <1>14, <1>15
     DEF Next, Call, Goroutine

LEMMA ChannelsStep ==
    ASSUME IInv, [Next]_vars
    PROVE  Channels'
<1> USE SystemdAssumption DEF IInv, TypeOK, Calls, Channels
<1>1. CASE StartLaunches
  BY <1>1 DEF StartLaunches, Busy
<1>2. CASE StartWatches
  BY <1>2 DEF StartWatches, Add, Spawn
<1>3. CASE StartReturns
  BY <1>3 DEF StartReturns, StoreName
<1>4. CASE FindRunningAsks
  BY <1>4 DEF FindRunningAsks, Spawn
<1>5. CASE FindRunningReturns
  BY <1>5 DEF FindRunningReturns, StoreName
<1>6. CASE FindRunningAdds
  BY <1>6 DEF FindRunningAdds, Callable, Add
<1>7. CASE Kill
  BY <1>7 DEF Kill, Callable, IsRunning
<1>8. CASE Close
  BY <1>8 DEF Close, Callable
<1>9. ASSUME NEW u \in Units, StartWrites(u) PROVE Channels'
  BY <1>9 DEF StartWrites, Callable
<1>10. ASSUME NEW u \in Units, Exit(u) PROVE Channels'
  BY <1>10 DEF Exit
<1>11. ASSUME NEW u \in Units, HandleSignal(u) PROVE Channels'
  BY <1>11 DEF HandleSignal
<1>12. ASSUME NEW u \in Units, WatchReads(u) PROVE Channels'
  BY <1>12 DEF WatchReads
<1>13. ASSUME NEW u \in Units, WatchClears(u) PROVE Channels'
  BY <1>13 DEF WatchClears
<1>14. ASSUME NEW u \in Units, WatchCloses(u) PROVE Channels'
  BY <1>14 DEF WatchCloses
<1>15. CASE UNCHANGED vars
  BY <1>15 DEF vars
<1> QED
  BY <1>1, <1>2, <1>3, <1>4, <1>5, <1>6, <1>7, <1>8, <1>9, <1>10, <1>11, <1>12,
     <1>13, <1>14, <1>15
     DEF Next, Call, Goroutine

LEMMA GoroutinesStep ==
    ASSUME IInv, [Next]_vars
    PROVE  Goroutines'
<1> USE SystemdAssumption DEF IInv, TypeOK, Calls, Channels, Goroutines, Active, Busy, IsRunning
<1>1. CASE StartLaunches
  BY <1>1 DEF StartLaunches, Busy
<1>2. CASE StartWatches
  BY <1>2 DEF StartWatches, Add, Spawn
<1>3. CASE StartReturns
  BY <1>3 DEF StartReturns, StoreName
<1>4. CASE FindRunningAsks
  BY <1>4 DEF FindRunningAsks, Spawn
<1>5. CASE FindRunningReturns
  BY <1>5 DEF FindRunningReturns, StoreName
<1>6. CASE FindRunningAdds
  BY <1>6 DEF FindRunningAdds, Callable, Add
<1>7. CASE Kill
  BY <1>7 DEF Kill, Callable, IsRunning
<1>8. CASE Close
  BY <1>8 DEF Close, Callable
<1>9. ASSUME NEW u \in Units, StartWrites(u) PROVE Goroutines'
  BY <1>9 DEF StartWrites, Callable
<1>10. ASSUME NEW u \in Units, Exit(u) PROVE Goroutines'
  BY <1>10 DEF Exit
<1>11. ASSUME NEW u \in Units, HandleSignal(u) PROVE Goroutines'
  BY <1>11 DEF HandleSignal
<1>12. ASSUME NEW u \in Units, WatchReads(u) PROVE Goroutines'
  BY <1>12 DEF WatchReads
<1>13. ASSUME NEW u \in Units, WatchClears(u) PROVE Goroutines'
  BY <1>13 DEF WatchClears
<1>14. ASSUME NEW u \in Units, WatchCloses(u) PROVE Goroutines'
  BY <1>14 DEF WatchCloses
<1>15. CASE UNCHANGED vars
  BY <1>15 DEF vars
<1> QED
  BY <1>1, <1>2, <1>3, <1>4, <1>5, <1>6, <1>7, <1>8, <1>9, <1>10, <1>11, <1>12,
     <1>13, <1>14, <1>15
     DEF Next, Call, Goroutine

LEMMA DeathsStep ==
    ASSUME IInv, [Next]_vars
    PROVE  Deaths'
<1> USE SystemdAssumption DEF IInv, TypeOK, Calls, Channels, Goroutines, Active, Deaths
<1>1. CASE StartLaunches
  BY <1>1 DEF StartLaunches, Busy
<1>2. CASE StartWatches
  BY <1>2 DEF StartWatches, Add, Spawn
<1>3. CASE StartReturns
  BY <1>3 DEF StartReturns, StoreName
<1>4. CASE FindRunningAsks
  BY <1>4 DEF FindRunningAsks, Spawn
<1>5. CASE FindRunningReturns
  BY <1>5 DEF FindRunningReturns, StoreName
<1>6. CASE FindRunningAdds
  BY <1>6 DEF FindRunningAdds, Callable, Add
<1>7. CASE Kill
  BY <1>7 DEF Kill, Callable, IsRunning
<1>8. CASE Close
  BY <1>8 DEF Close, Callable
<1>9. ASSUME NEW u \in Units, StartWrites(u) PROVE Deaths'
  BY <1>9 DEF StartWrites, Callable
<1>10. ASSUME NEW u \in Units, Exit(u) PROVE Deaths'
  BY <1>10 DEF Exit
<1>11. ASSUME NEW u \in Units, HandleSignal(u) PROVE Deaths'
  BY <1>11 DEF HandleSignal
<1>12. ASSUME NEW u \in Units, WatchReads(u) PROVE Deaths'
  BY <1>12 DEF WatchReads
<1>13. ASSUME NEW u \in Units, WatchClears(u) PROVE Deaths'
  BY <1>13 DEF WatchClears
<1>14. ASSUME NEW u \in Units, WatchCloses(u) PROVE Deaths'
  BY <1>14 DEF WatchCloses
<1>15. CASE UNCHANGED vars
  BY <1>15 DEF vars
<1> QED
  BY <1>1, <1>2, <1>3, <1>4, <1>5, <1>6, <1>7, <1>8, <1>9, <1>10, <1>11, <1>12,
     <1>13, <1>14, <1>15
     DEF Next, Call, Goroutine

LEMMA Initially == Init => IInv
<1> SUFFICES ASSUME Init PROVE IInv
  OBVIOUS
<1> USE SystemdAssumption DEF Init
<1>1. TypeOK
  BY DEF TypeOK
<1>2. Calls /\ Channels /\ Goroutines /\ Deaths
  BY DEF Calls, Channels, Goroutines, Deaths, Active, Busy, IsRunning
<1> QED BY <1>1, <1>2 DEF IInv

LEMMA Inductive == IInv /\ [Next]_vars => IInv'
BY TypeOKStep, CallsStep, ChannelsStep, GoroutinesStep, DeathsStep DEF IInv

LEMMA Invariant == SafeSpec => []IInv
BY Initially, Inductive, PTL DEF SafeSpec

------------------------------------------------------------------------------
\* Every variable stays in its range: what watch() closes is a channel.
THEOREM TypeCorrect == SafeSpec => []TypeOK
<1>1. IInv => TypeOK
  BY DEF IInv
<1> QED BY <1>1, Invariant, PTL

\* close(s.chOut) meets a channel that is closed already, or a nil one, only
\* when a unit was started before the goroutine of the last one was over.
THEOREM ChannelsAreClosedOnce == SafeSpec => []NoDoubleClose
<1>1. IInv => NoDoubleClose
  BY SystemdAssumption DEF IInv, Goroutines, NoDoubleClose
<1> QED BY <1>1, Invariant, PTL

------------------------------------------------------------------------------
(* The refinement, a step at a time.                                       *)

LEMMA InitRefines == Init => Exec!Init
BY DEF Init, Exec!Init, Run, Done, By

\* A unit that was not there before is held from now on.
LEMMA HoldRefines ==
    ASSUME IInv, NEW u \in Units, ~closed, ~closed', outChan[u] = "none", Done[u] = "none",
           Run' = [t \in {Strategy} |-> u],
           Done' = [Done EXCEPT ![u] = "open"]
    PROVE  Exec!Hold(Strategy, u)
<1>1. Run' = [Run EXCEPT ![Strategy] = u]
  BY DEF Run
<1>2. By' = [By EXCEPT ![u] = Strategy]
  <2>1. \A v \in Units : Done'[v] = IF v = u THEN "open" ELSE Done[v]
    BY DEF Done
  <2>2. \A v \in Units : By'[v] = IF v = u THEN Strategy ELSE By[v]
    BY <2>1 DEF By
  <2> QED BY <2>2 DEF By
<1> QED BY <1>1, <1>2 DEF Exec!Hold

\* Until a unit was started too early, the strategy is idle when nothing runs and
\* no goroutine is left.
LEMMA IdleMeansNotBusy ==
    ASSUME IInv, ~early, ~closed, pc \in {"idle", "written", "asking"}
    PROVE  Exec!Idle(Strategy) <=> ~Busy
<1> USE SystemdAssumption DEF IInv, TypeOK, Run, Done, Busy, IsRunning
<1>1. Run[Strategy] = unitName /\ Done = outChan
  OBVIOUS
<1>2. \A u \in Units : outChan[u] = "open" <=> watch[u] \notin {"none", "over"}
  BY DEF Goroutines, Active
<1>3. \A u \in Units : By[u] = Strategy /\ Done[u] = "open" <=> outChan[u] = "open"
  BY <1>1 DEF By
<1> HIDE DEF Run, Done, Busy
<1> QED BY <1>1, <1>2, <1>3 DEF Exec!Idle, Busy

LEMMA StartLaunchesRefines ==
    ASSUME IInv, ~crashed, StartLaunches
    PROVE  Exec!Next \/ UNCHANGED Exec!vars
<1> USE SystemdAssumption DEF IInv, TypeOK
<1>1. /\ starting \in Units /\ ~closed /\ pc = "written"
      /\ unit[starting] = "unborn" /\ outChan[starting] = "none"
  BY DEF StartLaunches, Calls
<1>2. CASE pc' = "launched"
  <2>1. /\ Run' = [t \in {Strategy} |-> starting]
        /\ Done[starting] = "none" /\ Done' = [Done EXCEPT ![starting] = "open"]
    BY <1>1, <1>2 DEF StartLaunches, Run, Done
  <2>2. Exec!Hold(Strategy, starting)
    BY <1>1, <2>1, HoldRefines DEF StartLaunches
  <2>3. (IF early THEN {Strategy} ELSE {})' =
           IF Exec!Idle(Strategy) THEN (IF early THEN {Strategy} ELSE {})
           ELSE (IF early THEN {Strategy} ELSE {}) \cup {Strategy}
    BY <1>1, <1>2, IdleMeansNotBusy DEF StartLaunches
  <2>4. Exec!Start(Strategy, starting)
    BY <1>1, <1>2, <2>2, <2>3 DEF StartLaunches, Exec!Start
  <2> QED BY <1>1, <2>4 DEF Exec!Next
<1>3. CASE pc' = "idle" /\ unit' = [unit EXCEPT ![starting] = "alive"]
  <2>1. Run' = Run /\ Done' = Done /\ By' = By
    BY <1>1, <1>3 DEF StartLaunches, Run, Done, By
  <2>2. Exec!StartUnseen(Strategy, starting)
    BY <1>1, <1>3, <2>1 DEF StartLaunches, Exec!StartUnseen
  <2> QED BY <1>1, <2>2 DEF Exec!Next
<1>4. CASE pc' = "idle" /\ UNCHANGED unit
  BY <1>1, <1>4 DEF StartLaunches, Run, Done, By, Exec!vars
<1> QED BY <1>2, <1>3, <1>4 DEF StartLaunches

LEMMA FindRunningAsksRefines ==
    ASSUME IInv, ~crashed, FindRunningAsks
    PROVE  Exec!Next \/ UNCHANGED Exec!vars
<1> USE SystemdAssumption DEF IInv, TypeOK
<1>1. /\ starting \in Units /\ ~closed /\ pc = "asking" /\ unitName = NoUnit /\ ~early
      /\ \A u \in Units : watch[u] = "none" /\ outChan[u] = "none"
  BY DEF FindRunningAsks, Calls, Channels
<1>2. CASE unit[starting] = "alive" /\ pc' = "found" /\ Spawn(starting)
  <2>1. /\ Run' = [t \in {Strategy} |-> starting]
        /\ Done[starting] = "none" /\ Done' = [Done EXCEPT ![starting] = "open"]
    BY <1>1, <1>2 DEF FindRunningAsks, Spawn, Run, Done
  <2>2. Exec!Hold(Strategy, starting)
    BY <1>1, <2>1, HoldRefines DEF FindRunningAsks
  <2>3. Exec!Idle(Strategy)
    BY <1>1, IdleMeansNotBusy DEF Busy, IsRunning
  <2>4. Run[Strategy] # starting
    BY <1>1 DEF Run
  <2>5. Exec!FindRunning(Strategy, starting)
    BY <1>1, <1>2, <2>1, <2>2, <2>3, <2>4 DEF FindRunningAsks, Exec!FindRunning
  <2> QED BY <1>1, <2>5 DEF Exec!Next
<1>3. CASE pc' = "idle" /\ UNCHANGED outChan
  BY <1>1, <1>3 DEF FindRunningAsks, Run, Done, By, Exec!vars
<1> QED BY <1>2, <1>3 DEF FindRunningAsks

\* A goroutine clears the name that is stored then.
LEMMA WatchClearsRefines ==
    ASSUME IInv, NEW u \in Units, WatchClears(u)
    PROVE  Exec!Next \/ UNCHANGED Exec!vars
<1> USE SystemdAssumption DEF IInv, TypeOK
<1>1. UNCHANGED <<unit, stopping, Done, By, closed, early>>
  BY DEF WatchClears, Done, By
<1>2. CASE pc \in {"idle", "written", "asking"} /\ ~closed /\ unitName # NoUnit
  <2>1. Run[Strategy] = unitName /\ Run' = [Run EXCEPT ![Strategy] = NoUnit]
    BY <1>2 DEF WatchClears, Run
  <2>2. unit[unitName] = "dead" \/ early
    BY <1>2 DEF WatchClears, Goroutines, Active, Deaths
  <2>3. Exec!Forget(Strategy)
    BY <1>1, <1>2, <2>1, <2>2 DEF Exec!Forget
  <2> QED BY <2>3 DEF Exec!Next
<1>3. CASE ~(pc \in {"idle", "written", "asking"} /\ ~closed /\ unitName # NoUnit)
  <2>1. Run' = Run
    BY <1>3 DEF WatchClears, Run
  <2> QED BY <1>1, <2>1 DEF Exec!vars
<1> QED BY <1>2, <1>3

\* It closes the channel that is stored then, if that is open.
LEMMA WatchClosesRefines ==
    ASSUME IInv, NEW u \in Units, WatchCloses(u)
    PROVE  Exec!Next \/ UNCHANGED Exec!vars
<1> USE SystemdAssumption DEF IInv, TypeOK
<1>1. UNCHANGED <<unit, stopping, Run, closed, early>>
  BY DEF WatchCloses, Run
<1>2. CASE chOut \in Units /\ outChan[chOut] = "open" /\ outChan' = [outChan EXCEPT ![chOut] = "closed"]
  <2>1. pc = "launched" => chOut # starting
    BY <1>2 DEF Calls
  <2>2. /\ Done[chOut] = "open" /\ By[chOut] = Strategy
        /\ Done' = [v \in Units |-> IF v \in {chOut} THEN "closed" ELSE Done[v]]
    BY <1>2, <2>1 DEF WatchCloses, Done, By
  <2>3. By' = By
    BY <2>2 DEF By
  <2>4. unit[chOut] = "dead" \/ early
    BY DEF WatchCloses, Goroutines, Active, Deaths
  <2>5. Exec!Announce({chOut})
    BY <1>1, <2>2, <2>3, <2>4 DEF Exec!Announce
  <2> QED BY <1>2, <2>5 DEF Exec!Next
<1>3. CASE UNCHANGED outChan
  BY <1>1, <1>3 DEF WatchCloses, Done, By, Exec!vars
<1> QED BY <1>2, <1>3 DEF WatchCloses

LEMMA StepRefines == IInv /\ [Next]_vars => [Exec!Next]_Exec!vars
<1> SUFFICES ASSUME IInv, [Next]_vars PROVE Exec!Next \/ UNCHANGED Exec!vars
  OBVIOUS
<1> USE SystemdAssumption DEF IInv, TypeOK, Calls, Run, Done, By
<1>1. ASSUME ~crashed, StartLaunches PROVE Exec!Next \/ UNCHANGED Exec!vars
  BY <1>1, StartLaunchesRefines
<1>2. CASE StartWatches
  BY <1>2 DEF StartWatches, Add, Spawn, Exec!vars
<1>3. CASE StartReturns
  BY <1>3 DEF StartReturns, StoreName, Exec!vars
<1>4. ASSUME ~crashed, FindRunningAsks PROVE Exec!Next \/ UNCHANGED Exec!vars
  BY <1>4, FindRunningAsksRefines
<1>5. CASE FindRunningReturns
  BY <1>5 DEF FindRunningReturns, StoreName, Exec!vars
<1>6. CASE FindRunningAdds
  BY <1>6 DEF FindRunningAdds, Callable, Add, Exec!vars
<1>7. CASE Kill
  BY <1>7 DEF Kill, Callable, IsRunning, Exec!Kill, Exec!Next
<1>8. CASE Close
  BY <1>8 DEF Close, Callable, Exec!Close, Exec!Next
<1>9. ASSUME NEW u \in Units, StartWrites(u) PROVE UNCHANGED Exec!vars
  BY <1>9 DEF StartWrites, Callable, Exec!vars
<1>10. ASSUME NEW u \in Units, Exit(u) PROVE Exec!Next
  <2>1. Exec!Exit(u)
    BY <1>10 DEF Exit, Exec!Exit
  <2> QED BY <2>1 DEF Exec!Next
<1>11. ASSUME NEW u \in Units, HandleSignal(u) PROVE UNCHANGED Exec!vars
  BY <1>11 DEF HandleSignal, Exec!vars
<1>12. ASSUME NEW u \in Units, WatchReads(u) PROVE UNCHANGED Exec!vars
  BY <1>12 DEF WatchReads, Exec!vars
<1>13. ASSUME NEW u \in Units, WatchClears(u) PROVE Exec!Next \/ UNCHANGED Exec!vars
  BY <1>13, WatchClearsRefines
<1>14. ASSUME NEW u \in Units, WatchCloses(u) PROVE Exec!Next \/ UNCHANGED Exec!vars
  BY <1>14, WatchClosesRefines
<1>15. CASE UNCHANGED vars
  BY <1>15 DEF vars, Exec!vars
<1> QED
  BY <1>1, <1>2, <1>3, <1>4, <1>5, <1>6, <1>7, <1>8, <1>9, <1>10, <1>11, <1>12,
     <1>13, <1>14, <1>15 DEF Next, Call, Goroutine

\* Start, FindRunning, Kill and Close do what the driver is promised, and the
\* channel of a unit is closed only after its exit, until the driver starts a unit
\* before the last one is over.
THEOREM SystemdImplementsExecution == SafeSpec => ImplementsExecution
BY InitRefines, StepRefines, Invariant, PTL DEF SafeSpec, Exec!SafeSpec, ImplementsExecution

==============================================================================
