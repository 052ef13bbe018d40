--------------------------- MODULE SystemdStrategy ---------------------------
(***************************************************************************)
(* execution/systemd.go with systemd/waiter.go: QEMU runs as a transient   *)
(* unit of systemd, and its exit is learnt from the PropertiesChanged      *)
(* signal of the unit.                                                     *)
(*                                                                         *)
(* A unit has a fresh name, and the two channels made for it (chIn by the  *)
(* waiter, chOut for the driver) go by its name.  The strategy's lock      *)
(* guards s.unitName only: watch() runs in a goroutine, and reads s.chIn   *)
(* and s.chOut when it gets there.                                         *)
(*                                                                         *)
(* Calls come one at a time, since the driver makes them with d.mu locked, *)
(* FindRunning once and first (driver.New), the others at any time: Start  *)
(* asks neither whether a unit runs nor whether the goroutine of the last  *)
(* one is over.  When it is not, that goroutine may act on the channels of *)
(* the new unit, or close one twice, which is a panic (crashed).  The      *)
(* history variable early tells that Start was used so; no action reads it.*)
(***************************************************************************)
CONSTANTS Units,     \* unit names
          NoUnit     \* the empty name, a nil channel

ASSUME SystemdAssumption == NoUnit \notin Units

VARIABLES
    unit,       \* systemd: the life of each unit
    signals,    \* units whose exit is signalled, the handler has not run yet
    unitMap,    \* waiter: units with an entry in w.unitMap
    chIn,       \* s.chIn
    inChan,     \* the channels made by the waiter
    chOut,      \* s.chOut
    outChan,    \* the channels made by Start and FindRunning
    unitName,   \* s.unitName
    nameFile,   \* the unit named in the unit name file
    watch,      \* goroutines running watch(), and where they are
    waits,      \* the channel each of them receives from
    pc,         \* where Start is
    starting,   \* the unit Start or FindRunning is about
    stopping,   \* units that Kill told systemd to stop
    settled,    \* units that were active when their channel was returned
    closed,     \* Close was called
    crashed,    \* a goroutine panicked, and the program is gone
    early       \* history: a unit was started before the last one was over

vars == <<unit, signals, unitMap, chIn, inChan, chOut, outChan, unitName,
          nameFile, watch, waits, pc, starting, stopping, settled, closed,
          crashed, early>>

TypeOK ==
    /\ unit \in [Units -> {"unborn", "alive", "dead"}]
    /\ signals \in SUBSET Units
    /\ unitMap \in SUBSET {u \in Units : inChan[u] = "open"}
    /\ chIn \in Units \cup {NoUnit}
    /\ inChan \in [Units -> {"none", "open", "closed"}]
    /\ chOut \in Units \cup {NoUnit}
    /\ outChan \in [Units -> {"none", "open", "closed"}]
    /\ unitName \in Units \cup {NoUnit}
    /\ nameFile \in Units \cup {NoUnit}
    /\ watch \in [Units -> {"none", "spawned", "waiting", "closing", "over"}]
    /\ waits \in [Units -> Units \cup {NoUnit}]
    /\ pc \in {"idle", "written", "launched", "watched", "asking", "found"}
    /\ starting \in Units \cup {NoUnit}
    /\ stopping \in SUBSET Units
    /\ settled \in SUBSET Units
    /\ closed \in BOOLEAN
    /\ crashed \in BOOLEAN
    /\ early \in BOOLEAN

\* A unit of an earlier life of the program may be there, and named in the file.
Init ==
    /\ unit \in [Units -> {"unborn", "alive", "dead"}]
    /\ nameFile \in {u \in Units : unit[u] # "unborn"} \cup {NoUnit}
    /\ \A u \in Units : unit[u] # "unborn" => u = nameFile
    /\ signals = {}
    /\ unitMap = {}
    /\ chIn = NoUnit
    /\ inChan = [u \in Units |-> "none"]
    /\ chOut = NoUnit
    /\ outChan = [u \in Units |-> "none"]
    /\ unitName = NoUnit
    /\ watch = [u \in Units |-> "none"]
    /\ waits = [u \in Units |-> NoUnit]
    /\ pc = "idle"
    /\ starting = NoUnit
    /\ stopping = {}
    /\ settled = {}
    /\ closed = FALSE
    /\ crashed = FALSE
    /\ early = FALSE

IsRunning == unitName # NoUnit

------------------------------------------------------------------------------
\* What the code might be, for the checks of the properties.
SpawnWithoutChannel(u) ==
    /\ outChan' = [outChan EXCEPT ![u] = "open"]
    /\ watch' = [watch EXCEPT ![u] = "spawned"]
    /\ UNCHANGED chOut

FindRunningWithoutWatch ==
    /\ pc = "asking"
    /\ pc' = IF unit[starting] = "alive" THEN "found" ELSE "idle"
    /\ UNCHANGED <<unit, signals, unitMap, chIn, inChan, chOut, outChan,
                   unitName, nameFile, watch, waits, starting, stopping,
                   settled, closed, crashed, early>>

HandleAnySignal(u) ==
    /\ u \in signals
    /\ signals' = signals \ {u}
    /\ unitMap' = {}
    /\ inChan' = [v \in Units |-> IF v \in unitMap THEN "closed" ELSE inChan[v]]
    /\ UNCHANGED <<unit, chIn, chOut, outChan, unitName, nameFile, watch, waits,
                   pc, starting, stopping, settled, closed, crashed, early>>

HandleSignalKeepingEntry(u) ==
    /\ u \in signals
    /\ signals' = signals \ {u}
    /\ inChan' = IF u \in unitMap THEN [inChan EXCEPT ![u] = "closed"] ELSE inChan
    /\ UNCHANGED <<unit, unitMap, chIn, chOut, outChan, unitName, nameFile,
                   watch, waits, pc, starting, stopping, settled, closed, crashed, early>>

------------------------------------------------------------------------------
(* Start.                                                                  *)

\* The driver calls a method when no other call is under way.
Callable == ~closed /\ ~crashed /\ pc = "idle"

StartWrites(u) ==
    /\ Callable
    /\ unit[u] = "unborn"
    /\ inChan[u] = "none"
    /\ nameFile' = u
    /\ starting' = u
    /\ pc' = "written"
    /\ UNCHANGED <<unit, signals, unitMap, chIn, inChan, chOut, outChan, unitName,
                   watch, waits, stopping, settled, closed, crashed, early>>

\* A unit runs, or its goroutine is not over.
Busy == IsRunning \/ \E u \in Units : watch[u] \notin {"none", "over"}

\* StartTransientUnit and the result of its job.  The unit runs and that is
\* what the result says; or the unit runs, but the reply is lost (an error) or
\* the result is not "done"; or it does not run.  When the result is lost,
\* Start waits for ever: this step is not taken.
StartLaunches ==
    /\ pc = "written"
    /\ \/ /\ unit' = [unit EXCEPT ![starting] = "alive"]
          /\ pc' = "launched"
          /\ early' = (early \/ Busy)
       \/ /\ unit' = [unit EXCEPT ![starting] = "alive"]
          /\ pc' = "idle"
          /\ UNCHANGED early
       \/ /\ pc' = "idle"
          /\ UNCHANGED <<unit, early>>
    /\ UNCHANGED <<signals, unitMap, chIn, inChan, chOut, outChan, unitName,
                   nameFile, watch, waits, starting, stopping, settled, closed,
                   crashed>>

Add(u) ==
    /\ unitMap' = unitMap \cup {u}
    /\ inChan' = [inChan EXCEPT ![u] = "open"]
    /\ chIn' = u

Spawn(u) ==
    /\ chOut' = u
    /\ outChan' = [outChan EXCEPT ![u] = "open"]
    /\ watch' = [watch EXCEPT ![u] = "spawned"]

\* The unit is added to the waiter only now: a signal handled before is lost.
StartWatches ==
    /\ pc = "launched"
    /\ Add(starting)
    /\ Spawn(starting)
    /\ pc' = "watched"
    /\ UNCHANGED <<unit, signals, unitName, nameFile, waits, starting, stopping,
                   settled, closed, crashed, early>>

\* The name is stored last, after the goroutine was started.
StoreName ==
    /\ pc \in {"watched", "found"}
    /\ pc' = "idle"
    /\ unitName' = starting
    /\ settled' = settled \cup {u \in {starting} : unit[u] = "alive"}

StartReturns ==
    /\ pc = "watched"
    /\ StoreName
    /\ UNCHANGED <<unit, signals, unitMap, chIn, inChan, chOut, outChan,
                   nameFile, watch, waits, starting, stopping, closed, crashed, early>>

------------------------------------------------------------------------------
(* FindRunning.                                                            *)

FindRunningAdds ==
    /\ Callable
    /\ starting = NoUnit
    /\ nameFile \in Units \ unitMap
    /\ starting' = nameFile
    /\ Add(nameFile)
    /\ pc' = "asking"
    /\ UNCHANGED <<unit, signals, chOut, outChan, unitName, nameFile, watch,
                   waits, stopping, settled, closed, crashed, early>>

\* The properties of the unit say that it runs, or that it does not (its entry
\* and the file are removed), or cannot be had (the entry stays).
FindRunningAsks ==
    /\ pc = "asking"
    /\ \/ /\ unit[starting] = "alive"
          /\ Spawn(starting)
          /\ pc' = "found"
          /\ UNCHANGED <<unitMap, chIn, nameFile>>
       \/ /\ unit[starting] # "alive"
          /\ unitMap' = unitMap \ {starting}
          /\ chIn' = NoUnit
          /\ chOut' = NoUnit
          /\ nameFile' = NoUnit
          /\ pc' = "idle"
          /\ UNCHANGED <<outChan, watch>>
       \/ /\ pc' = "idle"
          /\ UNCHANGED <<unitMap, chIn, chOut, outChan, nameFile, watch>>
    /\ UNCHANGED <<unit, signals, inChan, unitName, waits, starting, stopping,
                   settled, closed, crashed, early>>

FindRunningReturns ==
    /\ pc = "found"
    /\ StoreName
    /\ UNCHANGED <<unit, signals, unitMap, chIn, inChan, chOut, outChan,
                   nameFile, watch, waits, starting, stopping, closed, crashed, early>>

------------------------------------------------------------------------------
\* Kill has systemd stop the unit and waits for the job; with no name stored
\* systemd refuses.
Kill ==
    /\ Callable
    /\ IsRunning
    /\ stopping' = stopping \cup {unitName}
    /\ UNCHANGED <<unit, signals, unitMap, chIn, inChan, chOut, outChan, unitName,
                   nameFile, watch, waits, pc, starting, settled, closed, crashed, early>>

\* Close stops the waiter that the strategy owns.
Close ==
    /\ Callable
    /\ closed' = TRUE
    /\ UNCHANGED <<unit, signals, unitMap, chIn, inChan, chOut, outChan, unitName,
                   nameFile, watch, waits, pc, starting, stopping, settled, crashed, early>>

\* systemd: the unit exits, and its properties are signalled.
Exit(u) ==
    /\ unit[u] = "alive"
    /\ unit' = [unit EXCEPT ![u] = "dead"]
    /\ signals' = IF closed \/ crashed THEN signals ELSE signals \cup {u}
    /\ UNCHANGED <<unitMap, chIn, inChan, chOut, outChan, unitName, nameFile,
                   watch, waits, pc, starting, stopping, settled, closed, crashed, early>>

\* Each signal has a goroutine of its own, so they are handled in any order,
\* and those received before Close after it.
HandleSignal(u) ==
    /\ u \in signals
    /\ signals' = signals \ {u}
    /\ unitMap' = unitMap \ {u}
    /\ inChan' = IF u \in unitMap THEN [inChan EXCEPT ![u] = "closed"] ELSE inChan
    /\ UNCHANGED <<unit, chIn, chOut, outChan, unitName, nameFile, watch, waits,
                   pc, starting, stopping, settled, closed, crashed, early>>

------------------------------------------------------------------------------
(* watch(): receive from s.chIn, clear the name, close s.chOut.            *)

WatchReads(u) ==
    /\ watch[u] = "spawned"
    /\ watch' = [watch EXCEPT ![u] = "waiting"]
    /\ waits' = [waits EXCEPT ![u] = chIn]
    /\ UNCHANGED <<unit, signals, unitMap, chIn, inChan, chOut, outChan, unitName,
                   nameFile, pc, starting, stopping, settled, closed, crashed, early>>

WatchClears(u) ==
    /\ watch[u] = "waiting"
    /\ inChan[waits[u]] = "closed"
    /\ unitName' = NoUnit
    /\ watch' = [watch EXCEPT ![u] = "closing"]
    /\ UNCHANGED <<unit, signals, unitMap, chIn, inChan, chOut, outChan,
                   nameFile, waits, pc, starting, stopping, settled, closed, crashed, early>>

\* A nil channel, or one that is closed already, makes close panic.
WatchCloses(u) ==
    /\ watch[u] = "closing"
    /\ \/ /\ chOut # NoUnit
          /\ outChan[chOut] = "open"
          /\ outChan' = [outChan EXCEPT ![chOut] = "closed"]
          /\ UNCHANGED crashed
       \/ /\ chOut = NoUnit \/ outChan[chOut] # "open"
          /\ crashed' = TRUE
          /\ UNCHANGED outChan
    /\ watch' = [watch EXCEPT ![u] = "over"]
    /\ UNCHANGED <<unit, signals, unitMap, chIn, inChan, chOut, unitName,
                   nameFile, waits, pc, starting, stopping, settled, closed,
                   early>>

------------------------------------------------------------------------------
Call == ~crashed /\ (StartLaunches \/ StartWatches \/ StartReturns
                     \/ FindRunningAsks \/ FindRunningReturns)

Goroutine(u) == ~crashed /\ (HandleSignal(u) \/ WatchReads(u)
                             \/ WatchClears(u) \/ WatchCloses(u))

Next ==
    \/ Call \/ FindRunningAdds \/ Kill \/ Close
    \/ \E u \in Units : StartWrites(u) \/ Exit(u) \/ Goroutine(u)

SafeSpec == Init /\ [][Next]_vars

\* Goroutines run, and systemd stops a unit that it was told to stop.  Calls
\* may wait for systemd for ever.
Spec ==
    /\ SafeSpec
    /\ \A u \in Units : WF_vars(Goroutine(u)) /\ WF_vars(u \in stopping /\ Exit(u))

------------------------------------------------------------------------------
(* Properties.                                                             *)

\* close(s.chOut) meets a channel that is closed already, or a nil one, only
\* when a unit was started before the goroutine of the last one was over.
NoDoubleClose == crashed => early

\* The exit of a unit that was active when Start or FindRunning returned is
\* announced, and then the strategy says that nothing runs, unless units were
\* started too early.  (An exit before that may be lost: Start adds the unit to
\* the waiter after it was started, and stores its name after watch() may have
\* cleared it.)
ExitIsNoticed ==
    \A u \in Units :
       (u \in settled /\ unit[u] = "dead")
          ~> (closed \/ early \/ (outChan[u] = "closed" /\ unitName # u))

\* The safety part of the contract: among others, the channel of a unit is
\* closed only after its exit, although watch() uses whatever channels s holds
\* when it runs; and a unit whose start was not confirmed runs unseen.  While
\* Start or FindRunning is about to return, its unit counts as running.
Strategy == "systemd"

Run == [s \in {Strategy} |->
          IF closed THEN NoUnit
          ELSE IF pc \in {"launched", "watched", "found"} THEN starting
          ELSE unitName]

Done == [u \in Units |->
           IF pc = "launched" /\ u = starting THEN "open" ELSE outChan[u]]

By == [u \in Units |-> IF Done[u] = "none" THEN NoUnit ELSE Strategy]

Exec == INSTANCE Execution
           WITH Strategies <- {Strategy}, NoStrategy <- NoUnit,
                Procs <- Units, NoProc <- NoUnit,
                proc <- unit, killed <- stopping, run <- Run, done <- Done, by <- By,
                closed <- IF closed THEN {Strategy} ELSE {},
                early <- IF early THEN {Strategy} ELSE {},
                broken <- FALSE

ImplementsExecution == Exec!SafeSpec

==============================================================================
