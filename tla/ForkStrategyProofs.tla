-------------------------- MODULE ForkStrategyProofs --------------------------
(***************************************************************************)
(* What ForkStrategy promises, for any number of strategies, processes and *)
(* pidfds, and whatever its callers do.                                    *)
(*                                                                         *)
(* The waiter goroutine acts on numbers: those epoll_wait returned to it,  *)
(* and later the channels its map has for them.  What makes that right is  *)
(* Entries: the map and the interest list agree on the process that a      *)
(* number stands for, and Batch: a number of the pending batch still has   *)
(* the channel of the process that exited.  Only Close takes numbers out   *)
(* of the map; what it takes out too early is loose, and every statement   *)
(* about a number leaves those out.  An exit is announced by the number    *)
(* of a closed strategy at most as long as it is in the map, so the damage *)
(* stays with the loose numbers and the processes Mixed names.             *)
(***************************************************************************)
EXTENDS ForkStrategy, TLAPS

\* A process is held by one strategy, the one that started or found it, as long
\* as it lives, unless that strategy confuses its processes or its number is loose.
Ownership ==
    /\ PidFdsAreOwned
    /\ \A p \in Procs :
          /\ proc[p] = "unborn" => starter[p] = NoStrategy
          /\ starter[p] = NoStrategy => done[p] = "none" /\ goroutine[p] = "none"
          /\ goroutine[p] # "none" => done[p] # "none"
    /\ \A f \in Fds : fdProc[f] # NoProc => starter[fdProc[f]] # NoStrategy
    /\ \A s \in Strategies :
          (s \notin early /\ \A p \in Procs : starter[p] # s) => pidFd[s] = NoFd

\* A pid file names a process of its own strategy, or one nobody took yet.
PidFiles ==
    /\ \A s \in Strategies : pidFile[s] # NoProc =>
          /\ proc[pidFile[s]] # "unborn"
          /\ starter[pidFile[s]] \in {NoStrategy, s}
    /\ \A s, t \in Strategies :
          pidFile[s] = pidFile[t] => s = t \/ pidFile[s] = NoProc

\* What the map, the interest list and the channels have to do with each other.
Entries ==
    /\ \A f \in Fds : fdmap[f] # NoProc => done[fdmap[f]] # "none"
    /\ \A f, g \in Fds : fdmap[f] = fdmap[g] => f = g \/ fdmap[f] = NoProc
    /\ \A f, g \in Fds : fdProc[f] = fdmap[g] => f = g \/ fdmap[g] = NoProc
    /\ \A f \in Fds \ loose :
          (fdmap[f] # NoProc /\ done[fdmap[f]] = "open") => <<f, fdmap[f]>> \in registered
             \/ starter[fdmap[f]] \in early
    /\ \A e \in registered :
          /\ done[e[2]] # "none"
          /\ fdProc[e[1]] = e[2] => fdmap[e[1]] = e[2] /\ done[e[2]] = "open"
          /\ fdProc[e[1]] # e[2] => e[1] \in loose \/ starter[e[2]] \in early
          /\ e[1] \notin loose => fdmap[e[1]] = e[2]
          /\ e[1] \notin loose /\ e \in armed => done[e[2]] = "open" /\ e[1] \notin batch

\* What the goroutine knows of the numbers it is about to handle.
Batch ==
    \A f \in batch \cap Fds : f \notin loose =>
       fdmap[f] # NoProc /\ proc[fdmap[f]] = "dead" /\ done[fdmap[f]] = "open"

\* A strategy that was not used too early waits with one goroutine, for the
\* process it holds.
Holds(s, p) == pidFd[s] # NoFd /\ fdProc[pidFd[s]] = p

Goroutines ==
    /\ \A p \in Procs : Pending(p) =>
          /\ starter[p] # NoStrategy
          /\ quitCh[starter[p]] # NoProc
          /\ goroutine[p] = "waiting" => waits[p] # NoProc /\ done[waits[p]] # "none"
    /\ \A s \in Strategies : quitCh[s] # NoProc => done[quitCh[s]] # "none"
    /\ \A p \in Procs : Pending(p) /\ starter[p] \notin early =>
          /\ quitCh[starter[p]] = p
          /\ goroutine[p] = "waiting" => waits[p] = p
          /\ starter[p] \notin closed => Holds(starter[p], p) \/ pidFd[starter[p]] \in loose
          /\ starter[p] \in closed =>
                \/ pidFd[starter[p]] \in loose
                \/ done[p] = "open" /\ \A f \in Fds : fdmap[f] # p
    /\ \A s \in closed : s \in early => pidFd[s] \in loose \cup {NoFd}

\* What a strategy that was not used too early has lost sight of.
Sight ==
    \A p \in Procs :
       (starter[p] # NoStrategy /\ starter[p] \notin closed \cup early) =>
          /\ proc[p] = "alive" =>
                Holds(starter[p], p) \/ pidFd[starter[p]] \in loose \/ Mixed(p)
          /\ done[p] = "open" => Pending(p)
          /\ Pending(p) => \A q \in Procs \ {p} : starter[q] = starter[p] =>
                proc[q] # "alive" \/ (Mixed(q) /\ done[q] = "closed")

IInv ==
    /\ TypeOK
    /\ Ownership
    /\ PidFiles
    /\ Goroutines
    /\ Entries
    /\ Batch
    /\ Sight
    /\ DoneMeansDead

------------------------------------------------------------------------------
(* The parts of the state that the steps of the strategies and those of    *)
(* the waiter leave alone.                                                 *)

LEMMA InitIInv == Init => IInv
<1> USE ForkAssumption, WaiterAssumption DEF Init, WaiterInit
<1>1. Init => TypeOK
  <2> SUFFICES ASSUME Init PROVE TypeOK
    OBVIOUS
  <2>1. WaiterTypeOK
    BY DEF WaiterTypeOK
  <2>2. pidFile \in [Strategies -> Procs \cup {NoProc}]
    <3>1. pidFile \in [Strategies -> {p \in Procs : proc[p] = "alive"} \cup {NoProc}]
      BY DEF Init
    <3> HIDE DEF Init
    <3> QED BY <3>1
  <2> QED BY <2>1, <2>2 DEF TypeOK
<1>2. Init => Ownership
  BY DEF Ownership, PidFdsAreOwned, IsRunning
<1>3. Init => PidFiles
  <2> SUFFICES ASSUME Init PROVE PidFiles
    OBVIOUS
  <2>1. \A s \in Strategies :
           pidFile[s] # NoProc => pidFile[s] \in {p \in Procs : proc[p] = "alive"}
    OBVIOUS
  <2> QED BY <2>1 DEF PidFiles
<1>4. Init => Goroutines /\ Entries /\ Batch /\ Sight /\ DoneMeansDead
  BY DEF Goroutines, Pending, Entries, Batch, Sight, DoneMeansDead
<1> QED BY <1>1, <1>2, <1>3, <1>4 DEF IInv

\* A process comes into the hands of a strategy, under a number that is free;
\* when the strategy holds one already, it was used too early.
LEMMA HoldStep ==
    ASSUME IInv, NEW s \in Strategies, NEW p \in Procs, NEW f \in Fds,
           s \notin closed, Hold(s, f, p), starter[p] = NoStrategy,
           proc' \in {proc, [proc EXCEPT ![p] = "alive"]}, proc'[p] = "alive",
           pidFile' = [pidFile EXCEPT ![s] = p],
           \A t \in Strategies : pidFile[t] = p => t = s,
           early' = (IF IsRunning(s) THEN early \cup {s} ELSE early),
           UNCHANGED <<killed, loop, batch, closing, waits, closed, loose>>
    PROVE  IInv'
<1> USE ForkAssumption, WaiterAssumption DEF IInv, IsRunning
<1>1. TypeOK'
  BY DEF TypeOK, WaiterTypeOK, Hold, Watch, Add, AddFails
<1>2. done[p] = "none" /\ goroutine[p] = "none"
  BY DEF Ownership
<1>3. Ownership'
  BY <1>2 DEF Ownership, PidFdsAreOwned, TypeOK, WaiterTypeOK, Hold, Watch, Add, AddFails
<1>4. PidFiles'
  BY DEF PidFiles, TypeOK, WaiterTypeOK, Hold
<1>5. Goroutines'
  BY <1>2 DEF Goroutines, Pending, Holds, Ownership, PidFdsAreOwned, TypeOK, WaiterTypeOK, Hold, Watch, Add, AddFails
<1>6. Entries'
  BY <1>2 DEF Entries, Batch, Ownership, TypeOK, WaiterTypeOK, Hold, Watch, Add, AddFails
<1>7. Batch'
  BY <1>2 DEF Batch, Entries, TypeOK, WaiterTypeOK, Hold, Watch, Add, AddFails
<1>8. DoneMeansDead'
  BY <1>2 DEF DoneMeansDead, Mixed, TypeOK, WaiterTypeOK, Hold, Watch, Add, AddFails
<1>9. Sight'
  <2>1. \A q \in Procs : Mixed(q) => Mixed(q)'
    BY DEF Mixed, TypeOK, WaiterTypeOK, Hold, Watch, Add, AddFails
  <2>2. \A q \in Procs \ {p} : /\ Pending(q)' = Pending(q) /\ starter'[q] = starter[q]
                               /\ proc'[q] = proc[q] /\ done'[q] = done[q]
                               /\ Holds(starter[q], q)' = Holds(starter[q], q) \/ starter[q] = s
                               /\ pidFd'[starter[q]] = pidFd[starter[q]] \/ starter[q] \in {s, NoStrategy}
    BY DEF Pending, Holds, TypeOK, WaiterTypeOK, Hold, Watch, Add, AddFails
  <2>3. /\ starter'[p] = s /\ Holds(s, p)' /\ (done'[p] = "open" => Pending(p)')
    BY <1>2 DEF Pending, Holds, TypeOK, WaiterTypeOK, Hold, Watch, Add, AddFails
  <2>4. ASSUME s \notin early'
        PROVE  \A q \in Procs : starter[q] = s =>
                  ~Pending(q) /\ done[q] # "open" /\
                  (proc[q] = "alive" => Mixed(q) /\ done[q] = "closed")
    <3>1. pidFd[s] = NoFd /\ s \notin early
      BY <2>4
    <3>2. \A q \in Procs : starter[q] = s => ~Pending(q)
      BY <3>1 DEF Goroutines, Holds, TypeOK
    <3>3. \A q \in Procs : Mixed(q) => done[q] # "none"
      BY DEF Mixed, Entries, TypeOK
    <3>4. \A q \in Procs : starter[q] = s /\ proc[q] = "alive" => Mixed(q)
      BY <3>1 DEF Sight, Holds, TypeOK
    <3>5. \A q \in Procs : starter[q] = s => done[q] # "open"
      BY <3>1, <3>2 DEF Sight
    <3> QED BY <3>2, <3>3, <3>4, <3>5 DEF TypeOK, WaiterTypeOK
  <2> QED BY <1>2, <2>1, <2>2, <2>3, <2>4 DEF Sight
<1> QED BY <1>1, <1>3, <1>4, <1>5, <1>6, <1>7, <1>8, <1>9

LEMMA StartStep ==
    ASSUME IInv, NEW s \in Strategies, NEW p \in Procs, Start(s, p)
    PROVE  IInv'
<1>1. PICK f \in Fds : Hold(s, f, p)
  BY DEF Start
<1>2. starter[p] = NoStrategy
  BY DEF Start, IInv, Ownership
<1>3. \A t \in Strategies : pidFile[t] = p => t = s
  BY WaiterAssumption DEF Start, IInv, PidFiles
<1>4. proc'[p] = "alive"
  BY DEF Start, IInv, TypeOK, WaiterTypeOK
<1> QED BY <1>1, <1>2, <1>3, <1>4, HoldStep DEF Start

LEMMA FindRunningStep ==
    ASSUME IInv, NEW s \in Strategies, FindRunning(s)
    PROVE  IInv'
<1>1. PICK p \in Procs, f \in Fds : p = pidFile[s] /\ proc[p] = "alive" /\ Hold(s, f, p)
  BY DEF FindRunning
<1>2. starter[p] = NoStrategy
  BY <1>1, WaiterAssumption DEF FindRunning, Fresh, IInv, PidFiles
<1>3. \A t \in Strategies : pidFile[t] = p => t = s
  BY <1>1, WaiterAssumption DEF IInv, PidFiles
<1>4. pidFile' = [pidFile EXCEPT ![s] = p]
  BY <1>1 DEF FindRunning, IInv, TypeOK
<1>5. s \notin closed /\ early' = (IF IsRunning(s) THEN early \cup {s} ELSE early)
  BY DEF FindRunning, Fresh, history
<1> QED BY <1>1, <1>2, <1>3, <1>4, <1>5, HoldStep DEF FindRunning, history

\* From here on only what concerns early strategies may change for s.
LEMMA StartFailsStep ==
    ASSUME IInv, NEW s \in Strategies, StartFails(s)
    PROVE  IInv'
<1> USE ForkAssumption, WaiterAssumption
        DEF IInv, IsRunning, StartFails, waiterVars
<1>1. TypeOK'
  BY DEF TypeOK, WaiterTypeOK
<1>2. Ownership'
  BY DEF Ownership, PidFdsAreOwned, TypeOK, WaiterTypeOK
<1>3. PidFiles' /\ Batch' /\ DoneMeansDead' /\ Entries'
  BY DEF PidFiles, Batch, DoneMeansDead, Mixed, Entries
<1>4. Goroutines'
  BY DEF Goroutines, Pending, Holds, TypeOK
<1>5. Sight'
  BY DEF Sight, Pending, Holds, Mixed, TypeOK
<1> QED BY <1>1, <1>2, <1>3, <1>4, <1>5

LEMMA RemovePidFileStep ==
    ASSUME IInv, NEW s \in Strategies, RemovePidFile(s)
    PROVE  IInv'
BY ForkAssumption, WaiterAssumption
   DEF RemovePidFile, IInv, TypeOK, WaiterTypeOK, waiterVars, history, Ownership,
       PidFdsAreOwned, IsRunning, PidFiles, Goroutines, Pending, Holds, Entries, Batch,
       Sight, Mixed, DoneMeansDead

LEMMA KillStep ==
    ASSUME IInv, NEW s \in Strategies, Kill(s)
    PROVE  IInv'
BY ForkAssumption, WaiterAssumption
   DEF Kill, IInv, TypeOK, WaiterTypeOK, waiterVars, strategyVars, history, Ownership,
       PidFdsAreOwned, IsRunning, PidFiles, Goroutines, Pending, Holds, Entries, Batch,
       Sight, Mixed, DoneMeansDead

\* The close of a strategy that holds nothing changes nothing else ...
LEMMA CloseIdleStep ==
    ASSUME IInv, NEW s \in Strategies, Close(s), ~IsRunning(s)
    PROVE  IInv'
<1> USE ForkAssumption, WaiterAssumption DEF IInv, IsRunning
<1>1. TypeOK'
  BY DEF TypeOK, WaiterTypeOK, Close
<1>2. Ownership'
  BY DEF Ownership, PidFdsAreOwned, Close
<1>3. Goroutines'
  BY DEF Goroutines, Pending, Holds, Close
<1>4. PidFiles' /\ Entries' /\ Batch' /\ DoneMeansDead'
  BY DEF PidFiles, Entries, Batch, DoneMeansDead, Mixed, Close
<1>5. Sight'
  BY DEF Sight, Pending, Holds, Mixed, Close
<1> QED BY <1>1, <1>2, <1>3, <1>4, <1>5

\* ... and that of one which holds a number takes it out of the map, unless its
\* exit was announced: then the number is loose.
LEMMA CloseRunningStep ==
    ASSUME IInv, NEW s \in Strategies, Close(s), IsRunning(s)
    PROVE  IInv'
<1> USE ForkAssumption, WaiterAssumption DEF IInv, IsRunning
<1> DEFINE f == pidFd[s]
<1>1. /\ f \in Fds /\ s \notin closed /\ closed' = closed \cup {s}
      /\ fdProc' = [fdProc EXCEPT ![f] = NoProc]
      /\ loose \subseteq loose' /\ loose' \subseteq loose \cup {f}
      /\ ExitOnItsWay(s) => f \in loose'
  BY DEF Close, TypeOK
<1>2. UNCHANGED <<proc, loop, batch, closing, killed, pidFile, pidFd, quitCh,
                  starter, goroutine, waits, early, done>>
  BY DEF Close, Remove
<1>3. /\ \A g \in Fds : fdmap'[g] = fdmap[g]
                        \/ /\ g = f /\ fdmap'[f] = NoProc /\ fdmap[f] # NoProc
                           /\ Entry(f) \in registered /\ Entry(f) \notin registered'
      /\ registered \ {Entry(f)} \subseteq registered' /\ registered' \subseteq registered
      /\ armed' \subseteq armed
      /\ Entry(f) \in registered => fdmap[f] = fdProc[f] /\ done[fdProc[f]] = "open"
                                    /\ fdmap'[f] = NoProc /\ Entry(f) \notin registered'
  <2>1. Entry(f) \in registered => fdmap[f] = fdProc[f] /\ done[fdProc[f]] = "open"
    BY <1>1 DEF Entries, Entry
  <2> QED BY <1>1, <2>1 DEF Close, Remove, TypeOK, WaiterTypeOK, Entry
<1>4. TypeOK'
  BY <1>1 DEF TypeOK, WaiterTypeOK, Close, Remove
<1>5. Ownership'
  BY <1>1, <1>2 DEF Ownership, PidFdsAreOwned, TypeOK, WaiterTypeOK
<1>6. PidFiles'
  BY <1>2 DEF PidFiles
<1>7. Entries'
  <2>1. \A e \in registered' : e[1] \notin loose' => fdmap'[e[1]] = e[2]
    <3> SUFFICES ASSUME NEW e \in registered', e[1] \notin loose', fdmap'[e[1]] # fdmap[e[1]]
                 PROVE  FALSE
      BY <1>1, <1>3 DEF Entries
    <3>1. e \in registered /\ e \in Fds \X Procs /\ e = <<e[1], e[2]>>
      BY <1>3 DEF TypeOK, WaiterTypeOK
    <3>2. e[1] = f /\ Entry(f) \in registered /\ Entry(f) \notin registered' /\ fdmap[f] = fdProc[f]
      BY <1>3, <3>1
    <3>3. fdmap[f] = e[2]
      BY <1>1, <3>1, <3>2 DEF Entries
    <3> QED BY <3>1, <3>2, <3>3 DEF Entry
  <2>2. \A e \in registered' :
           /\ e \in registered /\ e \in Fds \X Procs
           /\ fdProc'[e[1]] = e[2] => e[1] # f /\ fdProc[e[1]] = e[2] /\ fdmap'[e[1]] = fdmap[e[1]]
    BY <1>1, <1>3 DEF TypeOK, WaiterTypeOK
  <2>3. \A e \in registered' : fdProc'[e[1]] # e[2] => e[1] \in loose \/ starter[e[2]] \in early
    <3> SUFFICES ASSUME NEW e \in registered', fdProc'[e[1]] # e[2], fdProc[e[1]] = e[2]
                 PROVE  FALSE
      BY <2>2 DEF Entries
    <3>1. e = <<e[1], e[2]>> /\ e[1] = f
      BY <1>1, <2>2 DEF TypeOK, WaiterTypeOK
    <3> QED BY <1>3, <2>2, <3>1 DEF Entry
  <2>4. \A g \in Fds \ loose' :
          (fdmap'[g] # NoProc /\ done[fdmap'[g]] = "open") => <<g, fdmap'[g]>> \in registered'
             \/ starter[fdmap'[g]] \in early
    <3> SUFFICES ASSUME NEW g \in Fds \ loose', fdmap'[g] # NoProc, done[fdmap'[g]] = "open",
                        starter[fdmap'[g]] \notin early
                 PROVE  <<g, fdmap'[g]>> \in registered'
      OBVIOUS
    <3>1. fdmap'[g] = fdmap[g] /\ <<g, fdmap[g]>> \in registered
      BY <1>1, <1>3 DEF Entries
    <3>2. <<g, fdmap[g]>> # Entry(f)
      BY <1>3, <3>1 DEF Entry
    <3> QED BY <1>3, <3>1, <3>2
  <2>5. /\ \A g \in Fds : fdmap'[g] # NoProc => done[fdmap'[g]] # "none"
        /\ \A g, h \in Fds : fdmap'[g] = fdmap'[h] => g = h \/ fdmap'[g] = NoProc
        /\ \A g, h \in Fds : fdProc'[g] = fdmap'[h] => g = h \/ fdmap'[h] = NoProc
    BY <1>1, <1>3 DEF Entries, TypeOK, WaiterTypeOK
  <2>6. \A e \in registered' :
           /\ done[e[2]] # "none"
           /\ fdProc'[e[1]] = e[2] => fdmap'[e[1]] = e[2] /\ done[e[2]] = "open"
           /\ e[1] \notin loose' /\ e \in armed' => done[e[2]] = "open" /\ e[1] \notin batch
    BY <1>1, <1>3, <2>2 DEF Entries
  <2> QED BY <1>1, <1>2, <2>1, <2>3, <2>4, <2>5, <2>6 DEF Entries
<1>8. Batch'
  BY <1>1, <1>2, <1>3 DEF Batch, ExitOnItsWay, TypeOK, WaiterTypeOK
<1>9. \A p \in Procs : Mixed(p) /\ done[p] = "closed" => Mixed(p)'
  BY <1>1, <1>2, <1>3 DEF Mixed, TypeOK
<1>10. DoneMeansDead'
  BY <1>2, <1>9 DEF DoneMeansDead
<1>11. Goroutines'
  <2>1. ASSUME NEW p \in Procs, Pending(p), starter[p] = s, s \notin early, f \notin loose'
        PROVE  done[p] = "open" /\ \A g \in Fds : fdmap'[g] # p
    <3>1. done[p] = "open"
      BY <1>1, <2>1 DEF ExitOnItsWay, Ownership, Pending, TypeOK, WaiterTypeOK
    <3>2. fdProc[f] = p
      BY <1>1, <2>1 DEF Goroutines, Holds
    <3>3. \A g \in Fds : fdmap[g] = p => g = f
      BY <1>1, <3>2, WaiterAssumption DEF Entries
    <3>4. fdmap[f] = p => Entry(f) \in registered
      BY <1>1, <2>1, <3>1, <3>2 DEF Entries, Entry
    <3> QED BY <1>1, <1>3, <3>1, <3>3, <3>4 DEF TypeOK, WaiterTypeOK
  <2>2. ASSUME NEW p \in Procs, Pending(p), starter[p] \notin early, starter[p] \notin closed'
        PROVE  Holds(starter[p], p)' \/ pidFd[starter[p]] \in loose'
    BY <1>1, <1>2, <2>2 DEF Goroutines, Holds, Ownership, PidFdsAreOwned, TypeOK, WaiterTypeOK
  <2>3. \A p \in Procs : Pending(p)' = Pending(p)
    BY <1>2 DEF Pending
  <2>4. \A p \in Procs, g \in Fds : fdmap'[g] = p => fdmap[g] = p
    BY <1>3, WaiterAssumption
  <2>5. \A t \in closed' : t \in early => pidFd[t] \in loose' \cup {NoFd}
    BY <1>1 DEF Goroutines, ExitOnItsWay
  <2> QED BY <1>1, <1>2, <2>1, <2>2, <2>3, <2>4, <2>5 DEF Goroutines
<1>12. Sight'
  <2>1. \A p \in Procs : Pending(p)' = Pending(p)
    BY <1>2 DEF Pending
  <2>2. ASSUME NEW p \in Procs, starter[p] # NoStrategy, starter[p] \notin closed' \cup early,
               proc[p] = "alive"
        PROVE  Holds(starter[p], p)' \/ pidFd[starter[p]] \in loose' \/ Mixed(p)'
    <3>1. CASE Holds(starter[p], p)
      BY <1>1, <1>2, <2>2, <3>1 DEF Holds, Ownership, PidFdsAreOwned, TypeOK, WaiterTypeOK
    <3>2. CASE pidFd[starter[p]] \in loose
      BY <1>1, <3>2
    <3>3. CASE Mixed(p)
      <4>1. PICK g \in loose : fdmap[g] = p
        BY <3>3 DEF Mixed
      <4>2. g \in Fds /\ g \in loose'
        BY <1>1, <4>1 DEF TypeOK
      <4>3. CASE fdmap'[g] = p
        BY <4>2, <4>3 DEF Mixed
      <4>4. CASE fdmap'[g] # p
        <5>1. fdProc[g] = p
          BY <1>3, <4>1, <4>2, <4>4
        <5> QED BY <1>1, <2>2, <4>2, <5>1 DEF Ownership, PidFdsAreOwned
      <4> QED BY <4>3, <4>4
    <3> QED BY <1>1, <2>2, <3>1, <3>2, <3>3 DEF Sight
  <2> QED BY <1>1, <1>2, <1>9, <2>1, <2>2 DEF Sight
<1> QED BY <1>4, <1>5, <1>6, <1>7, <1>8, <1>10, <1>11, <1>12

LEMMA GoroutineReadsStep ==
    ASSUME IInv, NEW p \in Procs, GoroutineReads(p)
    PROVE  IInv'
<1> USE ForkAssumption, WaiterAssumption DEF IInv, IsRunning, GoroutineReads, waiterVars, history
<1>1. TypeOK'
  BY DEF TypeOK, WaiterTypeOK, Goroutines, Pending
<1>2. \A q \in Procs : Pending(q)' = Pending(q)
  BY DEF Pending, TypeOK
<1>3. Ownership' /\ PidFiles' /\ Batch' /\ DoneMeansDead' /\ Entries'
  BY DEF Ownership, PidFdsAreOwned, PidFiles, Batch, DoneMeansDead, Mixed, Entries, TypeOK
<1>4. Goroutines'
  BY <1>2 DEF Goroutines, Holds, TypeOK, Pending
<1>5. Sight'
  BY <1>2 DEF Sight, Holds, Mixed
<1> QED BY <1>1, <1>3, <1>4, <1>5

\* The goroutine of a strategy that was not used too early, and whose number is
\* not loose, closes the pidfd of the process it waited for.
LEMMA GoroutineFiresStep ==
    ASSUME IInv, NEW p \in Procs, GoroutineFires(p)
    PROVE  IInv'
<1> USE ForkAssumption, WaiterAssumption DEF IInv, IsRunning
<1> DEFINE s == starter[p]
           f == pidFd[s]
<1>1. /\ s \in Strategies /\ Pending(p) /\ goroutine[p] = "waiting"
      /\ waits[p] \in Procs /\ done[waits[p]] = "closed"
  BY DEF GoroutineFires, Goroutines, Pending, TypeOK
<1>2. /\ pidFd' = [pidFd EXCEPT ![s] = NoFd]
      /\ \A g \in Fds : fdProc'[g] = IF g = f THEN NoProc ELSE fdProc[g]
      /\ registered' \subseteq registered /\ armed' \subseteq armed
      /\ \A e \in registered \ registered' : e = <<f, fdProc[f]>> /\ f \in Fds
      /\ goroutine' = [goroutine EXCEPT ![p] = "finished"]
      /\ UNCHANGED <<proc, fdmap, done, loop, batch, closing,
                     killed, pidFile, quitCh, starter, waits, closed, early, loose>>
  BY DEF GoroutineFires, Entry, history
<1>3. f = NoFd \/ f \in Fds
  BY <1>1 DEF TypeOK
<1>4. ASSUME f \in Fds \ loose
      PROVE  /\ s \notin closed /\ fdProc[f] # NoProc /\ starter[fdProc[f]] = s
             /\ s \notin early => fdProc[f] = p /\ <<f, fdProc[f]>> \notin registered
  <2>1. s \in early => s \notin closed
    BY <1>1, <1>4 DEF Goroutines
  <2>2. s \notin early => waits[p] = p
    BY <1>1 DEF Goroutines
  <2>3. s \notin early => s \notin closed /\ fdProc[f] = p
    BY <1>1, <1>4, <2>2 DEF Goroutines, Holds
  <2>4. fdProc[f] # NoProc /\ starter[fdProc[f]] = s
    BY <1>1, <1>4, <2>1, <2>3 DEF Ownership, PidFdsAreOwned
  <2> QED BY <1>1, <2>1, <2>2, <2>3, <2>4 DEF Entries
<1>5. TypeOK'
  <2>1. /\ fdProc' \in [Fds -> Procs \cup {NoProc}]
        /\ registered' \in SUBSET (Fds \X Procs) /\ armed' \in SUBSET registered'
    BY <1>1 DEF GoroutineFires, TypeOK, WaiterTypeOK
  <2> QED BY <1>1, <1>2, <2>1 DEF TypeOK, WaiterTypeOK
<1>6. Ownership'
  <2>1. ASSUME NEW g \in Fds, fdProc'[g] # NoProc
        PROVE  \/ starter[fdProc'[g]] \in early
               \/ starter[fdProc'[g]] \notin closed /\ pidFd'[starter[fdProc'[g]]] = g
    BY <1>1, <1>2, <2>1 DEF Ownership, PidFdsAreOwned, TypeOK, WaiterTypeOK
  <2>2. ASSUME NEW t \in Strategies \ closed, pidFd'[t] # NoFd, pidFd'[t] \notin loose
        PROVE  fdProc'[pidFd'[t]] # NoProc /\ starter[fdProc'[pidFd'[t]]] = t
    <3>1. t # s /\ pidFd'[t] = pidFd[t] /\ pidFd[t] \in Fds
      BY <1>1, <1>2, <2>2 DEF TypeOK
    <3>2. pidFd[t] # f
      BY <1>4, <2>2, <3>1 DEF Ownership, PidFdsAreOwned
    <3> QED BY <1>2, <2>2, <3>1, <3>2 DEF Ownership, PidFdsAreOwned
  <2> QED BY <1>1, <1>2, <2>1, <2>2 DEF Ownership, PidFdsAreOwned, TypeOK
<1>7. PidFiles' /\ Batch' /\ DoneMeansDead'
  BY <1>2 DEF PidFiles, Batch, DoneMeansDead, Mixed
<1>8. \A q \in Procs \ {p} : Pending(q)' = Pending(q)
  BY <1>2 DEF Pending, TypeOK
<1>9. ~Pending(p)'
  BY <1>2 DEF Pending, TypeOK
<1>10. ASSUME NEW q \in Procs, starter[q] \in Strategies \ {s}, Holds(starter[q], q)
       PROVE  Holds(starter[q], q)' \/ pidFd'[starter[q]] \in loose
  BY <1>1, <1>2, <1>4, <1>10 DEF Holds, TypeOK
<1>11. Goroutines'
  <2>1. \A q \in Procs : Pending(q)' => Pending(q) /\ q # p /\ goroutine'[q] = goroutine[q]
    BY <1>2, <1>8, <1>9 DEF TypeOK
  <2>2. \A q \in Procs : Pending(q)' /\ starter[q] \notin early => starter[q] # s
    BY <1>1, <2>1 DEF Goroutines
  <2>3. \A t \in Strategies \ {s} : pidFd'[t] = pidFd[t]
    BY <1>2 DEF TypeOK
  <2>4. \A q \in Procs : Pending(q) => starter[q] \in Strategies
    BY DEF Goroutines, TypeOK
  <2>5. ASSUME NEW q \in Procs, Pending(q)', starter[q] \notin early
        PROVE  /\ quitCh[starter[q]] = q
               /\ goroutine'[q] = "waiting" => waits[q] = q
               /\ starter[q] \notin closed => Holds(starter[q], q)' \/ pidFd'[starter[q]] \in loose
               /\ starter[q] \in closed =>
                    \/ pidFd'[starter[q]] \in loose
                    \/ done[q] = "open" /\ \A g \in Fds : fdmap[g] # q
    <3>1. starter[q] \in Strategies \ {s} /\ Pending(q) /\ goroutine'[q] = goroutine[q]
      BY <2>1, <2>2, <2>4, <2>5
    <3>2. pidFd'[starter[q]] = pidFd[starter[q]]
      BY <2>3, <3>1
    <3>3. starter[q] \notin closed => Holds(starter[q], q) \/ pidFd[starter[q]] \in loose
      BY <2>5, <3>1 DEF Goroutines
    <3> QED BY <1>10, <2>5, <3>1, <3>2, <3>3 DEF Goroutines
  <2>6. \A t \in closed : t \in early => pidFd'[t] \in loose \cup {NoFd}
    BY <1>2, <2>3 DEF Goroutines, TypeOK
  <2> QED BY <1>2, <2>1, <2>5, <2>6 DEF Goroutines
<1>12. Entries'
  <2>1. ASSUME NEW e \in registered', fdProc'[e[1]] # e[2], e[1] \notin loose
        PROVE  starter[e[2]] \in early
    <3>1. e \in registered /\ e[1] \in Fds /\ e = <<e[1], e[2]>>
      BY <1>2 DEF TypeOK, WaiterTypeOK
    <3>2. CASE fdProc[e[1]] # e[2]
      BY <2>1, <3>1, <3>2 DEF Entries
    <3>3. CASE fdProc[e[1]] = e[2]
      BY <1>2, <1>4, <2>1, <3>1, <3>3
    <3> QED BY <3>2, <3>3
  <2>2. ASSUME NEW g \in Fds \ loose, fdmap[g] # NoProc, done[fdmap[g]] = "open",
               starter[fdmap[g]] \notin early
        PROVE  <<g, fdmap[g]>> \in registered'
    <3>1. <<g, fdmap[g]>> \in registered
      BY <2>2 DEF Entries
    <3>2. <<g, fdmap[g]>> # <<f, fdProc[f]>>
      BY <1>4, <2>2, <3>1
    <3> QED BY <1>2, <3>1, <3>2
  <2>3. \A e \in registered' :
          /\ e \in registered /\ e[1] \in Fds /\ e[2] \in Procs
          /\ fdProc'[e[1]] = e[2] => fdProc[e[1]] = e[2]
    BY <1>2 DEF TypeOK, WaiterTypeOK
  <2>4. \A g, h \in Fds : fdProc'[g] = fdmap[h] => g = h \/ fdmap[h] = NoProc
    BY <1>2 DEF Entries
  <2> QED BY <1>2, <2>1, <2>2, <2>3, <2>4 DEF Entries
<1>13. Sight'
  <2>1. ASSUME NEW q \in Procs, starter[q] # NoStrategy, starter[q] \notin closed \cup early,
               proc[q] = "alive"
        PROVE  Holds(starter[q], q)' \/ pidFd'[starter[q]] \in loose \/ Mixed(q)
    <3>1. CASE starter[q] = s
      <4>1. waits[p] = p
        BY <1>1, <2>1, <3>1 DEF Goroutines
      <4>2. Mixed(p) \/ proc[p] = "dead"
        BY <1>1, <4>1 DEF DoneMeansDead
      <4>3. q = p \/ Mixed(q)
        BY <1>1, <2>1, <3>1 DEF Sight
      <4> QED BY <2>1, <4>2, <4>3
    <3>2. CASE starter[q] # s
      <4>1. pidFd'[starter[q]] = pidFd[starter[q]] /\ starter[q] \in Strategies \ {s}
        BY <1>2, <2>1, <3>2 DEF TypeOK
      <4>2. Holds(starter[q], q) \/ pidFd[starter[q]] \in loose \/ Mixed(q)
        BY <2>1 DEF Sight
      <4> QED BY <1>10, <4>1, <4>2
    <3> QED BY <3>1, <3>2
  <2>2. ASSUME NEW q \in Procs, starter[q] # NoStrategy, starter[q] \notin closed \cup early,
               done[q] = "open"
        PROVE  Pending(q)'
    <3>1. Pending(q)
      BY <2>2 DEF Sight
    <3>2. q # p
      BY <1>1, <2>2 DEF Goroutines
    <3> QED BY <1>8, <3>1, <3>2
  <2>3. \A q \in Procs : Mixed(q)' = Mixed(q)
    BY <1>2 DEF Mixed
  <2> QED BY <1>2, <1>8, <1>9, <2>1, <2>2, <2>3 DEF Sight
<1> QED BY <1>5, <1>6, <1>7, <1>11, <1>12, <1>13

LEMMA ExitStep ==
    ASSUME IInv, NEW p \in Procs, Exit(p)
    PROVE  IInv'
<1> USE ForkAssumption, WaiterAssumption DEF IInv, IsRunning, Exit, strategyVars, history
<1>1. TypeOK'
  BY DEF TypeOK, WaiterTypeOK
<1>2. Ownership' /\ PidFiles'
  BY DEF Ownership, PidFdsAreOwned, PidFiles, TypeOK, WaiterTypeOK
<1>3. Goroutines' /\ Entries' /\ Batch'
  BY DEF Goroutines, Pending, Holds, Entries, Batch, TypeOK, WaiterTypeOK
<1>4. Sight' /\ DoneMeansDead'
  BY DEF Sight, Pending, Holds, Mixed, DoneMeansDead, TypeOK, WaiterTypeOK
<1> QED BY <1>1, <1>2, <1>3, <1>4

\* Every event that epoll reports is an entry of the map, for a dead process,
\* unless the number is loose.
LEMMA EpollWaitStep ==
    ASSUME IInv, EpollWait, UNCHANGED <<killed, strategyVars, history>>
    PROVE  IInv'
<1> USE ForkAssumption, WaiterAssumption DEF IInv, IsRunning, strategyVars, history
<1>1. PICK events \in SUBSET Ready :
         batch' = events /\ armed' = armed \ UNION {Fired(f) : f \in events}
  BY DEF EpollWait
<1>2. TypeOK'
  BY <1>1 DEF TypeOK, WaiterTypeOK, Ready, EpollWait
<1>3. \A f \in (batch' \cap Fds) \ loose :
         \E e \in armed : e[1] = f /\ e[2] = fdmap[f] /\ proc[e[2]] = "dead" /\ done[e[2]] = "open"
  BY <1>1 DEF Ready, Fired, Entries, TypeOK, WaiterTypeOK
<1>4. Batch'
  BY <1>3 DEF Batch, TypeOK, WaiterTypeOK, EpollWait
<1>5. Entries'
  <2>1. ASSUME NEW e \in armed', e[1] \notin loose, e[1] \in batch' PROVE FALSE
    <3>1. e \in armed /\ e[1] \in Fds /\ e = <<e[1], e[2]>> /\ fdmap[e[1]] = e[2]
      BY <1>1, <2>1 DEF Entries, TypeOK, WaiterTypeOK
    <3>2. proc[e[2]] = "dead"
      BY <1>3, <2>1, <3>1
    <3>3. e \in Fired(e[1])
      BY <3>1, <3>2 DEF Fired
    <3> QED BY <1>1, <2>1, <3>3
  <2> QED BY <1>1, <2>1 DEF Entries, EpollWait
<1> QED BY <1>2, <1>4, <1>5
     DEF Ownership, PidFdsAreOwned, PidFiles, Goroutines, Pending, Holds, Sight, Mixed,
         DoneMeansDead, EpollWait

\* The channels that are closed are those of dead processes, or Mixed ones.
LEMMA NotifyStep ==
    ASSUME IInv, NEW fs \in SUBSET (batch \cap Fds), Notify(fs),
           batch' = {}, loop' \in {"wait", "stopped"},
           UNCHANGED <<proc, fdProc, closing, killed, strategyVars, history>>
    PROVE  IInv'
<1> USE ForkAssumption, WaiterAssumption DEF IInv, IsRunning, strategyVars, history
<1>1. TypeOK'
  BY DEF TypeOK, WaiterTypeOK, Notify
<1>2. \A p \in Procs : done'[p] # done[p] =>
         \E f \in fs : fdmap[f] = p /\ (proc[p] = "dead" \/ f \in loose)
  BY DEF Notify, Batch, TypeOK, WaiterTypeOK
<1>3. \A p \in Procs : /\ done'[p] = "closed" \/ done'[p] = done[p]
                       /\ done'[p] # done[p] => done[p] # "none"
  BY DEF Notify, Entries, TypeOK, WaiterTypeOK
<1>4. fdmap' = fdmap /\ registered' \subseteq registered /\ armed' \subseteq armed
  BY DEF Notify
<1>5. \A p \in Procs : Mixed(p)' = Mixed(p) /\ Pending(p)' = Pending(p)
  BY <1>4 DEF Mixed, Pending
<1>6. Ownership'
  BY <1>3 DEF Ownership, PidFdsAreOwned, TypeOK, WaiterTypeOK
<1>7. Goroutines'
  BY <1>2, <1>3, <1>4, <1>5 DEF Goroutines, Holds, TypeOK, WaiterTypeOK
<1>8. Entries'
  <2>1. ASSUME NEW e \in registered', e[1] \notin fs
        PROVE  /\ fdProc[e[1]] = e[2] => done'[e[2]] = "open"
               /\ e[1] \notin loose /\ e \in armed' => done'[e[2]] = "open"
    <3>1. e \in registered /\ e[1] \in Fds /\ e[2] \in Procs
      BY <1>4 DEF TypeOK, WaiterTypeOK
    <3>2. ASSUME fdmap[e[1]] = e[2] PROVE done'[e[2]] = done[e[2]]
      BY <1>2, <2>1, <3>1, <3>2 DEF Entries, TypeOK
    <3> QED BY <1>4, <3>1, <3>2 DEF Entries
  <2>2. ASSUME NEW e \in registered', e[1] \in fs
        PROVE  fdProc[e[1]] # e[2] /\ (e[1] \in loose \/ e \notin armed')
    <3>1. e \in registered /\ e[1] \in Fds /\ e[2] \in Procs /\ e = <<e[1], e[2]>>
      BY <1>4 DEF TypeOK, WaiterTypeOK
    <3>2. fdProc[e[1]] = e[2] => fdmap[e[1]] # NoProc
      BY <3>1 DEF Entries
    <3>3. fdProc[e[1]] # e[2]
      BY <2>2, <3>1, <3>2 DEF Notify, Entry
    <3> QED BY <1>4, <2>2, <3>1, <3>3 DEF Entries
  <2>3. ASSUME NEW f \in Fds \ loose, fdmap[f] # NoProc, done'[fdmap[f]] = "open",
               starter[fdmap[f]] \notin early
        PROVE  <<f, fdmap[f]>> \in registered'
    <3>1. fdmap[f] \in Procs /\ done[fdmap[f]] = "open"
      BY <1>3, <2>3 DEF TypeOK, WaiterTypeOK
    <3>2. <<f, fdmap[f]>> \in registered
      BY <2>3, <3>1 DEF Entries
    <3>3. f \notin fs
      BY <2>3 DEF Notify, TypeOK, WaiterTypeOK
    <3> QED BY <3>2, <3>3 DEF Notify, Entry
  <2>4. \A f \in Fds : fdmap[f] # NoProc => done'[fdmap[f]] # "none"
    BY <1>3 DEF Entries, TypeOK, WaiterTypeOK
  <2>5. \A e \in registered' : e \in registered /\ e[1] \in Fds /\ e[2] \in Procs
                               /\ done'[e[2]] # "none"
    BY <1>3, <1>4 DEF Entries, TypeOK, WaiterTypeOK
  <2>6. UNCHANGED <<fdProc, starter, fdmap, early, loose>> /\ batch' = {}
    BY <1>4
  <2> QED BY <2>1, <2>2, <2>3, <2>4, <2>5, <2>6 DEF Entries
<1>9. DoneMeansDead'
  <2> SUFFICES ASSUME NEW p \in Procs, done'[p] = "closed", done[p] # "closed", proc[p] # "dead"
               PROVE  Mixed(p)
    BY <1>5 DEF DoneMeansDead
  <2> QED BY <1>2 DEF Mixed
<1>10. Sight'
  <2>1. \A p \in Procs : /\ done'[p] = "open" => done[p] = "open"
                         /\ done[p] = "closed" => done'[p] = "closed"
    BY <1>3 DEF TypeOK, WaiterTypeOK
  <2> QED BY <1>5, <2>1 DEF Sight, Holds
<1> QED BY <1>1, <1>6, <1>7, <1>8, <1>9, <1>10 DEF PidFiles, Batch

LEMMA WaiterCloseStep ==
    ASSUME IInv, WaiterClose
    PROVE  IInv'
BY ForkAssumption, WaiterAssumption
   DEF WaiterClose, CloseWaiter, IInv, TypeOK, WaiterTypeOK, strategyVars, history,
       Ownership, PidFdsAreOwned, IsRunning, PidFiles, Goroutines, Pending, Holds, Entries,
       Batch, Sight, Mixed, DoneMeansDead

LEMMA IInvInductive == IInv /\ [Next]_vars => IInv'
<1> SUFFICES ASSUME IInv, [Next]_vars PROVE IInv'
  OBVIOUS
<1>1. ASSUME NEW s \in Strategies, NEW p \in Procs, Start(s, p) PROVE IInv'
  BY <1>1, StartStep
<1>2. ASSUME NEW s \in Strategies, StartFails(s) PROVE IInv'
  BY <1>2, StartFailsStep
<1>3. ASSUME NEW s \in Strategies, FindRunning(s) PROVE IInv'
  BY <1>3, FindRunningStep
<1>4. ASSUME NEW s \in Strategies, RemovePidFile(s) PROVE IInv'
  BY <1>4, RemovePidFileStep
<1>5. ASSUME NEW s \in Strategies, Kill(s) PROVE IInv'
  BY <1>5, KillStep
<1>6. ASSUME NEW s \in Strategies, Close(s) PROVE IInv'
  BY <1>6, CloseIdleStep, CloseRunningStep
<1>7. ASSUME NEW p \in Procs, GoroutineReads(p) PROVE IInv'
  BY <1>7, GoroutineReadsStep
<1>8. ASSUME NEW p \in Procs, GoroutineFires(p) PROVE IInv'
  BY <1>8, GoroutineFiresStep
<1>9. ASSUME NEW p \in Procs, Exit(p) PROVE IInv'
  BY <1>9, ExitStep
<1>10. ASSUME WaiterLoop PROVE IInv'
  <2>1. CASE EpollWait
    BY <1>10, <2>1, EpollWaitStep DEF WaiterLoop
  <2>2. CASE HandleBatch
    <3>1. batch \in SUBSET (batch \cap Fds)
      BY <2>2 DEF HandleBatch, IInv, TypeOK, WaiterTypeOK
    <3> QED BY <1>10, <2>2, <3>1, NotifyStep DEF WaiterLoop, HandleBatch
  <2>3. CASE StopLoop
    <3>1. PICK before \in SUBSET (batch \cap Fds) : Notify(before)
      BY <2>3 DEF StopLoop
    <3> QED BY <1>10, <2>3, <3>1, NotifyStep DEF WaiterLoop, StopLoop
  <2> QED BY <1>10, <2>1, <2>2, <2>3 DEF WaiterLoop
<1>11. ASSUME WaiterClose PROVE IInv'
  BY <1>11, WaiterCloseStep
<1>12. CASE UNCHANGED vars
  BY <1>12 DEF vars, waiterVars, strategyVars, history, IInv, TypeOK, WaiterTypeOK,
       Ownership, PidFdsAreOwned, IsRunning, PidFiles, Goroutines, Pending, Holds, Entries,
       Batch, Sight, Mixed, DoneMeansDead
<1> QED BY <1>1, <1>2, <1>3, <1>4, <1>5, <1>6, <1>7, <1>8, <1>9, <1>10, <1>11, <1>12 DEF Next

------------------------------------------------------------------------------
(* The theorems.                                                           *)

LEMMA Invariance == SafeSpec => []IInv
BY InitIInv, IInvInductive, PTL DEF SafeSpec

\* Every variable keeps its type.
THEOREM TypeCorrect == SafeSpec => []TypeOK
<1>1. IInv => TypeOK
  BY DEF IInv
<1> QED BY <1>1, Invariance, PTL

\* The channel returned by Start or FindRunning is closed only once the process
\* has exited, although the waiter goes by numbers that the kernel reuses; the
\* exceptions are processes whose number was given up by an early Close.
THEOREM DoneOnlyAfterExit == SafeSpec => []DoneMeansDead
<1>1. IInv => DoneMeansDead
  BY DEF IInv
<1> QED BY <1>1, Invariance, PTL

\* IsRunning denies no process that is alive, unless Start was called while one
\* was held (the goroutine of the first then forgets the second), or the number
\* of the process was given up by an early Close.
THEOREM NotRunningOnlyAfterExit == SafeSpec => []NotRunningMeansDead
<1>1. IInv => NotRunningMeansDead
  <2> SUFFICES ASSUME IInv, NEW p \in Procs, starter[p] # NoStrategy,
                      starter[p] \notin closed \cup early, ~IsRunning(starter[p]),
                      ~Mixed(p)
               PROVE  proc[p] = "dead"
    BY DEF NotRunningMeansDead
  <2> USE ForkAssumption, WaiterAssumption
  <2>1. starter[p] \in Strategies /\ pidFd[starter[p]] = NoFd
    BY DEF IInv, TypeOK, IsRunning
  <2>2. NoFd \notin loose
    BY DEF IInv, TypeOK
  <2>3. proc[p] # "alive" /\ proc[p] # "unborn"
    BY <2>1, <2>2 DEF IInv, Ownership, Sight, Holds
  <2> QED BY <2>3 DEF IInv, TypeOK, WaiterTypeOK
<1> QED BY <1>1, Invariance, PTL

\* The waiter never closes a channel twice (which would panic), unless by a
\* number that was given up by an early Close.
THEOREM ChannelsAreClosedOnce == SafeSpec => []NoDoubleClose
<1>1. IInv => NoDoubleClose
  BY DEF IInv, NoDoubleClose, Batch
<1> QED BY <1>1, Invariance, PTL

\* No pidfd is leaked, shared or closed while it is in use, but for the two uses
\* that the history variables name.
THEOREM PidFdsHaveOneOwner == SafeSpec => []PidFdsAreOwned
<1>1. IInv => PidFdsAreOwned
  BY DEF IInv, Ownership
<1> QED BY <1>1, Invariance, PTL

\* A pidfd is off the interest list before it is closed.
THEOREM InterestStaysOpen == SafeSpec => []InterestIsOpen
<1>1. IInv => InterestIsOpen
  BY DEF IInv, Entries, InterestIsOpen, TypeOK, WaiterTypeOK
<1> QED BY <1>1, Invariance, PTL

------------------------------------------------------------------------------
(* ForkStrategy keeps the promises of Execution.  Once a number is loose   *)
(* Execution allows any step, so the lemmas are about the time before.     *)

LEMMA InitRefines == Init => Exec!Init
BY DEF Init, WaiterInit, Exec!Init, Run, By

\* A strategy that holds a new pidfd is the only one whose view changes.
LEMMA HoldRefines ==
    ASSUME IInv, loose = {}, NEW s \in Strategies, NEW p \in Procs, NEW f \in Fds,
           s \notin closed, Hold(s, f, p), starter[p] = NoStrategy, closed' = closed
    PROVE  Exec!Hold(s, p)
<1> USE ForkAssumption, WaiterAssumption
<1>1. \A t \in Strategies \ closed : pidFd[t] # NoFd => pidFd[t] # f
  BY DEF IInv, Ownership, PidFdsAreOwned, IsRunning, Hold
<1>2. /\ pidFd'[s] = f /\ fdProc'[f] = p
      /\ \A t \in Strategies \ {s} : pidFd'[t] = pidFd[t]
      /\ \A g \in Fds \ {f} : fdProc'[g] = fdProc[g]
  BY DEF IInv, TypeOK, WaiterTypeOK, Hold
<1>3. \A t \in Strategies \ {s} : Run'[t] = Run[t]
  BY <1>1, <1>2 DEF Run, IInv, TypeOK
<1>4. Run'[s] = p
  BY <1>2 DEF Run
<1>5. Run' = [Run EXCEPT ![s] = p]
  BY <1>3, <1>4 DEF Run
<1>6. done[p] = "none"
  BY DEF IInv, Ownership
<1>7. starter' = [starter EXCEPT ![p] = s]
  BY DEF Hold
<1>8. CASE Add(f, p)
  <2>1. done' = [done EXCEPT ![p] = "open"]
    BY <1>8 DEF Add
  <2>2. By' = [By EXCEPT ![p] = s]
    BY <1>7, <2>1 DEF By, IInv, TypeOK, WaiterTypeOK
  <2> QED BY <1>5, <2>1, <2>2 DEF Exec!Hold
<1>9. CASE AddFails
  <2>1. done' = done
    BY <1>9 DEF AddFails
  <2>2. By' = By
    BY <1>6, <1>7, <2>1 DEF By, IInv, TypeOK, WaiterTypeOK
  <2> QED BY <1>5, <2>1, <2>2 DEF Exec!Hold
<1> QED BY <1>8, <1>9 DEF Hold, Watch

\* A strategy that was not used too early and holds nothing is idle.
LEMMA IdleMeansNotHeld ==
    ASSUME IInv, loose = {}, NEW s \in Strategies, s \notin closed \cup early
    PROVE  Exec!Idle(s) <=> ~IsRunning(s)
<1> USE ForkAssumption, WaiterAssumption DEF IsRunning
<1>1. IsRunning(s) => Run[s] # NoProc
  BY DEF IInv, Ownership, PidFdsAreOwned, Run
<1>2. ASSUME ~IsRunning(s) PROVE Exec!Idle(s)
  <2>1. Run[s] = NoProc
    BY <1>2 DEF Run
  <2>2. \A p \in Procs : starter[p] = s => ~Pending(p)
    BY <1>2 DEF IInv, Goroutines, Holds
  <2>3. \A p \in Procs : starter[p] = s => done[p] # "open"
    BY <2>2 DEF IInv, Sight
  <2> QED BY <2>1, <2>3 DEF Exec!Idle, By
<1> QED BY <1>1, <1>2 DEF Exec!Idle

LEMMA StartRefines ==
    ASSUME IInv, loose = {}, NEW s \in Strategies, NEW p \in Procs, Start(s, p)
    PROVE  Exec!Start(s, p)
<1>1. PICK f \in Fds : Hold(s, f, p)
  BY DEF Start
<1>2. starter[p] = NoStrategy
  BY DEF Start, IInv, Ownership
<1>3. Exec!Hold(s, p)
  BY <1>1, <1>2, HoldRefines DEF Start
<1>4. early' = IF Exec!Idle(s) THEN early ELSE early \cup {s}
  BY IdleMeansNotHeld DEF Start, IInv, TypeOK
<1> QED BY <1>3, <1>4 DEF Start, Exec!Start

LEMMA StartFailsRefines ==
    ASSUME IInv, loose = {}, NEW s \in Strategies, StartFails(s)
    PROVE  Exec!StartFails(s)
<1> USE ForkAssumption, WaiterAssumption
<1>1. Run[s] # NoProc
  BY DEF StartFails, IsRunning, Run, IInv, Ownership, PidFdsAreOwned
<1>2. Run' = [Run EXCEPT ![s] = NoProc]
  BY DEF StartFails, Run, waiterVars, IInv, TypeOK
<1>3. By' = By
  BY DEF StartFails, By, waiterVars
<1> QED BY <1>1, <1>2, <1>3 DEF StartFails, Exec!StartFails, waiterVars

LEMMA FindRunningRefines ==
    ASSUME IInv, loose = {}, NEW s \in Strategies, FindRunning(s)
    PROVE  \E p \in Procs : Exec!FindRunning(s, p)
<1> USE ForkAssumption, WaiterAssumption DEF IsRunning
<1>1. PICK p \in Procs, f \in Fds : p = pidFile[s] /\ proc[p] = "alive" /\ Hold(s, f, p)
  BY DEF FindRunning
<1>2. starter[p] = NoStrategy
  BY <1>1 DEF FindRunning, Fresh, IInv, PidFiles
<1>3. Exec!Hold(s, p)
  BY <1>1, <1>2, HoldRefines DEF FindRunning, Fresh
<1>4. done[p] = "none"
  BY <1>2 DEF IInv, Ownership
<1>5. ASSUME NEW t \in Strategies, Run[t] = p PROVE FALSE
  <2>1. t \notin closed /\ pidFd[t] # NoFd /\ fdProc[pidFd[t]] = p
    BY <1>5 DEF Run
  <2>2. starter[p] = t
    BY <2>1 DEF IInv, Ownership, PidFdsAreOwned
  <2> QED BY <1>2, <2>2
<1>6. Exec!Idle(s)
  BY IdleMeansNotHeld DEF FindRunning, Fresh
<1> QED BY <1>1, <1>3, <1>4, <1>5, <1>6
     DEF FindRunning, Fresh, history, Exec!FindRunning

LEMMA KillRefines ==
    ASSUME IInv, loose = {}, NEW s \in Strategies, Kill(s)
    PROVE  Exec!Kill(s)
<1>1. Run[s] = fdProc[pidFd[s]] /\ Run[s] # NoProc
  BY DEF Kill, IsRunning, Run, IInv, Ownership, PidFdsAreOwned
<1>2. Run' = Run /\ By' = By
  BY DEF Kill, waiterVars, strategyVars, Run, By
<1> QED BY <1>1, <1>2 DEF Kill, waiterVars, strategyVars, history, Exec!Kill

\* Close gives a number up too early only when the exit is on its way.
LEMMA CloseRefines ==
    ASSUME IInv, loose = {}, NEW s \in Strategies, Close(s)
    PROVE  Exec!Close(s)
<1> USE ForkAssumption, WaiterAssumption
<1>1. s \notin closed /\ closed' = closed \cup {s}
  BY DEF Close
<1>2. Run' = [Run EXCEPT ![s] = NoProc]
  <2>1. ASSUME NEW t \in Strategies \ closed, t # s, pidFd[t] # NoFd
        PROVE  fdProc'[pidFd[t]] = fdProc[pidFd[t]]
    <3>1. pidFd[s] # pidFd[t] \/ ~IsRunning(s)
      BY <1>1, <2>1 DEF IsRunning, IInv, Ownership, PidFdsAreOwned
    <3>2. pidFd[s] \in Fds \cup {NoFd} /\ pidFd[t] \in Fds
      BY <2>1 DEF IInv, TypeOK
    <3> QED BY <3>1, <3>2 DEF Close, IsRunning, IInv, TypeOK, WaiterTypeOK
  <2>2. pidFd' = pidFd
    BY DEF Close
  <2>3. \A t \in Strategies \ {s} : Run'[t] = Run[t]
    BY <1>1, <2>1, <2>2 DEF Run
  <2> QED BY <1>1, <2>3 DEF Run
<1>3. done' = done /\ By' = By
  BY DEF Close, Remove, By
<1>4. ASSUME loose' # {} PROVE Exec!OnItsWay(s)
  <2>1. IsRunning(s) /\ ExitOnItsWay(s)
    BY <1>4 DEF Close
  <2>2. Run[s] = fdProc[pidFd[s]] /\ Run[s] # NoProc
    BY <1>1, <2>1 DEF IsRunning, Run, IInv, Ownership, PidFdsAreOwned
  <2>3. pidFd[s] \in batch /\ fdmap[pidFd[s]] = fdProc[pidFd[s]] => proc[Run[s]] = "dead"
    BY <2>1, <2>2 DEF IsRunning, IInv, Batch, TypeOK
  <2>4. ASSUME NEW p \in Procs, starter[p] = s, Pending(p), done[p] = "closed", s \notin early
        PROVE  proc[Run[s]] = "dead"
    <3>1. Run[s] = p
      BY <1>1, <2>2, <2>4 DEF IInv, Goroutines, Holds
    <3> QED BY <2>4, <3>1 DEF IInv, DoneMeansDead, Mixed
  <2> QED BY <2>1, <2>2, <2>3, <2>4 DEF ExitOnItsWay, Exec!OnItsWay
<1>5. (loose' # {}) \in {FALSE, FALSE \/ Exec!OnItsWay(s)}
  BY <1>4
<1> QED BY <1>1, <1>2, <1>3, <1>5 DEF Close, Exec!Close

\* The goroutine forgets the process of the closed channel, or that of an early
\* strategy; after Close it changes nothing that can be seen.
LEMMA GoroutineFiresRefines ==
    ASSUME IInv, loose = {}, NEW p \in Procs, GoroutineFires(p)
    PROVE  (\E s \in Strategies : Exec!Forget(s)) \/ UNCHANGED Exec!vars
<1> USE ForkAssumption, WaiterAssumption
<1> DEFINE s == starter[p]
<1>1. s \in Strategies
  BY DEF IInv, GoroutineFires, Goroutines, Pending, TypeOK
<1>2. UNCHANGED <<proc, killed, done, closed, early, loose, starter>>
  BY DEF GoroutineFires, history
<1>3. By' = By
  BY <1>2 DEF By
<1>4. /\ pidFd'[s] = NoFd
      /\ \A t \in Strategies \ {s} : pidFd'[t] = pidFd[t]
      /\ \A g \in Fds \ {pidFd[s]} : fdProc'[g] = fdProc[g]
  BY <1>1 DEF GoroutineFires, IInv, TypeOK, WaiterTypeOK
<1>5. CASE s \in closed \/ pidFd[s] = NoFd
  <2>1. ASSUME s \in closed PROVE pidFd[s] = NoFd
    BY <1>1, <2>1 DEF IInv, Goroutines, Pending, GoroutineFires
  <2>2. pidFd[s] \notin Fds /\ \A g \in Fds : fdProc'[g] = fdProc[g]
    BY <1>4, <1>5, <2>1
  <2>3. \A t \in Strategies : pidFd'[t] = pidFd[t]
    BY <1>4, <1>5, <2>1
  <2>4. Run' = Run
    BY <1>2, <2>2, <2>3 DEF Run, IInv, TypeOK
  <2> QED BY <1>2, <1>3, <2>4 DEF Exec!vars
<1>6. CASE s \notin closed /\ pidFd[s] # NoFd
  <2>1. Run[s] = fdProc[pidFd[s]] /\ Run[s] # NoProc
    BY <1>1, <1>6 DEF Run, IInv, Ownership, PidFdsAreOwned, IsRunning
  <2>2. ASSUME s \notin early PROVE proc[Run[s]] = "dead"
    <3>1. waits[p] = p /\ Run[s] = p
      BY <1>1, <1>6, <2>1, <2>2 DEF IInv, Goroutines, Holds, Pending, GoroutineFires
    <3> QED BY <3>1 DEF GoroutineFires, IInv, DoneMeansDead, Mixed
  <2>3. \A t \in Strategies \ closed : pidFd[t] = pidFd[s] => t = s
    BY <1>1, <1>6 DEF IInv, Ownership, PidFdsAreOwned, IsRunning
  <2>4. \A t \in Strategies \ {s} : Run'[t] = Run[t]
    BY <1>2, <1>4, <2>3 DEF Run, IInv, TypeOK
  <2>5. Run' = [Run EXCEPT ![s] = NoProc]
    BY <1>4, <2>4 DEF Run
  <2> QED BY <1>1, <1>2, <1>3, <1>6, <2>1, <2>2, <2>5 DEF Exec!Forget
<1> QED BY <1>5, <1>6

\* A batch announces dead processes, whose channels are open.
LEMMA NotifyRefines ==
    ASSUME IInv, loose = {}, NEW fs \in SUBSET (batch \cap Fds), Notify(fs),
           UNCHANGED <<proc, fdProc, killed, strategyVars, history>>
    PROVE  (\E ps \in SUBSET Procs : Exec!Announce(ps)) \/ UNCHANGED Exec!vars
<1> USE ForkAssumption, WaiterAssumption DEF strategyVars, history
<1> DEFINE ps == {p \in Procs : \E f \in fs : fdmap[f] = p}
<1>1. \A p \in ps : proc[p] = "dead" /\ done[p] = "open"
  BY DEF IInv, Batch
<1>2. done' = [p \in Procs |-> IF p \in ps THEN "closed" ELSE done[p]]
  BY DEF Notify
<1>3. Run' = Run
  BY DEF Run
<1>4. By' = By
  <2>1. \A p \in Procs : done'[p] = "none" <=> done[p] = "none"
    BY <1>1, <1>2
  <2> QED BY <2>1 DEF By
<1>5. CASE ps = {}
  <2>1. done' = done
    BY <1>2, <1>5 DEF IInv, TypeOK, WaiterTypeOK
  <2> QED BY <1>3, <1>4, <2>1 DEF Exec!vars
<1>6. CASE ps # {}
  BY <1>1, <1>2, <1>3, <1>4, <1>6 DEF Exec!Announce
<1> QED BY <1>5, <1>6

\* What is given up stays given up, and then any step will do.
LEMMA LooseStays ==
    ASSUME [Next]_vars, loose # {}
    PROVE  loose' # {}
BY DEF Next, Start, StartFails, FindRunning, RemovePidFile, Kill, Close, GoroutineReads,
       GoroutineFires, Exit, WaiterLoop, WaiterClose, history, vars

LEMMA StepRefines == IInv /\ [Next]_vars => [Exec!Next]_Exec!vars
<1>0. ASSUME [Next]_vars, loose # {} PROVE Exec!Next
  BY <1>0, LooseStays DEF Exec!Next, Exec!Anything
<1> SUFFICES ASSUME IInv, [Next]_vars, loose = {} PROVE Exec!Next \/ UNCHANGED Exec!vars
  BY <1>0
<1>1. ASSUME NEW s \in Strategies, NEW p \in Procs, Start(s, p) PROVE Exec!Next
  BY <1>1, StartRefines DEF Exec!Next
<1>2. ASSUME NEW s \in Strategies, StartFails(s) PROVE Exec!Next
  BY <1>2, StartFailsRefines DEF Exec!Next
<1>3. ASSUME NEW s \in Strategies, FindRunning(s) PROVE Exec!Next
  BY <1>3, FindRunningRefines DEF Exec!Next
<1>4. ASSUME NEW s \in Strategies, RemovePidFile(s) PROVE UNCHANGED Exec!vars
  BY <1>4 DEF RemovePidFile, waiterVars, history, Run, By, Exec!vars
<1>5. ASSUME NEW s \in Strategies, Kill(s) PROVE Exec!Next
  BY <1>5, KillRefines DEF Exec!Next
<1>6. ASSUME NEW s \in Strategies, Close(s) PROVE Exec!Next
  BY <1>6, CloseRefines DEF Exec!Next
<1>7. ASSUME NEW p \in Procs, GoroutineReads(p) PROVE UNCHANGED Exec!vars
  BY <1>7 DEF GoroutineReads, waiterVars, history, Run, By, Exec!vars
<1>8. ASSUME NEW p \in Procs, GoroutineFires(p)
      PROVE  Exec!Next \/ UNCHANGED Exec!vars
  BY <1>8, GoroutineFiresRefines DEF Exec!Next
<1>9. ASSUME NEW p \in Procs, Exit(p) PROVE Exec!Next
  <2>1. Exec!Exit(p)
    BY <1>9 DEF Exit, strategyVars, history, Run, By, Exec!Exit
  <2> QED BY <2>1 DEF Exec!Next
<1>10. ASSUME WaiterLoop PROVE Exec!Next \/ UNCHANGED Exec!vars
  <2>1. CASE EpollWait
    BY <1>10, <2>1 DEF WaiterLoop, EpollWait, strategyVars, history, Run, By, Exec!vars
  <2>2. CASE HandleBatch
    <3>1. batch \in SUBSET (batch \cap Fds)
      BY <2>2 DEF HandleBatch, IInv, TypeOK, WaiterTypeOK
    <3> QED BY <1>10, <2>2, <3>1, NotifyRefines DEF WaiterLoop, HandleBatch, Exec!Next
  <2>3. CASE StopLoop
    <3>1. PICK before \in SUBSET (batch \cap Fds) : Notify(before)
      BY <2>3 DEF StopLoop
    <3> QED BY <1>10, <2>3, <3>1, NotifyRefines DEF WaiterLoop, StopLoop, Exec!Next
  <2> QED BY <1>10, <2>1, <2>2, <2>3 DEF WaiterLoop
<1>11. ASSUME WaiterClose PROVE UNCHANGED Exec!vars
  BY <1>11 DEF WaiterClose, CloseWaiter, strategyVars, history, Run, By, Exec!vars
<1>12. CASE UNCHANGED vars
  BY <1>12 DEF vars, waiterVars, strategyVars, history, Run, By, Exec!vars
<1> QED BY <1>1, <1>2, <1>3, <1>4, <1>5, <1>6, <1>7, <1>8, <1>9, <1>10, <1>11, <1>12 DEF Next

\* The strategies behave as the driver may expect of any execution strategy, and
\* as Execution says when the driver starts or closes one too early.
THEOREM ForkImplementsExecution == SafeSpec => Exec!SafeSpec
BY InitRefines, StepRefines, Invariance, PTL DEF SafeSpec, Exec!SafeSpec

==============================================================================
