----------------------------- MODULE ResetFilter -----------------------------
(***************************************************************************)
(* The part of startWatcher (driver/driver.go) that turns RESET events of  *)
(* QEMU into RestartedEvents.  QEMU sends two RESET events for one reset   *)
(* of the machine; the second is recognised by coming within 100ms.        *)
(*                                                                         *)
(* Time is that at which the watcher goroutine handles an event, which may *)
(* be later than QEMU sent it.  QEMU begins a reset only when it has sent  *)
(* both events of the one before.                                          *)
(***************************************************************************)
EXTENDS Naturals

CONSTANTS Window,    \* 100ms, in ticks
          MaxGap,    \* the longest time between the two events of a reset
          Resets,    \* bound: how many resets there are
          MaxClock   \* bound: how long the clock runs

ASSUME ResetAssumption ==
    /\ Window \in Nat \ {0}
    /\ MaxGap \in Nat
    /\ Resets \in Nat
    /\ MaxClock \in Nat \ {0}

VARIABLES
    clock,       \* now; the zero value of time.Time is long before 1
    lastReset,   \* the goroutine's lastReset; 0 is the zero value
    resets,      \* resets that began, that is, whose first event was handled
    half,        \* the second event of the last reset is still to come
    began,       \* when the first event of each reset was handled
    late,        \* resets whose second event did not come within the window
    published    \* how many RestartedEvents each reset brought about

vars == <<clock, lastReset, resets, half, began, late, published>>

TypeOK ==
    /\ clock \in 1 .. MaxClock
    /\ lastReset \in 0 .. clock
    /\ resets \in 0 .. Resets
    /\ half \in BOOLEAN
    /\ began \in [1 .. Resets -> 0 .. clock]
    /\ late \in SUBSET (1 .. Resets)
    /\ published \in [1 .. Resets -> 0 .. 2]

Init ==
    /\ clock = 1
    /\ lastReset = 0
    /\ resets = 0
    /\ half = FALSE
    /\ began = [r \in 1 .. Resets |-> 0]
    /\ late = {}
    /\ published = [r \in 1 .. Resets |-> 0]

------------------------------------------------------------------------------
\* What the code might be, for the checks of the properties.
HandleResetKeepingTime(r) ==
    IF lastReset # 0 /\ clock < lastReset + Window
    THEN UNCHANGED <<lastReset, published>>
    ELSE /\ lastReset' = IF lastReset = 0 THEN clock ELSE lastReset
         /\ published' = [published EXCEPT ![r] = @ + 1]

HandleResetRestarting(r) ==
    /\ lastReset' = clock
    /\ IF lastReset # 0 /\ clock < lastReset + Window
       THEN UNCHANGED published
       ELSE published' = [published EXCEPT ![r] = @ + 1]

HandleResetStoringEnd(r) ==
    IF lastReset # 0 /\ clock < lastReset + Window
    THEN lastReset' = 0 /\ UNCHANGED published
    ELSE /\ lastReset' = clock + Window
         /\ published' = [published EXCEPT ![r] = @ + 1]

------------------------------------------------------------------------------
\* An event of reset r.  Outside of the window lastReset is left as it is.
HandleReset(r) ==
    IF lastReset # 0 /\ clock < lastReset + Window
    THEN lastReset' = 0 /\ UNCHANGED published
    ELSE /\ lastReset' = IF lastReset = 0 THEN clock ELSE lastReset
         /\ published' = [published EXCEPT ![r] = @ + 1]

First ==
    /\ ~half
    /\ resets < Resets
    /\ resets' = resets + 1
    /\ half' = TRUE
    /\ began' = [began EXCEPT ![resets + 1] = clock]
    /\ HandleReset(resets + 1)
    /\ UNCHANGED <<clock, late>>

Second ==
    /\ half
    /\ half' = FALSE
    /\ HandleReset(resets)
    /\ late' = IF clock < began[resets] + Window THEN late ELSE late \cup {resets}
    /\ UNCHANGED <<clock, resets, began>>

Tick ==
    /\ clock < MaxClock
    /\ half => clock < began[resets] + MaxGap
    /\ clock' = clock + 1
    /\ UNCHANGED <<lastReset, resets, half, began, late, published>>

Next == First \/ Second \/ Tick

Spec == Init /\ [][Next]_vars

------------------------------------------------------------------------------
(* Properties.                                                             *)

\* No reset is swallowed, however the events of different resets follow each
\* other: the second event of one is never taken for that of another.
NoResetIsLost == \A r \in 1 .. resets : published[r] > 0

\* As long as every second event came within the window, each reset of the
\* machine is published exactly once.
PublishedOnceIfTimely ==
    late = {} => \A r \in 1 .. resets : published[r] = 1

\* "qemu always sends two RESET events, ignore the second one": whatever
\* happened before, the second event of a reset is ignored if it is timely.
TimelySecondIsIgnored ==
    \A r \in 1 .. resets : r \notin late => published[r] = 1

==============================================================================
