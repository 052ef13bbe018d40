--------------------------- MODULE ResetFilterProofs ---------------------------
(***************************************************************************)
(* ResetFilter for every window, however late second events may be, and    *)
(* any number of resets.  The invariant says what lastReset means between  *)
(* two resets and in the middle of one.                                    *)
(***************************************************************************)
EXTENDS ResetFilter, TLAPS

\* Between resets, lastReset is zero or so old that the filter ignores it.
Between == ~half => lastReset = 0 \/ clock >= lastReset + Window

\* In the middle of a reset lastReset is set, by this reset or long ago.
InTheMiddle ==
    half => /\ resets # 0
            /\ published[resets] = 1
            /\ lastReset # 0
            /\ lastReset = began[resets] \/ clock >= lastReset + Window

\* As long as nothing was late, lastReset stands for the reset under way.
InStep ==
    late = {} => /\ ~half => lastReset = 0
                 /\ half => lastReset = began[resets]

NotYet == \A r \in 1 .. Resets : r > resets => published[r] = 0

IInv ==
    /\ TypeOK
    /\ Between
    /\ InTheMiddle
    /\ InStep
    /\ NotYet
    /\ NoResetIsLost
    /\ PublishedOnceIfTimely

\* Initially nothing has happened.
LEMMA InitIInv == ASSUME Init PROVE IInv
<1> USE ResetAssumption DEF Init
<1>1. TypeOK
  <2>1. clock \in 1 .. MaxClock /\ lastReset \in 0 .. clock /\ resets \in 0 .. Resets
    OBVIOUS
  <2>2. began \in [1 .. Resets -> 0 .. clock] /\ published \in [1 .. Resets -> 0 .. 2]
    OBVIOUS
  <2>3. half \in BOOLEAN /\ late \in SUBSET (1 .. Resets)
    OBVIOUS
  <2> QED BY <2>1, <2>2, <2>3 DEF TypeOK
<1>2. Between /\ InTheMiddle /\ InStep /\ NotYet
  BY DEF Between, InTheMiddle, InStep, NotYet
<1>3. NoResetIsLost /\ PublishedOnceIfTimely
  BY DEF NoResetIsLost, PublishedOnceIfTimely
<1> QED BY <1>1, <1>2, <1>3 DEF IInv

\* The first event of a reset is always published.
LEMMA FirstIInv == ASSUME IInv, First PROVE IInv'
<1> USE ResetAssumption DEF IInv
<1>1. resets + 1 \in 1 .. Resets /\ resets \in Nat /\ clock \in Nat /\ lastReset \in Nat
  BY DEF First, TypeOK
<1>2. /\ published' = [published EXCEPT ![resets + 1] = @ + 1]
      /\ lastReset' = IF lastReset = 0 THEN clock ELSE lastReset
  BY <1>1 DEF First, HandleReset, Between
<1>3. published[resets + 1] = 0
  BY <1>1 DEF NotYet
<1>4. published'[resets + 1] = 1
      /\ \A r \in 1 .. Resets : r # resets + 1 => published'[r] = published[r]
  BY <1>1, <1>2, <1>3 DEF TypeOK
<1>5. TypeOK'
  BY <1>1, <1>2, <1>3 DEF First, TypeOK
<1>6. Between' /\ InTheMiddle' /\ InStep'
  BY <1>1, <1>2, <1>4 DEF First, TypeOK, Between, InTheMiddle, InStep
<1>7. NotYet'
  BY <1>1, <1>4 DEF First, NotYet
<1>8. NoResetIsLost' /\ PublishedOnceIfTimely'
  BY <1>1, <1>4 DEF First, NoResetIsLost, PublishedOnceIfTimely
<1> QED BY <1>5, <1>6, <1>7, <1>8

\* The second event is dropped, or late and published.
LEMMA SecondIInv == ASSUME IInv, Second PROVE IInv'
<1> USE ResetAssumption DEF IInv
<1>1. resets \in 1 .. Resets /\ clock \in Nat /\ lastReset \in Nat \ {0}
      /\ published[resets] = 1 /\ began[resets] \in Nat
  BY DEF Second, TypeOK, InTheMiddle
<1>2. CASE clock < lastReset + Window
  <2>1. lastReset' = 0 /\ published' = published
    BY <1>1, <1>2 DEF Second, HandleReset
  <2>2. late' \in SUBSET (1 .. Resets) /\ (late' = {} => late = {})
    BY <1>1 DEF Second, TypeOK
  <2>3. TypeOK'
    <3>1. clock' = clock /\ resets' = resets /\ began' = began /\ half' = FALSE
      BY DEF Second
    <3>2. clock' \in 1 .. MaxClock /\ lastReset' \in 0 .. clock' /\ resets' \in 0 .. Resets
      BY <1>1, <2>1, <3>1 DEF TypeOK
    <3>3. began' \in [1 .. Resets -> 0 .. clock'] /\ published' \in [1 .. Resets -> 0 .. 2]
      BY <2>1, <3>1 DEF TypeOK
    <3> QED BY <2>2, <3>1, <3>2, <3>3 DEF TypeOK
  <2>4. Between' /\ InTheMiddle' /\ InStep'
    BY <2>1 DEF Second, Between, InTheMiddle, InStep
  <2>5. NotYet' /\ NoResetIsLost' /\ PublishedOnceIfTimely'
    BY <2>1, <2>2 DEF Second, NotYet, NoResetIsLost, PublishedOnceIfTimely
  <2> QED BY <2>3, <2>4, <2>5
<1>3. CASE ~(clock < lastReset + Window)
  <2>1. lastReset' = lastReset /\ published' = [published EXCEPT ![resets] = @ + 1]
    BY <1>1, <1>3 DEF Second, HandleReset
  <2>2. published'[resets] = 2
        /\ \A r \in 1 .. Resets : r # resets => published'[r] = published[r]
    BY <1>1, <2>1 DEF TypeOK
  <2>3. late' # {}
    BY <1>1, <1>3 DEF Second, InStep
  <2>4. late' \in SUBSET (1 .. Resets)
    BY <1>1 DEF Second, TypeOK
  <2>5. TypeOK'
    <3>1. clock' = clock /\ resets' = resets /\ began' = began /\ half' = FALSE
      BY DEF Second
    <3>2. clock' \in 1 .. MaxClock /\ lastReset' \in 0 .. clock' /\ resets' \in 0 .. Resets
      BY <1>1, <2>1, <3>1 DEF TypeOK
    <3>3. began' \in [1 .. Resets -> 0 .. clock'] /\ published' \in [1 .. Resets -> 0 .. 2]
      BY <1>1, <2>1, <3>1 DEF TypeOK
    <3> QED BY <2>4, <3>1, <3>2, <3>3 DEF TypeOK
  <2>6. Between' /\ InTheMiddle' /\ InStep'
    BY <1>1, <1>3, <2>1, <2>3 DEF Second, Between, InTheMiddle, InStep
  <2>7. NotYet' /\ NoResetIsLost' /\ PublishedOnceIfTimely'
    BY <1>1, <2>2, <2>3 DEF Second, NotYet, NoResetIsLost, PublishedOnceIfTimely
  <2> QED BY <2>5, <2>6, <2>7
<1> QED BY <1>2, <1>3

\* Time only makes lastReset older.
LEMMA TickIInv == ASSUME IInv, Tick PROVE IInv'
<1> USE ResetAssumption DEF IInv
<1>1. clock' = clock + 1 /\ clock \in Nat /\ clock' \in 1 .. MaxClock
      /\ lastReset \in 0 .. clock
  BY DEF Tick, TypeOK
<1>2. began \in [1 .. Resets -> 0 .. clock']
  BY <1>1 DEF TypeOK
<1>3. TypeOK'
  BY <1>1, <1>2 DEF Tick, TypeOK
<1>4. Between' /\ InTheMiddle' /\ InStep'
  BY <1>1 DEF Tick, Between, InTheMiddle, InStep
<1>5. NotYet' /\ NoResetIsLost' /\ PublishedOnceIfTimely'
  BY DEF Tick, NotYet, NoResetIsLost, PublishedOnceIfTimely
<1> QED BY <1>3, <1>4, <1>5

\* Every state of every behaviour satisfies the invariant.
LEMMA Invariance == Spec => []IInv
<1>1. Init => IInv
  BY InitIInv
<1>2. IInv /\ [Next]_vars => IInv'
  <2> SUFFICES ASSUME IInv, [Next]_vars PROVE IInv'
    OBVIOUS
  <2>1. CASE First BY <2>1, FirstIInv
  <2>2. CASE Second BY <2>2, SecondIInv
  <2>3. CASE Tick BY <2>3, TickIInv
  <2>4. CASE UNCHANGED vars
    BY <2>4 DEF vars, IInv, TypeOK, Between, InTheMiddle, InStep, NotYet,
                NoResetIsLost, PublishedOnceIfTimely
  <2> QED BY <2>1, <2>2, <2>3, <2>4 DEF Next
<1> QED BY <1>1, <1>2, PTL DEF Spec

\* TypeOK, of which the last part matters: no reset is published more than
\* twice, and the filter's time is never ahead of the clock.
THEOREM TypeCorrect == Spec => []TypeOK
BY Invariance, PTL DEF IInv

\* No reset of the machine goes unpublished, however late second events are and
\* however closely resets follow each other (startWatcher's RESET branch).
THEOREM ResetsAreNotLost == Spec => []NoResetIsLost
BY Invariance, PTL DEF IInv

\* As long as no second event was late, a reset is published exactly once.
THEOREM TimelyResetsArePublishedOnce == Spec => []PublishedOnceIfTimely
BY Invariance, PTL DEF IInv

==============================================================================
