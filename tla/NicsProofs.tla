------------------------------ MODULE NicsProofs ------------------------------
(***************************************************************************)
(* Network adapters, for any number of adapters, root ports, callers, CPUs  *)
(* and faults: what a clean call reports is true and stays true, no tap fd  *)
(* is left in QEMU without a call to close it, and a clean call is refused *)
(* only for a reason.                                                      *)
(***************************************************************************)
EXTENDS Nics, FiniteSetTheorems, TLAPS

Running(u)   == pc[u] # "idle"
Attaching(u) == pc[u] \in {"tap", "vhost", "netdev", "device", "close"}

\* A call under way has an adapter, of which nothing is reported yet; only an
\* Attach has locals, and only a call under way can be clean.
CallOf(u) ==
    /\ Running(u) => adapter[u] \in Adapters /\ last[adapter[u]] = "none"
    /\ op[u] = IF Attaching(u) THEN "attach" ELSE IF Running(u) THEN "detach" ELSE "none"
    /\ ~Attaching(u) => local[u] = NoLocals
    /\ u \in clean => Running(u)

\* Plug counts its queues, none of which is beyond the CPUs of the VM.
SentOf(u) ==
    Attaching(u) =>
       /\ local[u].port \in Ports
       /\ local[u].queues \in 1 .. cpus
       /\ pc[u] = "tap" =>
             \E k \in 0 .. local[u].queues - 1 : local[u].sent = 0 .. k - 1
       /\ pc[u] = "vhost" =>
             \E k \in 0 .. local[u].queues - 1 : local[u].sent = 0 .. k
       /\ pc[u] \in {"netdev", "device"} => local[u].sent = 0 .. local[u].queues - 1
       /\ pc[u] = "close" => local[u].sent # {}

\* A clean call has its adapter to itself, and the root port if it attaches.
Apart(u, w) ==
    Running(w) => adapter[w] # adapter[u] /\ ~(Attaching(u) /\ Attaching(w))

CallInv == /\ \A u \in Users : CallOf(u) /\ SentOf(u)
           /\ \A u \in clean : \A w \in Users \ {u} : Apart(u, w)

\* A tap fd is there on behalf of a call that will use it up or close it.
Owns(u, f) == /\ pc[u] \in {"tap", "vhost", "netdev", "close"}
              /\ adapter[u] = f.adapter
              /\ f.queue \in local[u].sent

FdInv ==
    /\ \A f \in fds : f.queue < cpus /\ last[f.adapter] # "attached"
    /\ faults = 0 => \A f \in fds : f.kind = "tap" => \E u \in Users : Owns(u, f)

\* How far a clean call has come.
AttachProgress(u) ==
    /\ local[u].port \notin Used
    /\ \A f \in fds : f.adapter = adapter[u] => f.queue < local[u].queues
    /\ pc[u] \in {"tap", "vhost", "netdev"} =>
          /\ u \in excused \/ (adapter[u] \notin netdev /\ device[adapter[u]] = "none")
          /\ \A i \in local[u].sent :
                /\ Fd(adapter[u], "tap", i) \in fds
                /\ pc[u] # "vhost" \/ i + 1 \in local[u].sent =>
                      Fd(adapter[u], "vhost", i) \in fds
    /\ pc[u] = "device" =>
          /\ adapter[u] \in netdev
          /\ \A f \in fds : f.adapter # adapter[u]
          /\ u \in excused \/ device[adapter[u]] = "none"
    /\ pc[u] = "close" => u \in excused

ProgressOf(u) ==
    /\ Attaching(u) => AttachProgress(u)
    /\ pc[u] = "del_device" /\ device[adapter[u]] = "unplugging" => u \in excused
    /\ pc[u] = "del_netdev" => device[adapter[u]] # "attached"

ProgressInv == \A u \in clean : ProgressOf(u)

IInv == TypeOK /\ CallInv /\ FdInv /\ ProgressInv /\ SuccessIsLasting

------------------------------------------------------------------------------
(* Finite sets of numbers.                                                 *)

\* QEMU lists its ports in an order, so there is a last one of those that have
\* no device.
LEMMA MaxOfFinite ==
    ASSUME NEW S, S \subseteq Nat, IsFiniteSet(S), S # {}
    PROVE  Max(S) \in S /\ \A y \in S : Max(S) >= y
<1> DEFINE HasMax(T) == \E x \in T : \A y \in T : x >= y
           Bad == {T \in SUBSET S : T # {} /\ ~HasMax(T)}
           R == StrictSubsetOrdering(S)
<1>1. Bad = {}
  <2> SUFFICES ASSUME Bad # {} PROVE FALSE
    OBVIOUS
  <2>1. Bad \subseteq FiniteSubsetsOf(S)
    BY FS_FiniteSubsetsOfFinite
  <2>2. IsWellFoundedOn(R, FiniteSubsetsOf(S))
    BY FS_StrictSubsetOrderingWellFounded
  <2>3. PICK T \in Bad : \A U \in Bad : ~(<<U, T>> \in R)
    <3> HIDE DEF Bad, R
    <3> QED BY <2>1, <2>2, WFMin
  <2>4. PICK x \in T : TRUE
    OBVIOUS
  <2>5. CASE T \ {x} = {}
    BY <2>3, <2>4, <2>5
  <2>6. CASE T \ {x} # {}
    <3>1. <<T \ {x}, T>> \in R
      BY <2>3, <2>4 DEF StrictSubsetOrdering
    <3>2. HasMax(T \ {x})
      BY <2>3, <2>4, <2>6, <3>1
    <3>3. PICK m \in T \ {x} : \A y \in T \ {x} : m >= y
      BY <3>2
    <3>4. m \in Nat /\ x \in Nat /\ T \subseteq Nat
      BY <2>3, <2>4, <3>3
    <3>5. CASE m >= x
      BY <2>3, <3>3, <3>4, <3>5
    <3>6. CASE ~(m >= x)
      <4>1. \A y \in T : x >= y
        BY <3>3, <3>4, <3>6
      <4> QED BY <2>3, <2>4, <4>1
    <3> QED BY <3>5, <3>6
  <2> QED BY <2>5, <2>6
<1>2. HasMax(S)
  BY <1>1
<1> QED BY <1>2 DEF Max

\* The first of the names that are still to be closed.
LEMMA MinOfBounded ==
    ASSUME NEW n \in Nat, NEW S, S \subseteq 0 .. n, S # {}
    PROVE  Min(S) \in S
<1> DEFINE T == {n - x : x \in S}
<1>1. T \subseteq 0 .. n /\ T # {}
  OBVIOUS
<1>2. IsFiniteSet(T)
  BY <1>1, FS_BoundedSetOfNaturals
<1>3. Max(T) \in T /\ \A y \in T : Max(T) >= y
  <2>1. T \subseteq Nat
    OBVIOUS
  <2> HIDE DEF T
  <2> QED BY <2>1, <1>1, <1>2, MaxOfFinite
<1>4. PICK x \in S : n - x = Max(T)
  BY <1>3
<1>5. ASSUME NEW y \in S PROVE x <= y
  <2>1. n - x >= n - y
    BY <1>3, <1>4
  <2>2. x \in Nat /\ y \in Nat
    OBVIOUS
  <2> QED BY <2>1, <2>2
<1> QED BY <1>5 DEF Min

\* The locals of Plug, with other names sent.
LEMMA LocalsUpdate ==
    ASSUME TypeOK, NEW u \in Users, NEW names
    PROVE  [local[u] EXCEPT !.sent = names]
             = [port |-> local[u].port, queues |-> local[u].queues, sent |-> names]
<1>1. local[u] \in [port : Ports \cup {NoPort}, queues : 0 .. MaxCpus, sent : SUBSET Queues]
  BY DEF TypeOK
<1> QED BY <1>1

\* A count of the numbers below i.
LEMMA CountBelow ==
    ASSUME NEW i \in Nat
    PROVE  Cardinality(0 .. i - 1) = i
BY FS_Interval

------------------------------------------------------------------------------
(* The steps, with the numbers and the port they choose.                   *)

LEMMA AttachFacts ==
    ASSUME TypeOK, NEW u \in Users, NEW a \in Adapters, AttachNetworkAdapter(u, a)
    PROVE  \E p \in Ports \ Used :
              Begin(u, "attach", a, "tap", [port |-> p, queues |-> cpus, sent |-> {}],
                    a \in netdev \/ device[a] # "none")
<1>1. IsFiniteSet(Ports \ Used) /\ Ports \ Used # {}
  BY NicsAssumption, FS_Difference DEF AttachNetworkAdapter
<1>2. EmptyBridge \in Ports \ Used
  BY <1>1, NicsAssumption, MaxOfFinite DEF EmptyBridge
<1> QED BY <1>2 DEF AttachNetworkAdapter

LEMMA SendTapFacts ==
    ASSUME TypeOK, CallInv, NEW u \in Users, SendTap(u)
    PROVE  \E i \in 0 .. local[u].queues - 1 :
              /\ local[u].sent = 0 .. i - 1
              /\ fds' = fds \cup {Fd(adapter[u], "tap", i)}
              /\ \/ Goto(u, "vhost", [port |-> local[u].port, queues |-> local[u].queues,
                                      sent |-> 0 .. i])
                 \/ Fault(u)
<1>1. PICK i \in 0 .. local[u].queues - 1 : local[u].sent = 0 .. i - 1
  BY DEF SendTap, CallInv, SentOf, Attaching
<1>2. Cardinality(local[u].sent) = i /\ i \in Nat
  BY <1>1, CountBelow
<1>3. [local[u] EXCEPT !.sent = @ \cup {i}]
        = [port |-> local[u].port, queues |-> local[u].queues, sent |-> 0 .. i]
  <2>1. local[u].sent \cup {i} = 0 .. i
    BY <1>1, <1>2
  <2> QED BY <2>1, LocalsUpdate
<1> QED BY <1>1, <1>2, <1>3 DEF SendTap, Then

LEMMA SendVhostFacts ==
    ASSUME TypeOK, CallInv, NEW u \in Users, SendVhost(u)
    PROVE  \E i \in 0 .. local[u].queues - 1 :
              /\ local[u].sent = 0 .. i
              /\ fds' = fds \cup {Fd(adapter[u], "vhost", i)}
              /\ \/ i + 1 = local[u].queues /\ Goto(u, "netdev", local[u])
                 \/ i + 1 # local[u].queues /\ Goto(u, "tap", local[u])
                 \/ Fault(u)
<1>1. PICK i \in 0 .. local[u].queues - 1 : local[u].sent = 0 .. i
  BY DEF SendVhost, CallInv, SentOf, Attaching
<1>2. Cardinality(local[u].sent) = i + 1 /\ i \in Nat
  BY <1>1, CountBelow, i + 1 \in Nat, i + 1 - 1 = i
<1> QED BY <1>1, <1>2 DEF SendVhost, Then

LEMMA CloseFdFacts ==
    ASSUME TypeOK, CallInv, NEW u \in Users, CloseFd(u)
    PROVE  \E i \in local[u].sent :
              /\ fds' = fds \ {Fd(adapter[u], "tap", i)}
              /\ \/ local[u].sent \ {i} = {} /\ Return(u, "none")
                 \/ /\ local[u].sent \ {i} # {}
                    /\ Goto(u, "close", [port |-> local[u].port, queues |-> local[u].queues,
                                         sent |-> local[u].sent \ {i}])
<1>1. local[u].sent # {} /\ local[u].sent \subseteq 0 .. MaxCpus
  BY NicsAssumption DEF CloseFd, CallInv, SentOf, Attaching, TypeOK, Queues
<1>2. Min(local[u].sent) \in local[u].sent
  BY <1>1, NicsAssumption, MinOfBounded
<1>3. \A i : [local[u] EXCEPT !.sent = @ \ {i}]
        = [port |-> local[u].port, queues |-> local[u].queues,
           sent |-> local[u].sent \ {i}]
  BY LocalsUpdate
<1> QED BY <1>2, <1>3 DEF CloseFd

------------------------------------------------------------------------------
(* What a step does to the callers.                                        *)

OthersStay(u) ==
    \A w \in Users \ {u} : /\ pc'[w] = pc[w] /\ op'[w] = op[w]
                           /\ adapter'[w] = adapter[w] /\ local'[w] = local[w]

Becomes(u, l, o, a, locals) ==
    /\ pc'[u] = l /\ op'[u] = o /\ adapter'[u] = a /\ local'[u] = locals
    /\ OthersStay(u)

\* The call goes on, ends, or has to close the fds it sent.
GoesOn(u, l, locals) ==
    /\ Becomes(u, l, op[u], adapter[u], locals)
    /\ UNCHANGED <<clean, excused, faults, last>>

Ends(u) ==
    /\ Becomes(u, "idle", "none", NoAdapter, NoLocals)
    /\ clean' = clean \ {u} /\ excused' = excused \ {u}

Breaks(u) ==
    /\ \/ (local[u].sent = {} \/ pc[u] = "close")
          /\ Becomes(u, "idle", "none", NoAdapter, NoLocals)
       \/ /\ local[u].sent # {} /\ pc[u] # "close"
          /\ Becomes(u, "close", op[u], adapter[u], local[u])
    /\ clean' = clean \ {u} /\ excused' = excused \ {u}
    /\ UNCHANGED last

LEMMA GotoFacts ==
    ASSUME TypeOK, NEW u \in Users, NEW l, NEW locals, Goto(u, l, locals)
    PROVE  GoesOn(u, l, locals)
BY DEF TypeOK, Goto, GoesOn, Becomes, OthersStay, callVars

LEMMA OverFacts ==
    ASSUME TypeOK, NEW u \in Users, Over(u)
    PROVE  Ends(u)
BY DEF TypeOK, Over, Ends, Becomes, OthersStay

LEMMA ReturnFacts ==
    ASSUME TypeOK, NEW u \in Users, CallOf(u), Running(u), NEW how, Return(u, how)
    PROVE  /\ Ends(u) /\ faults' = faults
           /\ last'[adapter[u]] = IF u \in clean THEN how ELSE "none"
           /\ \A b \in Adapters \ {adapter[u]} : last'[b] = last[b]
<1>1. Ends(u)
  BY OverFacts DEF Return
<1> QED BY <1>1 DEF TypeOK, CallOf, Return

LEMMA BreakFacts ==
    ASSUME TypeOK, NEW u \in Users, Break(u)
    PROVE  Breaks(u)
<1>1. CASE local[u].sent = {} \/ pc[u] = "close"
  <2>1. Ends(u)
    BY <1>1, OverFacts DEF Break
  <2> QED BY <1>1, <2>1 DEF Break, Breaks, Ends
<1>2. CASE ~(local[u].sent = {} \/ pc[u] = "close")
  BY <1>2 DEF TypeOK, Break, Breaks, Becomes, OthersStay, callVars
<1> QED BY <1>1, <1>2

\* A fault is counted.
LEMMA FaultFacts ==
    ASSUME TypeOK, NEW u \in Users, Fault(u)
    PROVE  Breaks(u) /\ faults' # 0
BY BreakFacts DEF TypeOK, Fault

------------------------------------------------------------------------------
(* The calls.                                                              *)

\* What is known of a call does not depend on the steps of other callers.
LEMMA OtherCalls ==
    ASSUME TypeOK, CallInv, NEW u \in Users, NEW w \in Users \ {u}, OthersStay(u),
           cpus' \in Nat, cpus <= cpus',
           Running(w) => last'[adapter[w]] = last[adapter[w]] \/ last'[adapter[w]] = "none",
           w \in clean' => w \in clean
    PROVE  CallOf(w)' /\ SentOf(w)'
<1>1. CallOf(w) /\ SentOf(w)
  BY DEF CallInv
<1>2. pc'[w] = pc[w] /\ op'[w] = op[w] /\ adapter'[w] = adapter[w] /\ local'[w] = local[w]
  BY DEF OthersStay
<1>3. CallOf(w)'
  BY <1>1, <1>2 DEF CallOf, Running, Attaching
<1>4. cpus \in Nat /\ 1 .. cpus \subseteq 1 .. cpus'
  BY DEF TypeOK
<1>5. SentOf(w)'
  BY <1>1, <1>2, <1>4 DEF SentOf, Attaching
<1> QED BY <1>3, <1>5

LEMMA GoesOnKeepsCalls ==
    ASSUME TypeOK, CallInv, NEW u \in Users, NEW l, NEW locals, GoesOn(u, l, locals),
           UNCHANGED cpus, Running(u), SentOf(u)',
           \/ Attaching(u) /\ l \in {"tap", "vhost", "netdev", "device", "close"}
           \/ ~Attaching(u) /\ l = "del_netdev" /\ locals = local[u]
    PROVE  CallInv'
<1>1. ASSUME NEW w \in Users \ {u} PROVE CallOf(w)' /\ SentOf(w)'
  BY OtherCalls DEF GoesOn, Becomes, TypeOK
<1>2. CallOf(u)'
  BY DEF CallInv, CallOf, GoesOn, Becomes, Running, Attaching
<1>3. ASSUME NEW v \in clean', NEW w \in Users \ {v} PROVE Apart(v, w)'
  BY <1>3 DEF CallInv, Apart, TypeOK, GoesOn, Becomes, OthersStay, Running, Attaching
<1> QED BY <1>1, <1>2, <1>3 DEF CallInv

LEMMA EndsKeepsCalls ==
    ASSUME TypeOK, CallInv, NEW u \in Users, Ends(u), UNCHANGED cpus, Running(u),
           \/ UNCHANGED last
           \/ /\ u \in clean \/ last'[adapter[u]] = "none"
              /\ \A b \in Adapters \ {adapter[u]} : last'[b] = last[b]
    PROVE  CallInv'
<1>1. ASSUME NEW w \in Users \ {u} PROVE CallOf(w)' /\ SentOf(w)'
  <2>1. Running(w) => adapter[w] \in Adapters
    BY DEF CallInv, CallOf
  <2>2. u \in clean /\ Running(w) => adapter[w] # adapter[u]
    BY DEF CallInv, Apart
  <2>3. Running(w) => last'[adapter[w]] = last[adapter[w]] \/ last'[adapter[w]] = "none"
    BY <2>1, <2>2
  <2> QED BY <2>3, OtherCalls DEF Ends, Becomes, TypeOK
<1>2. CallOf(u)' /\ SentOf(u)'
  BY DEF CallOf, SentOf, Ends, Becomes, Running, Attaching
<1>3. ASSUME NEW v \in clean', NEW w \in Users \ {v} PROVE Apart(v, w)'
  BY <1>3 DEF CallInv, Apart, TypeOK, Ends, Becomes, OthersStay, Running, Attaching
<1> QED BY <1>1, <1>2, <1>3 DEF CallInv

LEMMA BreaksKeepsCalls ==
    ASSUME TypeOK, CallInv, NEW u \in Users, Breaks(u), UNCHANGED cpus, Running(u)
    PROVE  CallInv'
<1>1. CASE Becomes(u, "idle", "none", NoAdapter, NoLocals)
  BY <1>1, EndsKeepsCalls DEF Breaks, Ends
<1>2. CASE local[u].sent # {} /\ Becomes(u, "close", op[u], adapter[u], local[u])
  <2>1. ASSUME NEW w \in Users \ {u} PROVE CallOf(w)' /\ SentOf(w)'
    BY <1>2, OtherCalls DEF Breaks, Becomes, TypeOK
  <2>2. Attaching(u)
    BY <1>2 DEF CallInv, CallOf, NoLocals
  <2>3. CallOf(u)' /\ SentOf(u)'
    BY <1>2, <2>2 DEF CallInv, CallOf, SentOf, Breaks, Becomes, Running, Attaching
  <2>4. ASSUME NEW v \in clean', NEW w \in Users \ {v} PROVE Apart(v, w)'
    BY <1>2, <2>2, <2>4
       DEF CallInv, Apart, TypeOK, Breaks, Becomes, OthersStay, Running, Attaching
  <2> QED BY <2>1, <2>3, <2>4 DEF CallInv
<1> QED BY <1>1, <1>2 DEF Breaks

------------------------------------------------------------------------------
(* QEMU and the reports.                                                   *)

\* Of QEMU, only what belongs to the caller's adapter changes.
OnlyOwn(u) ==
    /\ \A b \in Adapters \ {adapter[u]} :
          (b \in netdev' <=> b \in netdev) /\ device'[b] = device[b]
    /\ \A f \in (fds \ fds') \cup (fds' \ fds) : f.adapter = adapter[u]
    /\ UNCHANGED cpus
    /\ Used' \subseteq Used \/ Attaching(u)

SuccessOf(b) ==
    /\ last[b] = "attached" => b \in netdev /\ device[b] = "attached"
    /\ last[b] = "detached" => b \notin netdev /\ device[b] # "attached"

LEMMA FdType ==
    ASSUME TypeOK, NEW f \in fds
    PROVE  f.adapter \in Adapters /\ f.queue \in Nat
BY NicsAssumption DEF TypeOK, Queues

\* A clean call is not disturbed by what others do to their adapters.
LEMMA OtherProgress ==
    ASSUME TypeOK, TypeOK', CallInv, ProgressInv, NEW u \in Users, NEW w \in clean \ {u},
           Running(u), OthersStay(u), OnlyOwn(u), w \in excused => w \in excused'
    PROVE  ProgressOf(w)'
<1>1. ProgressOf(w) /\ Apart(w, u) /\ CallOf(w) /\ w \in Users
  BY DEF ProgressInv, CallInv, TypeOK
<1>2. pc'[w] = pc[w] /\ op'[w] = op[w] /\ adapter'[w] = adapter[w] /\ local'[w] = local[w]
  BY <1>1 DEF OthersStay
<1> DEFINE a == adapter[w]
<1>3. a \in Adapters /\ a # adapter[u] /\ Running(w)
  BY <1>1 DEF CallOf, Apart
<1>4. (a \in netdev' <=> a \in netdev) /\ device'[a] = device[a]
  BY <1>3 DEF OnlyOwn
<1>5. \A f : f.adapter = a => (f \in fds' <=> f \in fds)
  BY <1>3 DEF OnlyOwn
<1>6. ASSUME Attaching(w) PROVE AttachProgress(w)'
  <2>1. AttachProgress(w) /\ Used' \subseteq Used
    BY <1>1, <1>6 DEF ProgressOf, Apart, OnlyOwn
  <2>2. \A kind, i : Fd(a, kind, i).adapter = a
    BY DEF Fd
  <2>3. \A i : (Fd(a, "tap", i) \in fds' <=> Fd(a, "tap", i) \in fds)
               /\ (Fd(a, "vhost", i) \in fds' <=> Fd(a, "vhost", i) \in fds)
    BY <1>5, <2>2
  <2>4. /\ local'[w].port \notin Used'
        /\ \A f \in fds' : f.adapter = a => f.queue < local'[w].queues
    BY <1>2, <1>5, <2>1 DEF AttachProgress
  <2>5. pc[w] \in {"tap", "vhost", "netdev"} =>
          /\ w \in excused' \/ (a \notin netdev' /\ device'[a] = "none")
          /\ \A i \in local[w].sent :
                /\ Fd(a, "tap", i) \in fds'
                /\ pc[w] # "vhost" \/ i + 1 \in local[w].sent => Fd(a, "vhost", i) \in fds'
    BY <1>4, <2>1, <2>3 DEF AttachProgress
  <2>6. pc[w] = "device" =>
          /\ a \in netdev'
          /\ \A f \in fds' : f.adapter # a
          /\ w \in excused' \/ device'[a] = "none"
    BY <1>4, <1>5, <2>1 DEF AttachProgress
  <2> QED BY <1>2, <2>1, <2>4, <2>5, <2>6 DEF AttachProgress
<1> QED BY <1>1, <1>2, <1>4, <1>6 DEF ProgressOf, Attaching

\* A step of one caller keeps the invariant if it does so as far as this caller
\* and its adapter are concerned.
LEMMA StepKeeps ==
    ASSUME TypeOK, TypeOK', CallInv, FdInv, ProgressInv, SuccessIsLasting,
           NEW u \in Users, Running(u), OthersStay(u), OnlyOwn(u),
           NEW a \in Adapters, a = adapter[u],
           clean' \subseteq clean, excused \ {u} \subseteq excused',
           \A b \in Adapters \ {a} : last'[b] = last[b],
           u \in clean' => ProgressOf(u)',
           SuccessOf(a)',
           \A f \in fds' : f.adapter = a => f.queue < cpus /\ last'[a] # "attached",
           faults' = 0 => faults = 0,
           faults' = 0 => \A f \in fds' : f.kind = "tap" =>
              (f \in fds /\ ~Owns(u, f)) \/ Owns(u, f)'
    PROVE  FdInv' /\ ProgressInv' /\ SuccessIsLasting'
<1>1. ProgressInv'
  BY OtherProgress DEF ProgressInv
<1>2. SuccessIsLasting'
  <2>1. ASSUME NEW b \in Adapters PROVE SuccessOf(b)'
    <3>1. CASE b = a
      BY <3>1 DEF SuccessOf
    <3>2. CASE b # a
      BY <3>2 DEF SuccessIsLasting, SuccessOf, OnlyOwn
    <3> QED BY <3>1, <3>2
  <2> QED BY <2>1 DEF SuccessOf, SuccessIsLasting
<1>3. ASSUME NEW f \in fds' PROVE f.queue < cpus' /\ last'[f.adapter] # "attached"
  <2>1. CASE f.adapter = a
    BY <1>3, <2>1 DEF OnlyOwn
  <2>2. CASE f.adapter # a
    <3>1. f \in fds
      BY <2>2 DEF OnlyOwn
    <3>2. f.adapter \in Adapters
      BY <3>1, FdType
    <3> QED BY <2>2, <3>1, <3>2 DEF OnlyOwn, FdInv
  <2> QED BY <2>1, <2>2
<1>4. ASSUME faults' = 0, NEW f \in fds', f.kind = "tap" PROVE \E w \in Users : Owns(w, f)'
  <2>1. CASE Owns(u, f)'
    BY <2>1
  <2>2. CASE f \in fds /\ ~Owns(u, f)
    <3>1. PICK w \in Users : Owns(w, f)
      BY <1>4, <2>2 DEF FdInv
    <3>2. w # u
      BY <2>2, <3>1
    <3> QED BY <3>1, <3>2 DEF Owns, OthersStay
  <2> QED BY <1>4, <2>1, <2>2
<1> QED BY <1>1, <1>2, <1>3, <1>4 DEF FdInv

CoreInv == CallInv /\ FdInv /\ ProgressInv /\ SuccessIsLasting

\* A caller whose call is under way, and its adapter.
LEMMA RunningFacts ==
    ASSUME TypeOK, CoreInv, NEW u \in Users, Running(u)
    PROVE  /\ adapter[u] \in Adapters /\ last[adapter[u]] = "none"
           /\ CallOf(u) /\ SentOf(u) /\ (u \in clean => ProgressOf(u))
           /\ \A f \in fds : f.queue < cpus
BY DEF CoreInv, CallInv, CallOf, ProgressInv, FdInv

\* A call that breaks owes nothing any more but the fds it is about to close.
LEMMA BreakKeeps ==
    ASSUME TypeOK, TypeOK', CoreInv, NEW u \in Users, Running(u), Breaks(u), OnlyOwn(u),
           \A f \in fds' : f.adapter = adapter[u] => f.queue < cpus,
           faults' # 0 \/ (UNCHANGED <<fds, faults>> /\ pc[u] \in {"tap", "vhost"})
    PROVE  CoreInv'
<1>1. CallInv'
  BY BreaksKeepsCalls DEF CoreInv, OnlyOwn
<1>2. PICK a \in Adapters : a = adapter[u] /\ last[a] = "none"
  BY RunningFacts
<1>3. /\ OthersStay(u) /\ clean' \subseteq clean /\ u \notin clean'
      /\ excused \ {u} \subseteq excused' /\ UNCHANGED last
  BY DEF Breaks, Becomes
<1>4. SuccessOf(a)'
  BY <1>2, <1>3 DEF SuccessOf
<1>5. ASSUME faults' = 0, NEW f \in fds', ~Owns(u, f)'
      PROVE  f \in fds /\ ~Owns(u, f)
  BY <1>5 DEF Breaks, Becomes, Owns
<1>6. faults' = 0 => faults = 0
  OBVIOUS
<1> QED BY <1>1, <1>2, <1>3, <1>4, <1>5, <1>6, StepKeeps DEF CoreInv

LEMMA FaultKeeps ==
    ASSUME TypeOK, TypeOK', CoreInv, NEW u \in Users, Running(u), Fault(u), OnlyOwn(u),
           \A f \in fds' : f.adapter = adapter[u] => f.queue < cpus
    PROVE  CoreInv'
BY FaultFacts, BreakKeeps

------------------------------------------------------------------------------
(* AttachNetworkAdapter, command by command.                               *)

LEMMA SendTapKeeps ==
    ASSUME TypeOK, TypeOK', CoreInv, NEW u \in Users, SendTap(u)
    PROVE  CoreInv'
<1>1. pc[u] = "tap" /\ Running(u) /\ Attaching(u) /\ UNCHANGED <<netdev, device, port, cpus>>
  BY DEF SendTap, Running, Attaching
<1>2. PICK i \in 0 .. local[u].queues - 1 :
         /\ local[u].sent = 0 .. i - 1
         /\ fds' = fds \cup {Fd(adapter[u], "tap", i)}
         /\ \/ Goto(u, "vhost", [port |-> local[u].port, queues |-> local[u].queues,
                                 sent |-> 0 .. i])
            \/ Fault(u)
  BY SendTapFacts DEF CoreInv
<1> DEFINE a == adapter[u]
           q == local[u].queues
<1>3. /\ a \in Adapters /\ last[a] = "none"
      /\ CallOf(u) /\ SentOf(u) /\ (u \in clean => ProgressOf(u))
      /\ \A f \in fds : f.queue < cpus
  BY <1>1, RunningFacts
<1>4. q \in 1 .. cpus /\ q \in Nat /\ i \in Nat /\ i < q /\ local[u].port \in Ports /\ cpus \in Nat
  BY <1>1, <1>2, <1>3 DEF SentOf, TypeOK
<1>5. OnlyOwn(u)
  BY <1>1, <1>2 DEF OnlyOwn, Used, Fd
<1>6. \A f \in fds' : f.queue < cpus
  BY <1>2, <1>3, <1>4 DEF Fd
<1>7. CASE Fault(u)
  BY <1>1, <1>5, <1>6, <1>7, FaultKeeps
<1>8. CASE Goto(u, "vhost", [port |-> local[u].port, queues |-> q, sent |-> 0 .. i])
  <2>1. /\ GoesOn(u, "vhost", [port |-> local[u].port, queues |-> q, sent |-> 0 .. i])
        /\ OthersStay(u)
    BY <1>8, GotoFacts DEF GoesOn, Becomes
  <2>2. /\ pc'[u] = "vhost" /\ op'[u] = op[u] /\ adapter'[u] = a
        /\ local'[u].port = local[u].port /\ local'[u].queues = q /\ local'[u].sent = 0 .. i
        /\ UNCHANGED <<clean, excused, faults, last>>
    BY <2>1 DEF GoesOn, Becomes
  <2>3. SentOf(u)'
    BY <1>1, <1>4, <2>2 DEF SentOf
  <2>4. CallInv'
    BY <1>1, <2>1, <2>3, GoesOnKeepsCalls DEF CoreInv
  <2>5. ASSUME u \in clean' PROVE ProgressOf(u)'
    <3>1. AttachProgress(u)
      BY <1>1, <1>3, <2>2, <2>5 DEF ProgressOf
    <3>2. local'[u].port \notin Used'
      BY <1>1, <2>2, <3>1 DEF AttachProgress, Used
    <3>3. \A f \in fds' : f.adapter = a => f.queue < q
      BY <1>2, <1>4, <3>1 DEF AttachProgress, Fd
    <3>4. \A j \in 0 .. i : /\ Fd(a, "tap", j) \in fds'
                            /\ j + 1 \in 0 .. i => Fd(a, "vhost", j) \in fds'
      <4>1. \A j \in 0 .. i - 1 : Fd(a, "tap", j) \in fds /\ Fd(a, "vhost", j) \in fds
        BY <1>1, <1>2, <3>1 DEF AttachProgress
      <4> QED BY <1>2, <1>4, <4>1
    <3>5. u \in excused \/ (a \notin netdev /\ device[a] = "none")
      BY <1>1, <3>1 DEF AttachProgress
    <3>6. AttachProgress(u)'
      BY <1>1, <2>2, <3>2, <3>3, <3>4, <3>5 DEF AttachProgress
    <3> QED BY <2>2, <3>6 DEF ProgressOf
  <2>6. SuccessOf(a)'
    BY <1>3, <2>2 DEF SuccessOf
  <2>7. ASSUME NEW f \in fds', f.kind = "tap" PROVE (f \in fds /\ ~Owns(u, f)) \/ Owns(u, f)'
    BY <1>1, <1>2, <1>4, <2>2, <2>7 DEF Owns, Fd
  <2> QED
    BY <1>1, <1>3, <1>5, <1>6, <2>1, <2>2, <2>4, <2>5, <2>6, <2>7, StepKeeps DEF CoreInv
<1> QED BY <1>2, <1>7, <1>8

LEMMA SendVhostKeeps ==
    ASSUME TypeOK, TypeOK', CoreInv, NEW u \in Users, SendVhost(u)
    PROVE  CoreInv'
<1>1. pc[u] = "vhost" /\ Running(u) /\ Attaching(u) /\ UNCHANGED <<netdev, device, port, cpus>>
  BY DEF SendVhost, Running, Attaching
<1>2. PICK i \in 0 .. local[u].queues - 1 :
         /\ local[u].sent = 0 .. i
         /\ fds' = fds \cup {Fd(adapter[u], "vhost", i)}
         /\ \/ i + 1 = local[u].queues /\ Goto(u, "netdev", local[u])
            \/ i + 1 # local[u].queues /\ Goto(u, "tap", local[u])
            \/ Fault(u)
  BY SendVhostFacts DEF CoreInv
<1> DEFINE a == adapter[u]
           q == local[u].queues
<1>3. /\ a \in Adapters /\ last[a] = "none"
      /\ CallOf(u) /\ SentOf(u) /\ (u \in clean => ProgressOf(u))
      /\ \A f \in fds : f.queue < cpus
  BY <1>1, RunningFacts
<1>4. q \in 1 .. cpus /\ q \in Nat /\ i \in Nat /\ i < q /\ local[u].port \in Ports /\ cpus \in Nat
  BY <1>1, <1>2, <1>3 DEF SentOf, TypeOK
<1>5. OnlyOwn(u)
  BY <1>1, <1>2 DEF OnlyOwn, Used, Fd
<1>6. \A f \in fds' : f.queue < cpus
  BY <1>2, <1>3, <1>4 DEF Fd
<1>7. CASE Fault(u)
  BY <1>1, <1>5, <1>6, <1>7, FaultKeeps
<1>8. ASSUME NEW l \in {"tap", "netdev"}, Goto(u, l, local[u]),
             l = "netdev" <=> i + 1 = q
      PROVE  CoreInv'
  <2>1. GoesOn(u, l, local[u]) /\ OthersStay(u)
    BY <1>8, GotoFacts DEF GoesOn, Becomes
  <2>2. /\ pc'[u] = l /\ op'[u] = op[u] /\ adapter'[u] = a /\ local'[u] = local[u]
        /\ UNCHANGED <<clean, excused, faults, last>>
    BY <2>1 DEF GoesOn, Becomes
  <2>3. SentOf(u)'
    <3>1. CASE l = "netdev"
      <4>1. local[u].sent = 0 .. q - 1
        BY <1>2, <1>4, <1>8, <3>1
      <4> QED BY <1>1, <1>4, <2>2, <3>1, <4>1 DEF SentOf
    <3>2. CASE l = "tap"
      <4>1. i + 1 \in 0 .. q - 1 /\ local[u].sent = 0 .. (i + 1) - 1
        BY <1>2, <1>4, <1>8, <3>2
      <4> QED BY <1>1, <1>4, <2>2, <3>2, <4>1 DEF SentOf
    <3> QED BY <3>1, <3>2
  <2>4. CallInv'
    BY <1>1, <2>1, <2>3, GoesOnKeepsCalls DEF CoreInv
  <2>5. ASSUME u \in clean' PROVE ProgressOf(u)'
    <3>1. AttachProgress(u)
      BY <1>1, <1>3, <2>2, <2>5 DEF ProgressOf
    <3>2. local'[u].port \notin Used'
      BY <1>1, <2>2, <3>1 DEF AttachProgress, Used
    <3>3. \A f \in fds' : f.adapter = a => f.queue < q
      BY <1>2, <1>4, <3>1 DEF AttachProgress, Fd
    <3>4. \A j \in 0 .. i : Fd(a, "tap", j) \in fds' /\ Fd(a, "vhost", j) \in fds'
      <4>1. \A j \in 0 .. i : /\ Fd(a, "tap", j) \in fds
                              /\ j + 1 \in 0 .. i => Fd(a, "vhost", j) \in fds
        BY <1>1, <1>2, <3>1 DEF AttachProgress
      <4>2. \A j \in 0 .. i : j = i \/ j + 1 \in 0 .. i
        BY <1>4
      <4> QED BY <1>2, <4>1, <4>2
    <3>5. u \in excused \/ (a \notin netdev /\ device[a] = "none")
      BY <1>1, <3>1 DEF AttachProgress
    <3>6. AttachProgress(u)'
      BY <1>1, <1>2, <2>2, <3>2, <3>3, <3>4, <3>5 DEF AttachProgress
    <3> QED BY <2>2, <3>6 DEF ProgressOf
  <2>6. SuccessOf(a)'
    BY <1>3, <2>2 DEF SuccessOf
  <2>7. ASSUME NEW f \in fds', f.kind = "tap" PROVE (f \in fds /\ ~Owns(u, f)) \/ Owns(u, f)'
    <3>1. f \in fds
      BY <1>2, <2>7 DEF Fd
    <3> QED BY <1>1, <2>2, <3>1 DEF Owns
  <2> QED
    BY <1>1, <1>3, <1>5, <1>6, <2>1, <2>2, <2>4, <2>5, <2>6, <2>7, StepKeeps DEF CoreInv
<1> QED BY <1>2, <1>7, <1>8

\* A netdev takes all the fds it is given; what was there of the adapter before
\* was sent again.  QEMU refuses one only if there is one already, or one of the
\* fds is not there.
LEMMA AddNetworkDeviceKeeps ==
    ASSUME TypeOK, TypeOK', CoreInv, NEW u \in Users, AddNetworkDevice(u)
    PROVE  CoreInv'
<1>1. pc[u] = "netdev" /\ Running(u) /\ Attaching(u) /\ UNCHANGED <<device, port, cpus>>
  BY DEF AddNetworkDevice, Running, Attaching
<1> DEFINE a == adapter[u]
           q == local[u].queues
<1>2. /\ a \in Adapters /\ last[a] = "none"
      /\ CallOf(u) /\ SentOf(u) /\ (u \in clean => ProgressOf(u))
      /\ \A f \in fds : f.queue < cpus
  BY <1>1, RunningFacts
<1>3. q \in 1 .. cpus /\ q \in Nat /\ local[u].sent = 0 .. q - 1 /\ local[u].port \in Ports
      /\ cpus \in Nat
  BY <1>1, <1>2 DEF SentOf, TypeOK
<1>4. local[u].sent # {}
  <2>1. 0 \in local[u].sent
    BY <1>3
  <2> QED BY <2>1
<1>5. fds' \subseteq fds /\ \A f \in fds \ fds' : f.adapter = a
  BY DEF AddNetworkDevice, Named, Fd
<1>6. netdev' = netdev \/ netdev' = netdev \cup {a}
  BY DEF AddNetworkDevice
<1>7. OnlyOwn(u)
  BY <1>1, <1>5, <1>6 DEF OnlyOwn, Used
<1>8. \A f \in fds' : f.queue < cpus
  BY <1>2, <1>5
<1>9. u \in clean => AttachProgress(u)
  BY <1>1, <1>2 DEF ProgressOf
<1>10. CASE Fault(u)
  BY <1>1, <1>7, <1>8, <1>10, FaultKeeps
<1>11. ASSUME NEW l \in {"device", "close"}, Goto(u, l, local[u]),
              l = "device" =>
                 fds' = fds \ Named(u) /\ netdev' = netdev \cup {a} /\ a \notin netdev,
              l = "close" => netdev' = netdev /\ (a \in netdev \/ ~(Named(u) \subseteq fds))
       PROVE  CoreInv'
  <2>1. GoesOn(u, l, local[u]) /\ OthersStay(u)
    BY <1>11, GotoFacts DEF GoesOn, Becomes
  <2>2. /\ pc'[u] = l /\ op'[u] = op[u] /\ adapter'[u] = a /\ local'[u] = local[u]
        /\ UNCHANGED <<clean, excused, faults, last>>
    BY <2>1 DEF GoesOn, Becomes
  <2>3. SentOf(u)'
    BY <1>1, <1>3, <1>4, <2>2 DEF SentOf
  <2>4. CallInv'
    BY <1>1, <2>1, <2>3, GoesOnKeepsCalls DEF CoreInv
  <2>5. ASSUME u \in clean' PROVE ProgressOf(u)'
    <3>1. AttachProgress(u)
      BY <1>9, <2>2, <2>5
    <3>2. local'[u].port \notin Used'
      BY <1>1, <2>2, <3>1 DEF AttachProgress, Used
    <3>3. \A f \in fds' : f.adapter = a => f.queue < q
      BY <1>5, <3>1 DEF AttachProgress
    <3>4. ASSUME l = "device" PROVE AttachProgress(u)'
      <4>1. \A f \in fds' : f.adapter # a
        <5> SUFFICES ASSUME NEW f \in fds', f.adapter = a PROVE FALSE
          OBVIOUS
        <5>1. f \in [adapter : Adapters, kind : {"tap", "vhost"}, queue : Queues]
          BY <1>5 DEF TypeOK
        <5>2. f.kind \in {"tap", "vhost"} /\ f.queue \in 0 .. q - 1
          BY <1>3, <3>3, <5>1, NicsAssumption DEF Queues
        <5>3. f = Fd(a, f.kind, f.queue)
          BY <5>1 DEF Fd
        <5>4. f \in Named(u)
          BY <1>3, <5>2, <5>3 DEF Named
        <5> QED BY <1>11, <3>4, <5>4
      <4>2. u \in excused \/ device[a] = "none"
        BY <1>1, <3>1 DEF AttachProgress
      <4> QED BY <1>1, <1>11, <2>2, <3>2, <3>3, <3>4, <4>1, <4>2 DEF AttachProgress
    <3>5. ASSUME l = "close" PROVE AttachProgress(u)'
      <4>1. Named(u) \subseteq fds
        BY <1>1, <3>1 DEF AttachProgress, Named
      <4>2. u \in excused
        BY <1>1, <1>11, <3>1, <3>5, <4>1 DEF AttachProgress
      <4> QED BY <2>2, <3>2, <3>3, <3>5, <4>2 DEF AttachProgress
    <3> QED BY <2>2, <3>4, <3>5 DEF ProgressOf
  <2>6. SuccessOf(a)'
    BY <1>2, <2>2 DEF SuccessOf
  <2>7. ASSUME NEW f \in fds', f.kind = "tap" PROVE (f \in fds /\ ~Owns(u, f)) \/ Owns(u, f)'
    <3>1. CASE l = "device"
      <4>1. ~Owns(u, f)
        <5> SUFFICES ASSUME f.adapter = a, f.queue \in local[u].sent PROVE FALSE
          BY DEF Owns
        <5>1. f \in [adapter : Adapters, kind : {"tap", "vhost"}, queue : Queues]
          BY <1>5 DEF TypeOK
        <5>2. f = Fd(a, "tap", f.queue)
          BY <2>7, <5>1 DEF Fd
        <5>3. f \in Named(u)
          BY <5>2 DEF Named
        <5> QED BY <1>11, <3>1, <5>3
      <4> QED BY <1>5, <4>1
    <3>2. CASE l = "close"
      BY <1>1, <1>5, <2>2, <3>2 DEF Owns
    <3> QED BY <3>1, <3>2
  <2> QED
    BY <1>1, <1>2, <1>7, <1>8, <2>1, <2>2, <2>4, <2>5, <2>6, <2>7, StepKeeps DEF CoreInv
<1>12. Fail(u) => Goto(u, "close", local[u])
  BY <1>4 DEF Fail
<1> QED BY <1>10, <1>11, <1>12 DEF AddNetworkDevice, Then

\* The root port of a clean Attach is still empty: its device is refused only
\* if the adapter had one.
LEMMA AddDeviceKeeps ==
    ASSUME TypeOK, TypeOK', CoreInv, NEW u \in Users, AddDevice(u)
    PROVE  CoreInv'
<1>1. pc[u] = "device" /\ Running(u) /\ Attaching(u) /\ UNCHANGED <<netdev, fds, cpus>>
  BY DEF AddDevice, Running, Attaching
<1> DEFINE a == adapter[u]
<1>2. /\ a \in Adapters /\ last[a] = "none"
      /\ CallOf(u) /\ SentOf(u) /\ (u \in clean => ProgressOf(u))
      /\ \A f \in fds : f.queue < cpus
  BY <1>1, RunningFacts
<1>3. local[u].port \in Ports /\ local[u].queues \in 1 .. cpus /\ cpus \in Nat
      /\ local[u].sent = 0 .. local[u].queues - 1
  BY <1>1, <1>2 DEF SentOf, TypeOK
<1>4. 0 \in local[u].sent
  BY <1>3
<1>5. u \in clean => AttachProgress(u)
  BY <1>1, <1>2 DEF ProgressOf
<1>6. OnlyOwn(u)
  BY <1>1 DEF OnlyOwn, AddDevice, TypeOK
<1>7. \A f \in fds : ~Owns(u, f)
  BY <1>1 DEF Owns
<1>8. CASE Fault(u)
  BY <1>1, <1>2, <1>6, <1>8, FaultKeeps
<1>9. CASE /\ a \in netdev
           /\ device' = [device EXCEPT ![a] = "attached"]
           /\ Return(u, "attached")
  <2>1. /\ Ends(u) /\ faults' = faults
        /\ last'[a] = IF u \in clean THEN "attached" ELSE "none"
        /\ \A b \in Adapters \ {a} : last'[b] = last[b]
    BY <1>1, <1>2, <1>9, ReturnFacts
  <2>2. OthersStay(u) /\ clean' = clean \ {u} /\ excused' = excused \ {u}
    BY <2>1 DEF Ends, Becomes
  <2>3. CallInv'
    BY <1>1, <2>1, EndsKeepsCalls DEF CoreInv
  <2> PICK c \in Adapters : c = a
    BY <1>2
  <2>4. SuccessOf(c)'
    BY <1>1, <1>2, <1>9, <2>1 DEF SuccessOf, TypeOK
  <2>5. \A f \in fds' : f.adapter = a => f.queue < cpus /\ last'[a] # "attached"
    <3>1. CASE u \in clean
      BY <1>1, <1>5, <3>1 DEF AttachProgress
    <3>2. CASE u \notin clean
      BY <1>1, <1>2, <2>1, <3>2
    <3> QED BY <3>1, <3>2
  <2> QED
    BY <1>1, <1>2, <1>6, <1>7, <2>1, <2>2, <2>3, <2>4, <2>5, StepKeeps DEF CoreInv
<1>10. CASE /\ Goto(u, "close", local[u]) /\ UNCHANGED <<device, port>>
            /\ ~(a \in netdev /\ device[a] = "none" /\ local[u].port \notin Used)
  <2>1. GoesOn(u, "close", local[u]) /\ OthersStay(u)
    BY <1>10, GotoFacts DEF GoesOn, Becomes
  <2>2. /\ pc'[u] = "close" /\ op'[u] = op[u] /\ adapter'[u] = a /\ local'[u] = local[u]
        /\ UNCHANGED <<clean, excused, faults, last>>
    BY <2>1 DEF GoesOn, Becomes
  <2>3. SentOf(u)'
    BY <1>1, <1>3, <1>4, <2>2 DEF SentOf
  <2>4. CallInv'
    BY <1>1, <2>1, <2>3, GoesOnKeepsCalls DEF CoreInv
  <2>5. ASSUME u \in clean' PROVE ProgressOf(u)'
    <3>1. AttachProgress(u)
      BY <1>5, <2>2, <2>5
    <3>2. u \in excused
      BY <1>1, <1>10, <3>1 DEF AttachProgress
    <3>3. AttachProgress(u)'
      BY <1>1, <1>10, <2>2, <3>1, <3>2 DEF AttachProgress, Used
    <3> QED BY <2>2, <3>3 DEF ProgressOf
  <2>6. SuccessOf(a)'
    BY <1>2, <2>2 DEF SuccessOf
  <2> QED
    BY <1>1, <1>2, <1>6, <1>7, <2>1, <2>2, <2>4, <2>5, <2>6, StepKeeps DEF CoreInv
<1>11. Fail(u) => Goto(u, "close", local[u])
  BY <1>4 DEF Fail
<1> QED BY <1>8, <1>9, <1>10, <1>11 DEF AddDevice, Then

LEMMA CloseFdKeeps ==
    ASSUME TypeOK, TypeOK', CoreInv, NEW u \in Users, CloseFd(u)
    PROVE  CoreInv'
<1>1. pc[u] = "close" /\ Running(u) /\ Attaching(u) /\ UNCHANGED <<netdev, device, port, cpus>>
  BY DEF CloseFd, Running, Attaching
<1> DEFINE a == adapter[u]
<1>2. /\ a \in Adapters /\ last[a] = "none"
      /\ CallOf(u) /\ SentOf(u) /\ (u \in clean => ProgressOf(u))
      /\ \A f \in fds : f.queue < cpus
  BY <1>1, RunningFacts
<1>3. PICK i \in local[u].sent :
         /\ fds' = fds \ {Fd(a, "tap", i)}
         /\ \/ local[u].sent \ {i} = {} /\ Return(u, "none")
            \/ /\ local[u].sent \ {i} # {}
               /\ Goto(u, "close", [port |-> local[u].port, queues |-> local[u].queues,
                                    sent |-> local[u].sent \ {i}])
  BY CloseFdFacts DEF CoreInv
<1>4. OnlyOwn(u)
  BY <1>1, <1>3 DEF OnlyOwn, Used, Fd
<1>5. \A f \in fds' : f.adapter = a => f.queue < cpus /\ last[a] # "attached"
  BY <1>2, <1>3
\* What this call still has to answer for are the other names.
<1>6. ASSUME NEW f \in fds', f.kind = "tap"
      PROVE  f \in fds /\ (Owns(u, f) => f.queue \in local[u].sent \ {i})
  <2>1. f \in [adapter : Adapters, kind : {"tap", "vhost"}, queue : Queues]
    BY <1>3 DEF TypeOK
  <2>2. f = Fd(f.adapter, "tap", f.queue)
    BY <1>6, <2>1 DEF Fd
  <2>3. Owns(u, f) => f.queue # i /\ f.queue \in local[u].sent
    BY <1>3, <2>2 DEF Owns
  <2> QED BY <1>3, <2>3
<1>7. CASE local[u].sent \ {i} = {} /\ Return(u, "none")
  <2>1. /\ Ends(u) /\ faults' = faults /\ last'[a] = "none"
        /\ \A b \in Adapters \ {a} : last'[b] = last[b]
    BY <1>1, <1>2, <1>7, ReturnFacts
  <2>2. OthersStay(u) /\ clean' = clean \ {u} /\ excused' = excused \ {u}
    BY <2>1 DEF Ends, Becomes
  <2>3. CallInv'
    BY <1>1, <2>1, EndsKeepsCalls DEF CoreInv
  <2> PICK c \in Adapters : c = a
    BY <1>2
  <2>4. SuccessOf(c)'
    BY <2>1 DEF SuccessOf
  <2>5. \A f \in fds' : f.kind = "tap" => f \in fds /\ ~Owns(u, f)
    BY <1>6, <1>7
  <2> QED
    BY <1>1, <1>2, <1>4, <1>5, <2>1, <2>2, <2>3, <2>4, <2>5, StepKeeps DEF CoreInv
<1>8. CASE /\ local[u].sent \ {i} # {}
           /\ Goto(u, "close", [port |-> local[u].port, queues |-> local[u].queues,
                                sent |-> local[u].sent \ {i}])
  <2>1. /\ GoesOn(u, "close", [port |-> local[u].port, queues |-> local[u].queues,
                               sent |-> local[u].sent \ {i}])
        /\ OthersStay(u)
    BY <1>8, GotoFacts DEF GoesOn, Becomes
  <2>2. /\ pc'[u] = "close" /\ op'[u] = op[u] /\ adapter'[u] = a
        /\ local'[u].port = local[u].port /\ local'[u].queues = local[u].queues
        /\ local'[u].sent = local[u].sent \ {i}
        /\ UNCHANGED <<clean, excused, faults, last>>
    BY <2>1 DEF GoesOn, Becomes
  <2>3. SentOf(u)'
    BY <1>1, <1>2, <1>8, <2>2 DEF SentOf
  <2>4. CallInv'
    BY <1>1, <2>1, <2>3, GoesOnKeepsCalls DEF CoreInv
  <2>5. ASSUME u \in clean' PROVE ProgressOf(u)'
    <3>1. AttachProgress(u)
      BY <1>1, <1>2, <2>2, <2>5 DEF ProgressOf
    <3>2. AttachProgress(u)'
      BY <1>1, <1>3, <2>2, <3>1 DEF AttachProgress, Used
    <3> QED BY <2>2, <3>2 DEF ProgressOf
  <2>6. SuccessOf(a)'
    BY <1>2, <2>2 DEF SuccessOf
  <2>7. ASSUME NEW f \in fds', f.kind = "tap" PROVE (f \in fds /\ ~Owns(u, f)) \/ Owns(u, f)'
    BY <1>6, <2>2, <2>7 DEF Owns
  <2> QED
    BY <1>1, <1>2, <1>4, <1>5, <2>1, <2>2, <2>4, <2>5, <2>6, <2>7, StepKeeps DEF CoreInv
<1> QED BY <1>3, <1>7, <1>8

------------------------------------------------------------------------------
(* DetachNetworkAdapter, and what may happen at any time.                  *)

LEMMA DeleteDeviceKeeps ==
    ASSUME TypeOK, TypeOK', CoreInv, NEW u \in Users, DeleteDevice(u)
    PROVE  CoreInv'
<1>1. pc[u] = "del_device" /\ Running(u) /\ ~Attaching(u)
      /\ UNCHANGED <<netdev, port, fds, cpus>>
  BY DEF DeleteDevice, Running, Attaching
<1>2. PICK a \in Adapters : a = adapter[u]
  BY <1>1, RunningFacts
<1>3. /\ last[a] = "none" /\ CallOf(u) /\ (u \in clean => ProgressOf(u))
      /\ \A f \in fds : f.queue < cpus
  BY <1>1, <1>2, RunningFacts
<1>4. OnlyOwn(u)
  BY <1>1 DEF OnlyOwn, Used, DeleteDevice, TypeOK
<1>5. \A f \in fds : ~Owns(u, f)
  BY <1>1 DEF Owns
<1>6. CASE Fault(u)
  BY <1>1, <1>3, <1>4, <1>6, FaultKeeps
<1>7. CASE Goto(u, "del_netdev", local[u]) /\ device'[a] # "attached"
  <2>1. GoesOn(u, "del_netdev", local[u]) /\ OthersStay(u)
    BY <1>7, GotoFacts DEF GoesOn, Becomes
  <2>2. /\ pc'[u] = "del_netdev" /\ adapter'[u] = a
        /\ UNCHANGED <<clean, excused, faults, last>>
    BY <1>2, <2>1 DEF GoesOn, Becomes
  <2>3. CallInv'
    BY <1>1, <2>1, <2>2, GoesOnKeepsCalls DEF CoreInv, SentOf, Attaching
  <2>4. ProgressOf(u)'
    BY <1>7, <2>2 DEF ProgressOf, Attaching
  <2>5. SuccessOf(a)'
    BY <1>3, <2>2 DEF SuccessOf
  <2> QED
    BY <1>1, <1>2, <1>3, <1>4, <1>5, <2>1, <2>2, <2>3, <2>4, <2>5, StepKeeps DEF CoreInv
<1>8. CASE Return(u, "none")
  <2>1. /\ Ends(u) /\ faults' = faults /\ last'[a] = "none"
        /\ \A b \in Adapters \ {a} : last'[b] = last[b]
    BY <1>1, <1>2, <1>3, <1>8, ReturnFacts
  <2>2. OthersStay(u) /\ clean' = clean \ {u} /\ excused' = excused \ {u}
    BY <2>1 DEF Ends, Becomes
  <2>3. CallInv'
    BY <1>1, <1>2, <2>1, EndsKeepsCalls DEF CoreInv
  <2>4. SuccessOf(a)'
    BY <2>1 DEF SuccessOf
  <2> QED
    BY <1>1, <1>2, <1>3, <1>4, <1>5, <2>1, <2>2, <2>3, <2>4, StepKeeps DEF CoreInv
<1>9. \/ Fault(u)
      \/ Goto(u, "del_netdev", local[u]) /\ device'[a] # "attached"
      \/ Return(u, "none")
  BY <1>2 DEF DeleteDevice, Then, TypeOK
<1> QED BY <1>6, <1>7, <1>8, <1>9

LEMMA DeleteNetworkDeviceKeeps ==
    ASSUME TypeOK, TypeOK', CoreInv, NEW u \in Users, DeleteNetworkDevice(u)
    PROVE  CoreInv'
<1>1. pc[u] = "del_netdev" /\ Running(u) /\ ~Attaching(u)
      /\ UNCHANGED <<device, port, fds, cpus>>
  BY DEF DeleteNetworkDevice, Running, Attaching
<1>2. PICK a \in Adapters : a = adapter[u]
  BY <1>1, RunningFacts
<1>3. /\ last[a] = "none" /\ CallOf(u) /\ (u \in clean => ProgressOf(u))
      /\ \A f \in fds : f.queue < cpus
  BY <1>1, <1>2, RunningFacts
<1>4. netdev' = netdev \ {a}
  BY <1>2 DEF DeleteNetworkDevice
<1>5. OnlyOwn(u)
  BY <1>1, <1>2, <1>4 DEF OnlyOwn, Used
<1>6. \A f \in fds : ~Owns(u, f)
  BY <1>1 DEF Owns
<1>7. CASE Fault(u)
  BY <1>1, <1>3, <1>5, <1>7, FaultKeeps
<1>8. CASE Return(u, "detached")
  <2>1. /\ Ends(u) /\ faults' = faults
        /\ last'[a] = IF u \in clean THEN "detached" ELSE "none"
        /\ \A b \in Adapters \ {a} : last'[b] = last[b]
    BY <1>1, <1>2, <1>3, <1>8, ReturnFacts
  <2>2. OthersStay(u) /\ clean' = clean \ {u} /\ excused' = excused \ {u}
    BY <2>1 DEF Ends, Becomes
  <2>3. CallInv'
    BY <1>1, <1>2, <2>1, EndsKeepsCalls DEF CoreInv
  <2>4. u \in clean => device[a] # "attached"
    BY <1>1, <1>2, <1>3 DEF ProgressOf
  <2>5. SuccessOf(a)'
    BY <1>1, <1>4, <2>1, <2>4 DEF SuccessOf
  <2> QED
    BY <1>1, <1>2, <1>3, <1>5, <1>6, <2>1, <2>2, <2>3, <2>5, StepKeeps DEF CoreInv
<1> QED BY <1>7, <1>8 DEF DeleteNetworkDevice, Then

LEMMA CommandFailsKeeps ==
    ASSUME TypeOK, TypeOK', CoreInv, NEW u \in Users, CommandFails(u)
    PROVE  CoreInv'
<1>1. Running(u) /\ Fault(u) /\ UNCHANGED <<netdev, device, port, fds, cpus>>
  BY DEF CommandFails, Running, qemuVars
<1>2. OnlyOwn(u)
  BY <1>1 DEF OnlyOwn, Used
<1> QED BY <1>1, <1>2, RunningFacts, FaultKeeps

LEMMA OpenFailsKeeps ==
    ASSUME TypeOK, TypeOK', CoreInv, NEW u \in Users, OpenFails(u)
    PROVE  CoreInv'
<1>1. Running(u) /\ Break(u) /\ UNCHANGED <<netdev, device, port, fds, cpus, faults>>
      /\ pc[u] \in {"tap", "vhost"}
  BY DEF OpenFails, Running, qemuVars
<1>2. OnlyOwn(u)
  BY <1>1 DEF OnlyOwn, Used
<1> QED BY <1>1, <1>2, RunningFacts, BreakFacts, BreakKeeps

\* The guest lets go of a device that nobody reported as attached.
LEMMA UnpluggedKeeps ==
    ASSUME TypeOK, TypeOK', CoreInv, NEW b \in Adapters, Unplugged(b)
    PROVE  CoreInv'
<1>1. /\ device[b] = "unplugging" /\ device'[b] = "none"
      /\ \A d \in Adapters \ {b} : device'[d] = device[d]
      /\ UNCHANGED <<netdev, fds, cpus, pc, op, adapter, local, clean, excused, faults, last>>
  BY DEF Unplugged, TypeOK, callVars
<1>2. Used' \subseteq Used \cup {NoPort}
  BY DEF Unplugged, TypeOK, Used
<1>3. CallInv'
  BY <1>1 DEF CoreInv, CallInv, CallOf, SentOf, Apart, Running, Attaching
<1>4. FdInv'
  BY <1>1 DEF CoreInv, FdInv, Owns
<1>5. SuccessIsLasting'
  BY <1>1 DEF CoreInv, SuccessIsLasting
<1>6. ASSUME NEW u \in clean PROVE ProgressOf(u)'
  <2>1. /\ ProgressOf(u) /\ adapter[u] \in Adapters
        /\ Attaching(u) => local[u].port \in Ports
    BY DEF CoreInv, CallInv, CallOf, SentOf, ProgressInv, TypeOK
  <2>2. device'[adapter[u]] = device[adapter[u]] \/ device'[adapter[u]] = "none"
    BY <1>1, <2>1
  <2>3. Attaching(u) => AttachProgress(u)'
    <3>1. Attaching(u) => local'[u].port \notin Used'
      BY <1>1, <1>2, <2>1, NicsAssumption DEF ProgressOf, AttachProgress
    <3> QED BY <1>1, <2>1, <2>2, <3>1 DEF ProgressOf, AttachProgress
  <2> QED BY <1>1, <2>1, <2>2, <2>3 DEF ProgressOf, Attaching
<1> QED BY <1>1, <1>3, <1>4, <1>5, <1>6 DEF CoreInv, ProgressInv

LEMMA CpuPluggedKeeps ==
    ASSUME TypeOK, TypeOK', CoreInv, CpuPlugged
    PROVE  CoreInv'
<1>1. cpus' = cpus + 1
      /\ UNCHANGED <<netdev, device, port, fds, pc, op, adapter, local, clean, excused,
                     faults, last>>
  BY DEF CpuPlugged, callVars
<1>2. cpus \in Nat /\ 1 .. cpus \subseteq 1 .. cpus'
  BY <1>1 DEF TypeOK
<1>3. CallInv'
  <2>1. ASSUME NEW u \in Users PROVE CallOf(u)' /\ SentOf(u)'
    BY <1>1, <1>2 DEF CoreInv, CallInv, CallOf, SentOf, Running, Attaching
  <2> QED BY <1>1, <2>1 DEF CoreInv, CallInv, Apart, Running, Attaching
<1>4. FdInv'
  <2>1. \A f \in fds : f.queue < cpus'
    BY <1>1, <1>2, FdType DEF CoreInv, FdInv
  <2> QED BY <1>1, <2>1 DEF CoreInv, FdInv, Owns
<1>5. ProgressInv' /\ SuccessIsLasting'
  BY <1>1
     DEF CoreInv, ProgressInv, ProgressOf, AttachProgress, Attaching, Used, SuccessIsLasting
<1> QED BY <1>3, <1>4, <1>5 DEF CoreInv

------------------------------------------------------------------------------
(* The beginning of a call.                                                *)

Begins(u, what, a, l, locals, excuse) ==
    /\ pc[u] = "idle" /\ Becomes(u, l, what, a, locals)
    /\ clean' \subseteq clean \cup {u}
    /\ u \in clean' => InTheWay(u, what, a) = {}
    /\ \A v \in clean' \ {u} : v \notin InTheWay(u, what, a)
    /\ \A v \in clean' : v \in excused \/ (v = u /\ excuse) => v \in excused'
    /\ last'[a] = "none" /\ \A b \in Adapters \ {a} : last'[b] = last[b]
    /\ UNCHANGED <<netdev, device, port, fds, cpus, faults>>

LEMMA BeginFacts ==
    ASSUME TypeOK, NEW u \in Users, NEW what, NEW a \in Adapters, NEW l, NEW locals,
           NEW excuse \in BOOLEAN, Begin(u, what, a, l, locals, excuse)
    PROVE  Begins(u, what, a, l, locals, excuse)
<1>1. pc[u] = "idle" /\ Becomes(u, l, what, a, locals)
  BY DEF TypeOK, Begin, Becomes, OthersStay
<1>2. /\ clean' \subseteq clean \cup {u}
      /\ u \in clean' => InTheWay(u, what, a) = {}
      /\ \A v \in clean' \ {u} : v \notin InTheWay(u, what, a)
  BY DEF Begin
<1>3. \A v \in clean' : v \in excused \/ (v = u /\ excuse) => v \in excused'
  BY DEF Begin
<1>4. last'[a] = "none" /\ \A b \in Adapters \ {a} : last'[b] = last[b]
  BY DEF TypeOK, Begin
<1>5. UNCHANGED <<netdev, device, port, fds, cpus, faults>>
  BY DEF Begin, qemuVars
<1> QED BY <1>1, <1>2, <1>3, <1>4, <1>5 DEF Begins

\* A call that begins takes the calls that it gets in the way of for unclean.
LEMMA BeginKeeps ==
    ASSUME TypeOK, TypeOK', CoreInv, NEW u \in Users, NEW what, NEW a \in Adapters, NEW l,
           NEW locals, NEW excuse \in BOOLEAN, Begins(u, what, a, l, locals, excuse),
           \/ what = "attach" /\ l = "tap"
           \/ what = "detach" /\ l = "del_device" /\ locals = NoLocals,
           SentOf(u)', u \in clean' => ProgressOf(u)'
    PROVE  CoreInv'
<1> USE DEF Begins
<1>1. OthersStay(u) /\ pc'[u] = l /\ op'[u] = what /\ adapter'[u] = a /\ local'[u] = locals
  BY DEF Becomes
<1>2. ASSUME NEW w \in Users \ {u} PROVE CallOf(w)' /\ SentOf(w)'
  <2>1. Running(w) => adapter[w] \in Adapters
    BY DEF CoreInv, CallInv, CallOf
  <2>2. Running(w) => last'[adapter[w]] = last[adapter[w]] \/ last'[adapter[w]] = "none"
    BY <2>1
  <2> QED BY <1>1, <2>2, OtherCalls DEF CoreInv, TypeOK
<1>3. CallOf(u)'
  BY <1>1 DEF CallOf, Running, Attaching
<1>4. ASSUME NEW v \in clean', NEW w \in Users \ {v} PROVE Apart(v, w)'
  <2>1. CASE v = u
    <3>1. w \notin InTheWay(u, what, a) /\ CallOf(w)
      BY <2>1 DEF CoreInv, CallInv
    <3>2. Running(w) => adapter[w] # a /\ ~(what = "attach" /\ op[w] = "attach")
      BY <2>1, <3>1 DEF InTheWay, Running
    <3>3. pc'[w] = pc[w] /\ adapter'[w] = adapter[w]
      BY <1>1, <2>1 DEF OthersStay
    <3> QED BY <1>1, <2>1, <3>1, <3>2, <3>3 DEF Apart, CallOf, Running, Attaching
  <2>2. CASE v # u /\ w = u
    <3>1. v \notin InTheWay(u, what, a) /\ CallOf(v) /\ v \in clean /\ v \in Users
      BY <2>2 DEF CoreInv, CallInv, TypeOK
    <3>2. Running(v) /\ adapter[v] # a /\ ~(what = "attach" /\ op[v] = "attach")
      BY <2>2, <3>1 DEF InTheWay, Running, CallOf
    <3>3. pc'[v] = pc[v] /\ adapter'[v] = adapter[v]
      BY <1>1, <2>2, <3>1 DEF OthersStay
    <3> QED BY <1>1, <2>2, <3>1, <3>2, <3>3 DEF Apart, CallOf, Running, Attaching
  <2>3. CASE v # u /\ w # u
    <3>1. v \in clean /\ v \in Users /\ Apart(v, w)
      BY <2>3 DEF CoreInv, CallInv, TypeOK
    <3> QED BY <1>1, <2>3, <3>1 DEF Apart, OthersStay, Running, Attaching
  <2> QED BY <2>1, <2>2, <2>3
<1>5. CallInv'
  BY <1>2, <1>3, <1>4 DEF CallInv
<1>6. ASSUME NEW f \in fds' PROVE f.queue < cpus' /\ last'[f.adapter] # "attached"
  BY <1>6, FdType DEF CoreInv, FdInv
<1>7. ASSUME faults' = 0, NEW f \in fds', f.kind = "tap" PROVE \E w \in Users : Owns(w, f)'
  <2>1. PICK w \in Users : Owns(w, f)
    BY <1>7 DEF CoreInv, FdInv
  <2>2. w # u
    BY <2>1 DEF Owns
  <2> QED BY <1>1, <2>1, <2>2 DEF Owns, OthersStay
<1>8. ASSUME NEW v \in clean' PROVE ProgressOf(v)'
  <2>1. CASE v = u
    BY <2>1
  <2>2. CASE v # u
    <3>1. v \in clean /\ v \in Users /\ ProgressOf(v) /\ (v \in excused => v \in excused')
      BY <2>2 DEF CoreInv, ProgressInv, TypeOK
    <3>2. pc'[v] = pc[v] /\ adapter'[v] = adapter[v] /\ local'[v] = local[v]
      BY <1>1, <2>2, <3>1 DEF OthersStay
    <3>3. Attaching(v) => AttachProgress(v)'
      BY <3>1, <3>2 DEF ProgressOf, AttachProgress, Used
    <3> QED BY <3>1, <3>2, <3>3 DEF ProgressOf, Attaching
  <2> QED BY <2>1, <2>2
<1>9. SuccessIsLasting'
  BY DEF CoreInv, SuccessIsLasting
<1> QED BY <1>5, <1>6, <1>7, <1>8, <1>9 DEF CoreInv, FdInv, ProgressInv

LEMMA AttachKeeps ==
    ASSUME TypeOK, TypeOK', CoreInv, NEW u \in Users, NEW a \in Adapters,
           AttachNetworkAdapter(u, a)
    PROVE  CoreInv'
<1> DEFINE excuse == a \in netdev \/ device[a] # "none"
<1>1. PICK p \in Ports \ Used :
         Begin(u, "attach", a, "tap", [port |-> p, queues |-> cpus, sent |-> {}], excuse)
  BY AttachFacts
<1>2. Begins(u, "attach", a, "tap", [port |-> p, queues |-> cpus, sent |-> {}], excuse)
  <2>1. excuse \in BOOLEAN
    OBVIOUS
  <2> HIDE DEF excuse
  <2> QED BY <1>1, <2>1, BeginFacts
<1>3. /\ pc'[u] = "tap" /\ adapter'[u] = a
      /\ local'[u].port = p /\ local'[u].queues = cpus /\ local'[u].sent = {}
      /\ UNCHANGED <<netdev, device, port, fds, cpus>>
  BY <1>2 DEF Begins, Becomes
<1>4. cpus \in Nat /\ cpus >= 1
  BY DEF TypeOK
<1>5. SentOf(u)'
  <2>1. 0 \in 0 .. cpus - 1 /\ {} = 0 .. 0 - 1
    BY <1>4
  <2>2. \E k \in 0 .. cpus - 1 : {} = 0 .. k - 1
    BY <2>1
  <2>3. cpus \in 1 .. cpus
    BY <1>4
  <2> QED BY <1>3, <2>2, <2>3 DEF SentOf
<1>6. ASSUME u \in clean' PROVE ProgressOf(u)'
  <2>1. u \in excused' \/ (a \notin netdev /\ device[a] = "none")
    BY <1>2, <1>6 DEF Begins
  <2>2. p \notin Used'
    BY <1>3 DEF Used
  <2>3. \A f \in fds : f.queue < cpus
    BY DEF CoreInv, FdInv
  <2>4. AttachProgress(u)'
    BY <1>3, <2>1, <2>2, <2>3 DEF AttachProgress
  <2> QED BY <1>3, <2>4 DEF ProgressOf
<1>7. excuse \in BOOLEAN
  OBVIOUS
<1> HIDE DEF excuse
<1> QED BY <1>2, <1>5, <1>6, <1>7, BeginKeeps

LEMMA DetachKeeps ==
    ASSUME TypeOK, TypeOK', CoreInv, NEW u \in Users, NEW a \in Adapters,
           DetachNetworkAdapter(u, a)
    PROVE  CoreInv'
<1> DEFINE excuse == device[a] = "unplugging"
<1>1. Begin(u, "detach", a, "del_device", NoLocals, excuse) /\ excuse \in BOOLEAN
  BY DEF DetachNetworkAdapter
<1>2. Begins(u, "detach", a, "del_device", NoLocals, excuse)
  <2> HIDE DEF excuse
  <2> QED BY <1>1, BeginFacts
<1>3. /\ pc'[u] = "del_device" /\ adapter'[u] = a /\ UNCHANGED device
  BY <1>2 DEF Begins, Becomes
<1>4. SentOf(u)'
  BY <1>3 DEF SentOf, Attaching
<1>5. u \in clean' => ProgressOf(u)'
  BY <1>2, <1>3 DEF Begins, ProgressOf, Attaching
<1> HIDE DEF excuse
<1> QED BY <1>1, <1>2, <1>4, <1>5, BeginKeeps

------------------------------------------------------------------------------
(* Types.                                                                  *)

Locals == [port : Ports \cup {NoPort}, queues : 0 .. MaxCpus, sent : SUBSET Queues]

CallTypes ==
    /\ pc \in [Users -> {"idle", "tap", "vhost", "netdev", "device", "close",
                         "del_device", "del_netdev"}]
    /\ op \in [Users -> {"none", "attach", "detach"}]
    /\ adapter \in [Users -> Adapters \cup {NoAdapter}]
    /\ local \in [Users -> Locals]
    /\ clean \in SUBSET Users
    /\ excused \in SUBSET clean
    /\ faults \in 0 .. MaxFaults
    /\ last \in [Adapters -> {"none", "attached", "detached"}]

QemuTypes ==
    /\ netdev \in SUBSET Adapters
    /\ device \in [Adapters -> {"none", "attached", "unplugging"}]
    /\ port \in [Adapters -> Ports \cup {NoPort}]
    /\ \A a \in Adapters : device[a] = "none" <=> port[a] = NoPort
    /\ \A a, b \in Adapters : port[a] = port[b] => a = b \/ port[a] = NoPort
    /\ fds \in SUBSET [adapter : Adapters, kind : {"tap", "vhost"}, queue : Queues]
    /\ cpus \in 1 .. MaxCpus

LEMMA GotoTypes ==
    ASSUME CallTypes, NEW u \in Users, NEW locals \in Locals,
           NEW l \in {"tap", "vhost", "netdev", "device", "close", "del_device", "del_netdev"},
           Goto(u, l, locals)
    PROVE  CallTypes'
BY DEF CallTypes, Goto, callVars

LEMMA OverTypes ==
    ASSUME CallTypes, NEW u \in Users, Over(u),
           last' \in [Adapters -> {"none", "attached", "detached"}],
           faults' \in 0 .. MaxFaults
    PROVE  CallTypes'
<1>1. NoLocals \in Locals
  BY NicsAssumption DEF NoLocals, Locals, Queues
<1> QED BY <1>1 DEF CallTypes, Over

LEMMA ReturnTypes ==
    ASSUME CallTypes, NEW u \in Users, NEW how \in {"none", "attached", "detached"},
           Return(u, how)
    PROVE  CallTypes'
<1>1. last' \in [Adapters -> {"none", "attached", "detached"}]
  BY DEF CallTypes, Return
<1>2. faults' \in 0 .. MaxFaults
  BY DEF CallTypes, Return
<1> QED BY <1>1, <1>2, OverTypes DEF Return

LEMMA BreakTypes ==
    ASSUME CallTypes, NEW u \in Users, Break(u), faults' \in 0 .. MaxFaults
    PROVE  CallTypes'
<1>1. CASE local[u].sent = {} \/ pc[u] = "close"
  BY <1>1, OverTypes DEF Break, CallTypes
<1>2. CASE ~(local[u].sent = {} \/ pc[u] = "close")
  BY <1>2 DEF Break, CallTypes, callVars
<1> QED BY <1>1, <1>2

LEMMA FaultTypes ==
    ASSUME CallTypes, NEW u \in Users, Fault(u)
    PROVE  CallTypes'
<1>1. faults' \in 0 .. MaxFaults
  BY NicsAssumption DEF Fault, CallTypes
<1> QED BY <1>1, BreakTypes DEF Fault

\* The ways in which a command of DetachNetworkAdapter, or one that keeps the
\* locals of Plug, may end.
LEMMA CommandTypes ==
    ASSUME CallTypes, NEW u \in Users,
           \/ \E l \in {"netdev", "tap", "device", "close", "del_netdev"} :
                 Goto(u, l, local[u])
           \/ \E how \in {"none", "attached", "detached"} : Return(u, how)
           \/ Fail(u)
           \/ Fault(u)
    PROVE  CallTypes'
<1>1. local[u] \in Locals
  BY DEF CallTypes
<1> QED BY <1>1, GotoTypes, ReturnTypes, FaultTypes DEF Fail

\* A device goes into a port that has none.
LEMMA PlugTypes ==
    ASSUME QemuTypes, NEW a \in Adapters, NEW p \in Ports \ Used,
           device' = [device EXCEPT ![a] = "attached"], port' = [port EXCEPT ![a] = p],
           UNCHANGED <<netdev, fds, cpus>>
    PROVE  QemuTypes'
<1>1. \A b \in Adapters : port[b] # p
  BY DEF Used
<1> QED BY <1>1, NicsAssumption DEF QemuTypes

LEMMA TypesSplit == TypeOK <=> CallTypes /\ QemuTypes
BY DEF TypeOK, CallTypes, QemuTypes, Locals

LEMMA TypeOKStep ==
    ASSUME TypeOK, CoreInv, [Next]_vars
    PROVE  TypeOK'
<1> USE NicsAssumption
<1>0. CallTypes /\ QemuTypes
  BY TypesSplit
<1>1. ASSUME NEW u \in Users, NEW a \in Adapters, AttachNetworkAdapter(u, a)
      PROVE  CallTypes' /\ QemuTypes'
  <2>1. PICK p \in Ports \ Used :
           Begin(u, "attach", a, "tap", [port |-> p, queues |-> cpus, sent |-> {}],
                 a \in netdev \/ device[a] # "none")
    BY <1>1, AttachFacts
  <2>2. [port |-> p, queues |-> cpus, sent |-> {}] \in Locals
    BY DEF Locals, TypeOK
  <2>3. QemuTypes'
    BY <1>0, <2>1 DEF QemuTypes, Begin, qemuVars
  <2>4. clean' \in SUBSET Users /\ excused' \in SUBSET clean'
    BY <2>1 DEF TypeOK, Begin
  <2> QED BY <1>0, <2>1, <2>2, <2>3, <2>4 DEF CallTypes, Begin
<1>2. ASSUME NEW u \in Users, NEW a \in Adapters, DetachNetworkAdapter(u, a)
      PROVE  CallTypes' /\ QemuTypes'
  <2>1. NoLocals \in Locals
    BY DEF Locals, NoLocals
  <2>2. QemuTypes'
    BY <1>0, <1>2 DEF QemuTypes, DetachNetworkAdapter, Begin, qemuVars
  <2>3. clean' \in SUBSET Users /\ excused' \in SUBSET clean'
    BY <1>2 DEF TypeOK, DetachNetworkAdapter, Begin
  <2> QED BY <1>0, <1>2, <2>1, <2>2, <2>3 DEF CallTypes, DetachNetworkAdapter, Begin
<1>3. ASSUME NEW u \in Users, SendTap(u) PROVE CallTypes' /\ QemuTypes'
  <2>1. PICK i \in 0 .. local[u].queues - 1 :
           /\ fds' = fds \cup {Fd(adapter[u], "tap", i)}
           /\ \/ Goto(u, "vhost", [port |-> local[u].port, queues |-> local[u].queues,
                                   sent |-> 0 .. i])
              \/ Fault(u)
    BY <1>3, SendTapFacts DEF CoreInv
  <2>2. adapter[u] \in Adapters /\ local[u] \in Locals
    BY <1>0, <1>3, RunningFacts DEF SendTap, Running, CallTypes
  <2>3. i \in Queues /\ 0 .. i \subseteq Queues
    BY <2>2 DEF Queues, Locals
  <2>4. [port |-> local[u].port, queues |-> local[u].queues, sent |-> 0 .. i] \in Locals
    BY <2>2, <2>3 DEF Locals
  <2>5. CallTypes'
    BY <1>0, <2>1, <2>4, GotoTypes, FaultTypes
  <2>6. fds' \in SUBSET [adapter : Adapters, kind : {"tap", "vhost"}, queue : Queues]
    BY <1>0, <2>1, <2>2, <2>3 DEF QemuTypes, Fd
  <2> QED BY <1>0, <1>3, <2>5, <2>6 DEF SendTap, QemuTypes
<1>4. ASSUME NEW u \in Users, SendVhost(u) PROVE CallTypes' /\ QemuTypes'
  <2>1. PICK i \in 0 .. local[u].queues - 1 :
           /\ fds' = fds \cup {Fd(adapter[u], "vhost", i)}
           /\ Goto(u, "netdev", local[u]) \/ Goto(u, "tap", local[u]) \/ Fault(u)
    BY <1>4, SendVhostFacts DEF CoreInv
  <2>2. adapter[u] \in Adapters /\ local[u] \in Locals
    BY <1>0, <1>4, RunningFacts DEF SendVhost, Running, CallTypes
  <2>3. i \in Queues
    BY <2>2 DEF Queues, Locals
  <2>4. fds' \in SUBSET [adapter : Adapters, kind : {"tap", "vhost"}, queue : Queues]
    BY <1>0, <2>1, <2>2, <2>3 DEF QemuTypes, Fd
  <2> QED BY <1>0, <1>4, <2>1, <2>4, CommandTypes DEF SendVhost, QemuTypes
<1>5. ASSUME NEW u \in Users, AddNetworkDevice(u) PROVE CallTypes' /\ QemuTypes'
  <2>1. CallTypes'
    BY <1>0, <1>5, CommandTypes DEF AddNetworkDevice, Then
  <2>2. adapter[u] \in Adapters
    BY <1>5, RunningFacts DEF AddNetworkDevice, Running
  <2>3. netdev' \in SUBSET Adapters /\ fds' \subseteq fds
    BY <1>0, <1>5, <2>2 DEF AddNetworkDevice, QemuTypes
  <2> QED BY <1>0, <1>5, <2>1, <2>3 DEF AddNetworkDevice, QemuTypes
<1>6. ASSUME NEW u \in Users, AddDevice(u) PROVE CallTypes' /\ QemuTypes'
  <2>1. CallTypes'
    BY <1>0, <1>6, CommandTypes DEF AddDevice, Then
  <2>2. adapter[u] \in Adapters /\ local[u].port \in Ports
    BY <1>6, RunningFacts DEF AddDevice, Running, SentOf, Attaching
  <2>3. UNCHANGED <<netdev, fds, cpus>>
    BY <1>6 DEF AddDevice
  <2>4. ASSUME UNCHANGED <<device, port>> PROVE QemuTypes'
    BY <1>0, <2>3, <2>4 DEF QemuTypes
  <2>5. ASSUME local[u].port \notin Used,
               device' = [device EXCEPT ![adapter[u]] = "attached"],
               port' = [port EXCEPT ![adapter[u]] = local[u].port]
        PROVE  QemuTypes'
    BY <1>0, <2>2, <2>3, <2>5, PlugTypes
  <2> QED BY <1>6, <2>1, <2>4, <2>5 DEF AddDevice
<1>7. ASSUME NEW u \in Users, CloseFd(u) PROVE CallTypes' /\ QemuTypes'
  <2>1. PICK i \in local[u].sent :
           /\ fds' = fds \ {Fd(adapter[u], "tap", i)}
           /\ \/ Return(u, "none")
              \/ Goto(u, "close", [port |-> local[u].port, queues |-> local[u].queues,
                                   sent |-> local[u].sent \ {i}])
    BY <1>7, CloseFdFacts DEF CoreInv
  <2>2. [port |-> local[u].port, queues |-> local[u].queues, sent |-> local[u].sent \ {i}]
           \in Locals
    BY <1>0 DEF CallTypes, Locals
  <2>3. CallTypes'
    BY <1>0, <2>1, <2>2, GotoTypes, ReturnTypes
  <2> QED BY <1>0, <1>7, <2>1, <2>3 DEF CloseFd, QemuTypes
<1>8. ASSUME NEW u \in Users, DeleteDevice(u) PROVE CallTypes' /\ QemuTypes'
  <2>1. CallTypes'
    BY <1>0, <1>8, CommandTypes DEF DeleteDevice, Then
  <2> QED BY <1>0, <1>8, <2>1 DEF DeleteDevice, QemuTypes
<1>9. ASSUME NEW u \in Users, DeleteNetworkDevice(u) PROVE CallTypes' /\ QemuTypes'
  <2>1. CallTypes'
    BY <1>0, <1>9, CommandTypes DEF DeleteNetworkDevice, Then
  <2> QED BY <1>0, <1>9, <2>1 DEF DeleteNetworkDevice, QemuTypes
<1>10. ASSUME NEW u \in Users, CommandFails(u) \/ OpenFails(u) PROVE CallTypes' /\ QemuTypes'
  <2>1. CallTypes'
    BY <1>0, <1>10, FaultTypes, BreakTypes DEF CommandFails, OpenFails, CallTypes
  <2> QED BY <1>0, <1>10, <2>1 DEF CommandFails, OpenFails, QemuTypes, qemuVars
<1>11. ASSUME NEW a \in Adapters, Unplugged(a) PROVE CallTypes' /\ QemuTypes'
  BY <1>0, <1>11 DEF Unplugged, CallTypes, QemuTypes, callVars
<1>12. ASSUME CpuPlugged PROVE CallTypes' /\ QemuTypes'
  BY <1>0, <1>12 DEF CpuPlugged, CallTypes, QemuTypes, callVars
<1>13. ASSUME UNCHANGED vars PROVE CallTypes' /\ QemuTypes'
  BY <1>0, <1>13 DEF vars, CallTypes, QemuTypes, callVars, qemuVars
<1>14. CallTypes' /\ QemuTypes'
  BY <1>1, <1>2, <1>3, <1>4, <1>5, <1>6, <1>7, <1>8, <1>9, <1>10, <1>11, <1>12, <1>13
     DEF Next, Command
<1> QED BY <1>14 DEF TypeOK, CallTypes, QemuTypes, Locals


------------------------------------------------------------------------------
(* The theorems.                                                           *)

\* Every step keeps what the proofs rest on.
LEMMA CoreInvStep ==
    ASSUME TypeOK, TypeOK', CoreInv, [Next]_vars
    PROVE  CoreInv'
<1>1. ASSUME NEW u \in Users, Command(u) \/ CommandFails(u) \/ OpenFails(u) PROVE CoreInv'
  BY <1>1, SendTapKeeps, SendVhostKeeps, AddNetworkDeviceKeeps, AddDeviceKeeps, CloseFdKeeps,
     DeleteDeviceKeeps, DeleteNetworkDeviceKeeps, CommandFailsKeeps, OpenFailsKeeps DEF Command
<1>2. ASSUME UNCHANGED vars PROVE CoreInv'
  <2>1. UNCHANGED <<netdev, device, port, fds, cpus, pc, op, adapter, local, clean, excused,
                    faults, last>>
    BY <1>2 DEF vars, qemuVars, callVars
  <2>2. CallInv'
    BY <2>1 DEF CoreInv, CallInv, CallOf, SentOf, Apart, Running, Attaching
  <2>3. FdInv'
    BY <2>1 DEF CoreInv, FdInv, Owns
  <2>4. ProgressInv' /\ SuccessIsLasting'
    BY <2>1
       DEF CoreInv, ProgressInv, ProgressOf, AttachProgress, Attaching, Used, SuccessIsLasting
  <2> QED BY <2>2, <2>3, <2>4 DEF CoreInv
<1> QED BY <1>1, <1>2, AttachKeeps, DetachKeeps, UnpluggedKeeps, CpuPluggedKeeps DEF Next

LEMMA InitIInv == Init => IInv
<1> SUFFICES ASSUME Init PROVE IInv
  OBVIOUS
<1>1. TypeOK
  BY NicsAssumption DEF Init, TypeOK, NoLocals, Queues
<1>2. CallInv
  BY DEF Init, CallInv, CallOf, SentOf, Running, Attaching
<1>3. FdInv /\ ProgressInv /\ SuccessIsLasting
  BY DEF Init, FdInv, ProgressInv, SuccessIsLasting
<1> QED BY <1>1, <1>2, <1>3 DEF IInv

LEMMA Invariance == Spec => []IInv
<1>1. IInv /\ [Next]_vars => IInv'
  BY TypeOKStep, CoreInvStep DEF IInv, CoreInv
<1> QED BY InitIInv, <1>1, PTL DEF Spec

\* TypeOK, for any number of adapters, ports, callers, CPUs and faults; above
\* all, no two devices share a root port.
THEOREM TypeCorrect == Spec => []TypeOK
<1>1. IInv => TypeOK
  BY DEF IInv
<1> QED BY <1>1, Invariance, PTL

\* What a clean call reported of its adapter (SuccessIsLasting) stays true.
THEOREM SuccessLasts == Spec => []SuccessIsLasting
<1>1. IInv => SuccessIsLasting
  BY DEF IInv
<1> QED BY <1>1, Invariance, PTL

\* Tap fds do not pile up in QEMU, and an Attach that succeeds uses up what
\* failed ones left of its adapter (NoFdIsLeft).
THEOREM FdsAreUsedUp == Spec => []NoFdIsLeft
<1>1. IInv => NoFdIsLeft
  BY DEF IInv, FdInv, NoFdIsLeft, Owns
<1> QED BY <1>1, Invariance, PTL

\* A step of one caller leaves the others where they are.
LEMMA OthersPc ==
    ASSUME TypeOK, NEW w \in Users, NEW u \in Users \ {w},
           Command(w) \/ CommandFails(w) \/ OpenFails(w)
    PROVE  pc'[u] = pc[u]
<1>1. ASSUME NEW l, NEW locals, Goto(w, l, locals) PROVE pc'[u] = pc[u]
  BY <1>1 DEF Goto, TypeOK
<1>2. ASSUME NEW how, Return(w, how) PROVE pc'[u] = pc[u]
  BY <1>2 DEF Return, Over, TypeOK
<1>3. ASSUME Break(w) PROVE pc'[u] = pc[u]
  BY <1>3, BreakFacts DEF Breaks, Becomes, OthersStay
<1>4. ASSUME Fail(w) PROVE pc'[u] = pc[u]
  BY <1>1, <1>2, <1>4 DEF Fail
<1>5. ASSUME SendTap(w) \/ SendVhost(w) PROVE pc'[u] = pc[u]
  BY <1>1, <1>3, <1>5 DEF SendTap, SendVhost, Then, Fault
<1>6. ASSUME AddNetworkDevice(w) PROVE pc'[u] = pc[u]
  BY <1>1, <1>3, <1>4, <1>6 DEF AddNetworkDevice, Then, Fault
<1>7. ASSUME AddDevice(w) \/ CloseFd(w) PROVE pc'[u] = pc[u]
  BY <1>1, <1>2, <1>3, <1>4, <1>7 DEF AddDevice, CloseFd, Then, Fault
<1>8. ASSUME DeleteDevice(w) \/ DeleteNetworkDevice(w) PROVE pc'[u] = pc[u]
  BY <1>1, <1>2, <1>3, <1>8 DEF DeleteDevice, DeleteNetworkDevice, Then, Fault
<1>9. ASSUME CommandFails(w) \/ OpenFails(w) PROVE pc'[u] = pc[u]
  BY <1>3, <1>9 DEF CommandFails, OpenFails, Fault
<1> QED BY <1>5, <1>6, <1>7, <1>8, <1>9 DEF Command

\* A command of a clean caller that ends the call without success, and is no
\* fault, is the refusal of something that was there from the beginning.
LEMMA RefusalHasReason ==
    ASSUME TypeOK, CoreInv, NEW u \in Users, IsRefused(u),
           Command(u) \/ CommandFails(u) \/ OpenFails(u)
    PROVE  u \in excused
<1>1. Running(u) /\ u \in clean /\ CallOf(u) /\ SentOf(u) /\ ProgressOf(u)
  <2>1. u \in clean /\ CallOf(u) /\ SentOf(u) /\ ProgressOf(u)
    BY DEF CoreInv, CallInv, ProgressInv, IsRefused
  <2> QED BY <2>1 DEF CallOf
<1>2. PICK a \in Adapters : a = adapter[u]
  BY <1>1 DEF CallOf
<1>3. ~Fault(u)
  BY FaultFacts DEF Fault, IsRefused, TypeOK
<1>4. ASSUME NEW l \in {"tap", "vhost", "netdev", "device", "close", "del_netdev"}, NEW locals
      PROVE  ~Goto(u, l, locals)
  <2>1. SUFFICES ASSUME Goto(u, l, locals) PROVE FALSE
    OBVIOUS
  <2>2. pc'[u] = l
    BY <2>1, GotoFacts DEF GoesOn, Becomes
  <2> QED BY <1>4, <2>2 DEF IsRefused
<1>5. ASSUME NEW how \in {"attached", "detached"} PROVE ~Return(u, how)
  <2>1. SUFFICES ASSUME Return(u, how) PROVE FALSE
    OBVIOUS
  <2>2. last'[a] = how
    BY <1>1, <1>2, <2>1, ReturnFacts
  <2> QED BY <1>2, <2>2 DEF IsRefused
<1>6. CASE SendTap(u) \/ SendVhost(u) \/ OpenFails(u)
  BY <1>6 DEF SendTap, SendVhost, OpenFails, IsRefused
<1>7. CASE CommandFails(u)
  BY <1>3, <1>7 DEF CommandFails
<1>8. CASE AddNetworkDevice(u) \/ AddDevice(u)
  <2>1. pc[u] \in {"netdev", "device"}
    BY <1>8 DEF AddNetworkDevice, AddDevice
  <2>2. local[u].sent # {}
    <3>1. local[u].queues \in Nat /\ local[u].queues >= 1 /\ local[u].sent = 0 .. local[u].queues - 1
      BY <1>1, <2>1 DEF SentOf, Attaching, TypeOK
    <3>2. 0 \in 0 .. local[u].queues - 1
      BY <3>1
    <3> QED BY <3>1, <3>2
  <2>3. ~Fail(u)
    BY <1>4, <2>2 DEF Fail
  <2> QED BY <1>3, <1>4, <1>5, <1>8, <2>3 DEF AddNetworkDevice, AddDevice, Then
<1>9. CASE CloseFd(u)
  BY <1>1, <1>9 DEF CloseFd, ProgressOf, AttachProgress, Attaching
<1>10. CASE DeleteDevice(u)
  BY <1>1, <1>3, <1>4, <1>10 DEF DeleteDevice, ProgressOf, Then
<1>11. CASE DeleteNetworkDevice(u)
  BY <1>3, <1>5, <1>11 DEF DeleteNetworkDevice, Then
<1> QED BY <1>6, <1>7, <1>8, <1>9, <1>10, <1>11 DEF Command

\* A clean call is refused only because of how it found QEMU (FailsForAReason).
THEOREM RefusalsHaveAReason == Spec => FailsForAReason
<1>1. IInv /\ [Next]_vars => [\A u \in Users : IsRefused(u) => u \in excused]_vars
  <2> SUFFICES ASSUME IInv, Next, NEW u \in Users, IsRefused(u) PROVE u \in excused
    OBVIOUS
  <2>1. TypeOK /\ CoreInv
    BY DEF IInv, CoreInv
  <2>2. Running(u) /\ pc'[u] = "idle"
    BY <2>1 DEF CoreInv, CallInv, CallOf, IsRefused
  <2>3. ASSUME NEW w \in Users, Command(w) \/ CommandFails(w) \/ OpenFails(w)
        PROVE  u \in excused
    BY <2>1, <2>2, <2>3, OthersPc, RefusalHasReason DEF Running
  <2>4. ASSUME NEW w \in Users, NEW a \in Adapters,
               AttachNetworkAdapter(w, a) \/ DetachNetworkAdapter(w, a)
        PROVE  FALSE
    <3>1. pc[w] = "idle" /\ \E l \in {"tap", "del_device"} : pc' = [pc EXCEPT ![w] = l]
      BY <2>4 DEF AttachNetworkAdapter, DetachNetworkAdapter, Begin
    <3> QED BY <2>1, <2>2, <3>1 DEF TypeOK, Running
  <2>5. ASSUME CpuPlugged \/ \E a \in Adapters : Unplugged(a) PROVE FALSE
    BY <2>2, <2>5 DEF CpuPlugged, Unplugged, Running
  <2> QED BY <2>3, <2>4, <2>5 DEF Next
<1> QED BY <1>1, Invariance, PTL DEF Spec, FailsForAReason
===============================================================================
