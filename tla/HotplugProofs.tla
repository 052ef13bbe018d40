---------------------------- MODULE HotplugProofs ----------------------------
(***************************************************************************)
(* SetCPUs and SetMemory, for any number of callers, CPU slots, DIMM slots *)
(* and faults, and any sizes.  What the proofs rest on: CPU slots and      *)
(* DIMMs are filled from the first one on, however calls interleave, and a *)
(* backend belongs to the one call that added it until its DIMM is there.  *)
(***************************************************************************)
EXTENDS Hotplug, FiniteSetTheorems, TLAPS

InMemory(u) == pc[u] \in MemoryCalls
Adding(u)   == pc[u] \in {"devices", "backend", "dimm"}
HasBackend(u) == pc[u] \in {"dimm", "undo"}

\* The first k CPU slots are in use.  A call that is plugging CPUs goes on from
\* one of those, or from the next one, to the last one it wants.
CpusAre(k) ==
    /\ plugged = 1 .. k
    /\ k <= mostCpus
    /\ \A u \in Users :
          /\ pc[u] = "slots" /\ want[u] <= MaxCpus => want[u] <= mostCpus
          /\ pc[u] = "plug" => /\ want[u] <= mostCpus
                               /\ \E l \in 1 .. want[u] :
                                     l <= k + 1 /\ local[u].cpus = l .. want[u]
          /\ outcome[u] = "cpus" => want[u] <= k

CpuInv == \E k \in 1 .. MaxCpus : CpusAre(k)

\* The first k DIMMs are there, and nobody is about to add one further on.
DimmsAre(k) ==
    /\ dimms = 1 .. k
    /\ \A u \in Users :
          pc[u] \in {"backend", "dimm", "undo"} => local[u].number \in 1 .. k + 1

DimmInv == \E k \in 0 .. Slots : DimmsAre(k)

\* No two calls have the same backend.
BackendInv ==
    /\ \A u \in Users :
          /\ HasBackend(u) => backend[local[u].number] > 0
          /\ pc[u] = "dimm" =>
                backend[local[u].number] = local[u].size /\ local[u].number \notin dimms
    /\ \A u, w \in Users :
          HasBackend(u) /\ HasBackend(w) /\ local[u].number = local[w].number => u = w
    /\ NoBackendLeft

\* What a call is to add is enough.
SizeInv ==
    \A u \in Users :
       /\ pc[u] = "summary" => want[u] <= MaxMemory + 1
       /\ Adding(u) => local[u].size > 0 /\ memory + local[u].size >= want[u]
       /\ outcome[u] = "memory" => memory >= want[u]

\* A call that no other one overlaps adds just what is missing.
Alone(u) == ~overlap \/ u \in clean

AloneInv ==
    /\ \A u \in Users :
          /\ InMemory(u) /\ want[u] <= MaxMemory => want[u] <= mostMemory
          /\ InMemory(u) /\ Alone(u) => \A w \in Users : InMemory(w) => w = u
          /\ Adding(u) /\ Alone(u) => memory + local[u].size = want[u]
    /\ NoMemoryTooMuch

\* Nor is anything in its way.
RefusalInv ==
    /\ \A u \in clean : pc[u] \notin {"slots", "plug"}
    /\ faults = 0 => \A u \in clean :
          /\ pc[u] = "backend" => local[u].number \notin dimms
          /\ pc[u] = "undo" /\ want[u] <= MaxMemory => Cardinality(dimms) >= Slots
    /\ RefusedForAReason

IInv ==
    TypeOK /\ CpuInv /\ DimmInv /\ BackendInv /\ SizeInv /\ AloneInv /\ RefusalInv

------------------------------------------------------------------------------
(* Intervals.                                                              *)

\* Min and Max where the code uses them.
LEMMA MinOfInterval ==
    ASSUME NEW l \in Nat, NEW h \in Nat, l <= h
    PROVE  Min(l .. h) = l
<1>1. l \in l .. h /\ \A y \in l .. h : l <= y
  OBVIOUS
<1>2. \A x \in l .. h : (\A y \in l .. h : x <= y) => x = l
  BY <1>1
<1> QED BY <1>1, <1>2 DEF Min

LEMMA HighestNumber ==
    ASSUME NEW k \in Nat
    PROVE  Max((1 .. k) \cup {0}) = k
<1> DEFINE S == (1 .. k) \cup {0}
<1>1. k \in S /\ \A y \in S : k >= y
  OBVIOUS
<1>2. \A x \in S : (\A y \in S : x >= y) => x = k
  BY <1>1
<1> QED BY <1>1, <1>2 DEF Max

LEMMA MaxOfTwo ==
    ASSUME NEW a \in Nat, NEW b \in Nat
    PROVE  Max({a, b}) \in {a, b} /\ Max({a, b}) >= a /\ Max({a, b}) >= b
<1> DEFINE x == IF a >= b THEN a ELSE b
<1>1. x \in {a, b} /\ \A y \in {a, b} : x >= y
  OBVIOUS
<1> QED BY <1>1 DEF Max

LEMMA SizeOfInterval ==
    ASSUME NEW a \in Nat, NEW b \in Nat
    PROVE  Cardinality((a + 1) .. b) = IF b >= a THEN b - a ELSE 0
<1> DEFINE c == a + 1
<1>1. c \in Int /\ b \in Int
  OBVIOUS
<1>2. Cardinality(c .. b) = IF c > b THEN 0 ELSE b - c + 1
  <2> HIDE DEF c
  <2> QED BY <1>1, FS_Interval
<1> QED BY <1>2

LEMMA SizeOfFirst ==
    ASSUME NEW k \in Nat
    PROVE  Cardinality(1 .. k) = k
<1>1. Cardinality(1 .. k) = IF 1 > k THEN 0 ELSE k - 1 + 1
  BY FS_Interval
<1> QED BY <1>1

\* The needed slots are those that follow the ones in use.
LEMMA NeededSlotsFollow ==
    ASSUME NEW k \in 0 .. MaxCpus, NEW n \in 1 .. MaxCpus - k
    PROVE  NeededSlots((1 .. MaxCpus) \ (1 .. k), n) = (k + 1) .. (k + n)
<1> USE HotplugAssumption
<1>1. (1 .. MaxCpus) \ (1 .. k) = (k + 1) .. MaxCpus
  OBVIOUS
<1>2. ASSUME NEW c \in (k + 1) .. MaxCpus
      PROVE  Cardinality({d \in (k + 1) .. MaxCpus : d < c}) < n <=> c <= k + n
  <2>1. {d \in (k + 1) .. MaxCpus : d < c} = (k + 1) .. (c - 1)
    OBVIOUS
  <2>2. Cardinality((k + 1) .. (c - 1)) = (c - 1) - k
    <3>1. c - 1 \in Nat /\ k \in Nat /\ c - 1 >= k
      OBVIOUS
    <3> DEFINE b == c - 1
    <3> HIDE DEF b
    <3>2. b \in Nat /\ b >= k
      BY <3>1 DEF b
    <3>3. Cardinality((k + 1) .. b) = b - k
      BY <3>1, <3>2, SizeOfInterval
    <3> QED BY <3>3 DEF b
  <2>3. c \in Int /\ k \in Int /\ n \in Int
    OBVIOUS
  <2> DEFINE m == Cardinality({d \in (k + 1) .. MaxCpus : d < c})
  <2>4. m = (c - 1) - k
    BY <2>1, <2>2
  <2>5. m < n <=> c <= k + n
    <3> HIDE DEF m
    <3> QED BY <2>3, <2>4
  <2> QED BY <2>5
<1> DEFINE A == (1 .. MaxCpus) \ (1 .. k)
<1>3. NeededSlots(A, n) =
         {c \in (k + 1) .. MaxCpus : Cardinality({d \in (k + 1) .. MaxCpus : d < c}) < n}
  <2>1. A = (k + 1) .. MaxCpus
    BY <1>1
  <2> HIDE DEF A
  <2> QED BY <2>1 DEF NeededSlots
<1>4. NeededSlots(A, n) = {c \in (k + 1) .. MaxCpus : c <= k + n}
  <2> HIDE DEF A
  <2> QED BY <1>2, <1>3
<1>5. {c \in (k + 1) .. MaxCpus : c <= k + n} = (k + 1) .. (k + n)
  OBVIOUS
<1> QED BY <1>4, <1>5

------------------------------------------------------------------------------
(* How a call goes on, caller by caller.                                   *)

Locals == [cpus : SUBSET (1 .. MaxCpus), size : 0 .. MaxMemory, number : Numbers \cup {0}]

OthersStay(u) ==
    \A w \in Users \ {u} : /\ pc'[w] = pc[w] /\ want'[w] = want[w]
                           /\ local'[w] = local[w] /\ outcome'[w] = outcome[w]

GoesOn(u, l, locals) ==
    /\ OthersStay(u) /\ UNCHANGED <<want, outcome, clean, faults, histVars>>
    /\ pc'[u] = l /\ local'[u] = locals

Returns(u, how) ==
    /\ OthersStay(u) /\ UNCHANGED <<want, clean, faults, histVars>>
    /\ pc'[u] = "idle" /\ local'[u] = NoLocals /\ outcome'[u] = how

Breaks(u) ==
    /\ OthersStay(u) /\ UNCHANGED <<want, histVars>>
    /\ clean' = clean \ {u} /\ faults' \in 1 .. MaxFaults
    /\ \/ pc[u] = "dimm" /\ pc'[u] = "undo" /\ UNCHANGED <<local, outcome>>
       \/ pc[u] # "dimm" /\ pc'[u] = "idle" /\ local'[u] = NoLocals /\ outcome'[u] = "failed"

LEMMA GotoFacts ==
    ASSUME TypeOK, NEW u \in Users, NEW l, NEW locals, Goto(u, l, locals),
           UNCHANGED <<want, histVars>>
    PROVE  GoesOn(u, l, locals)
BY DEF TypeOK, Goto, GoesOn, OthersStay

LEMMA ReturnFacts ==
    ASSUME TypeOK, NEW u \in Users, NEW how, Return(u, how), UNCHANGED <<want, histVars>>
    PROVE  Returns(u, how)
BY DEF TypeOK, Return, Returns, OthersStay

LEMMA FaultFacts ==
    ASSUME TypeOK, NEW u \in Users, Fault(u), UNCHANGED <<want, histVars>>
    PROVE  Breaks(u)
<1>1. faults' \in 1 .. MaxFaults
  BY HotplugAssumption DEF TypeOK, Fault
<1> QED BY <1>1 DEF TypeOK, Fault, Breaks, OthersStay

\* The beginning of a call.
Begins(u, l, what) ==
    /\ pc[u] = "idle" /\ OthersStay(u) /\ UNCHANGED <<qemuVars, local, faults>>
    /\ pc'[u] = l /\ want'[u] = what /\ outcome'[u] = "none"

LEMMA SetCPUsFacts ==
    ASSUME TypeOK, NEW u \in Users, NEW count \in 1 .. MaxCpus + 1, SetCPUs(u, count)
    PROVE  /\ Begins(u, "slots", count) /\ clean' = clean \ {u}
           /\ mostCpus' \in 1 .. MaxCpus /\ mostCpus' >= mostCpus
           /\ count <= MaxCpus => count <= mostCpus'
           /\ UNCHANGED <<mostMemory, overlap>>
<1>1. Begins(u, "slots", count)
  BY DEF TypeOK, SetCPUs, Begins, OthersStay
<1>2. mostCpus \in 1 .. MaxCpus /\ MaxCpus \in Nat
  BY HotplugAssumption DEF TypeOK
<1>3. CASE count <= MaxCpus
  <2>1. mostCpus' = Max({mostCpus, count})
    BY <1>3 DEF SetCPUs
  <2>2. Max({mostCpus, count}) \in {mostCpus, count}
        /\ Max({mostCpus, count}) >= mostCpus /\ Max({mostCpus, count}) >= count
    BY <1>2, MaxOfTwo
  <2> QED BY <1>1, <1>2, <1>3, <2>1, <2>2 DEF SetCPUs
<1>4. CASE ~(count <= MaxCpus)
  BY <1>1, <1>2, <1>4 DEF SetCPUs
<1> QED BY <1>3, <1>4

LEMMA SetMemoryFacts ==
    ASSUME TypeOK, NEW u \in Users, NEW bytes \in 1 .. MaxMemory + 1, SetMemory(u, bytes)
    PROVE  /\ Begins(u, "summary", bytes)
           /\ \/ /\ \A w \in Users \ {u} : ~InMemory(w)
                 /\ clean' = clean \cup {u} /\ UNCHANGED overlap
              \/ /\ overlap' /\ u \notin clean' /\ clean' \subseteq clean
                 /\ \A w \in clean' : ~InMemory(w)
           /\ mostMemory' \in 1 .. MaxMemory /\ mostMemory' >= mostMemory
           /\ bytes <= MaxMemory => bytes <= mostMemory'
           /\ UNCHANGED mostCpus
<1>1. Begins(u, "summary", bytes)
  BY DEF TypeOK, SetMemory, Begins, OthersStay
<1>2. mostMemory \in 1 .. MaxMemory /\ MaxMemory \in Nat
  BY HotplugAssumption DEF TypeOK
<1>3. /\ mostMemory' \in 1 .. MaxMemory /\ mostMemory' >= mostMemory
      /\ bytes <= MaxMemory => bytes <= mostMemory'
  <2>1. CASE bytes <= MaxMemory
    <3>1. mostMemory' = Max({mostMemory, bytes})
      BY <2>1 DEF SetMemory
    <3>2. Max({mostMemory, bytes}) \in {mostMemory, bytes}
          /\ Max({mostMemory, bytes}) >= mostMemory /\ Max({mostMemory, bytes}) >= bytes
      BY <1>2, MaxOfTwo
    <3> QED BY <1>2, <2>1, <3>1, <3>2
  <2>2. CASE ~(bytes <= MaxMemory)
    BY <1>2, <2>2 DEF SetMemory
  <2> QED BY <2>1, <2>2
<1>4. CASE Overlapping(u) = {}
  <2>1. \A w \in Users \ {u} : ~InMemory(w)
    BY <1>4 DEF Overlapping, InMemory
  <2>2. clean' = clean \cup {u} /\ UNCHANGED overlap
    BY <1>4 DEF SetMemory, TypeOK
  <2> QED BY <1>1, <1>3, <2>1, <2>2 DEF SetMemory
<1>5. CASE Overlapping(u) # {}
  <2>1. overlap' /\ clean' = clean \ (Overlapping(u) \cup {u})
    BY <1>5 DEF SetMemory
  <2>2. \A w \in clean' : ~InMemory(w)
    BY <2>1 DEF Overlapping, InMemory, TypeOK
  <2> QED BY <1>1, <1>3, <2>1, <2>2 DEF SetMemory
<1> QED BY <1>4, <1>5

------------------------------------------------------------------------------
(* The commands, when the first k CPU slots and the first k DIMMs are used. *)

LEMMA QueryHotpluggableCPUsFacts ==
    ASSUME TypeOK, NEW k \in 1 .. MaxCpus, CpusAre(k), NEW u \in Users,
           QueryHotpluggableCPUs(u)
    PROVE  /\ pc[u] = "slots" /\ UNCHANGED qemuVars
           /\ \/ want[u] = k /\ Returns(u, "cpus")
              \/ Returns(u, "restart")
              \/ /\ want[u] \in k + 1 .. MaxCpus
                 /\ GoesOn(u, "plug", [cpus |-> k + 1 .. want[u], size |-> 0, number |-> 0])
<1> USE HotplugAssumption
<1> DEFINE available == (1 .. MaxCpus) \ plugged
           needed    == want[u] - Cardinality(plugged)
<1>1. pc[u] = "slots" /\ UNCHANGED <<qemuVars, want, histVars>>
  BY DEF QueryHotpluggableCPUs
<1>2. want[u] \in Nat /\ k \in Nat /\ MaxCpus \in Nat
  BY DEF TypeOK
<1>3. Cardinality(plugged) = k
  BY <1>2, SizeOfFirst DEF CpusAre
<1>4. Cardinality(available) = MaxCpus - k
  <2>1. available = (k + 1) .. MaxCpus
    BY <1>2 DEF CpusAre
  <2>2. MaxCpus >= k
    OBVIOUS
  <2>3. Cardinality((k + 1) .. MaxCpus) = MaxCpus - k
    BY <1>2, <2>2, SizeOfInterval
  <2> QED BY <2>1, <2>3
<1>5. needed = want[u] - k
  BY <1>3
<1>6. CASE needed = 0
  <2>1. Return(u, "cpus")
    BY <1>6 DEF QueryHotpluggableCPUs
  <2> QED BY <1>1, <1>2, <1>5, <1>6, <2>1, ReturnFacts
<1>7. CASE needed < 0 \/ needed > Cardinality(available)
  <2>1. Return(u, "restart")
    <3> HIDE DEF needed
    <3>1. needed # 0
      BY <1>2, <1>4, <1>5, <1>7
    <3> QED BY <1>7, <3>1 DEF QueryHotpluggableCPUs, needed
  <2> QED BY <1>1, <2>1, ReturnFacts
<1>8. CASE ~(needed = 0) /\ ~(needed < 0 \/ needed > Cardinality(available))
  <2>1. Goto(u, "plug", [NoLocals EXCEPT !.cpus = NeededSlots(available, needed)])
    BY <1>8 DEF QueryHotpluggableCPUs
  <2>2. needed \in 1 .. MaxCpus - k /\ k + needed = want[u]
    <3> HIDE DEF needed
    <3> QED BY <1>2, <1>4, <1>5, <1>8
  <2>3. NeededSlots(available, needed) = k + 1 .. want[u]
    <3>1. available = (1 .. MaxCpus) \ (1 .. k)
      BY DEF CpusAre
    <3> HIDE DEF available, needed
    <3> QED BY <1>2, <2>2, <3>1, NeededSlotsFollow
  <2>4. [NoLocals EXCEPT !.cpus = NeededSlots(available, needed)]
          = [cpus |-> k + 1 .. want[u], size |-> 0, number |-> 0]
    <3> HIDE DEF available, needed
    <3> QED BY <2>3 DEF NoLocals
  <2>5. want[u] \in k + 1 .. MaxCpus
    <3> HIDE DEF needed
    <3> QED BY <1>2, <2>2
  <2> QED BY <1>1, <2>1, <2>4, <2>5, GotoFacts
<1> QED BY <1>6, <1>7, <1>8

LEMMA PlugCpuFacts ==
    ASSUME TypeOK, NEW k \in 1 .. MaxCpus, CpusAre(k), NEW u \in Users, PlugCpu(u)
    PROVE  /\ pc[u] = "plug" /\ UNCHANGED <<memory, backend, dimms, want, histVars>>
           /\ \/ UNCHANGED plugged /\ Returns(u, "failed")
              \/ /\ k + 1 \in 1 .. want[u] /\ plugged' = 1 .. k + 1
                 /\ \/ want[u] = k + 1 /\ Returns(u, "cpus")
                    \/ /\ k + 2 \in 1 .. want[u]
                       /\ GoesOn(u, "plug", [cpus |-> k + 2 .. want[u],
                                             size |-> 0, number |-> 0])
                    \/ Breaks(u)
<1> USE HotplugAssumption
<1>1. pc[u] = "plug" /\ UNCHANGED <<memory, backend, dimms, want, histVars>>
  BY DEF PlugCpu
<1>2. PICK l \in 1 .. want[u] : l <= k + 1 /\ local[u].cpus = l .. want[u]
  BY <1>1 DEF CpusAre
<1>3. want[u] \in Nat /\ k \in Nat /\ l \in Nat /\ l <= want[u]
  BY <1>2 DEF TypeOK
<1>4. Min(local[u].cpus) = l
  BY <1>2, <1>3, MinOfInterval
<1>5. CASE l \in plugged
  <2>1. Return(u, "failed") /\ plugged' = plugged \cup {l}
    BY <1>4, <1>5 DEF PlugCpu
  <2>2. plugged' = plugged
    BY <1>5, <2>1
  <2> QED BY <1>1, <2>1, <2>2, ReturnFacts
<1>6. CASE l \notin plugged
  <2>1. l = k + 1
    BY <1>2, <1>3, <1>6 DEF CpusAre
  <2> DEFINE rest == local[u].cpus \ {l}
  <2>2. /\ plugged' = plugged \cup {l}
        /\ \/ rest = {} /\ Return(u, "cpus")
           \/ rest # {} /\ Goto(u, "plug", [NoLocals EXCEPT !.cpus = rest])
           \/ Fault(u)
    BY <1>4, <1>6 DEF PlugCpu, Then
  <2>3. plugged' = 1 .. k + 1 /\ k + 1 \in 1 .. want[u]
    BY <1>3, <2>1, <2>2 DEF CpusAre
  <2>4. rest = k + 2 .. want[u]
    BY <1>2, <1>3, <2>1
  <2>5. CASE rest = {} /\ Return(u, "cpus")
    <3>1. want[u] = k + 1
      BY <1>3, <2>1, <2>4, <2>5
    <3> QED BY <1>1, <2>3, <2>5, <3>1, ReturnFacts
  <2>6. CASE rest # {} /\ Goto(u, "plug", [NoLocals EXCEPT !.cpus = rest])
    <3>1. k + 2 \in 1 .. want[u]
      BY <1>3, <2>4, <2>6
    <3>2. [NoLocals EXCEPT !.cpus = rest]
            = [cpus |-> k + 2 .. want[u], size |-> 0, number |-> 0]
      <4> HIDE DEF rest
      <4> QED BY <2>4 DEF NoLocals
    <3> QED BY <1>1, <2>3, <2>6, <3>1, <3>2, GotoFacts
  <2>7. CASE Fault(u)
    BY <1>1, <2>3, <2>7, FaultFacts
  <2> HIDE DEF rest
  <2> QED BY <2>2, <2>5, <2>6, <2>7
<1> QED BY <1>5, <1>6

LEMMA QueryMemorySummaryFacts ==
    ASSUME TypeOK, NEW u \in Users, QueryMemorySummary(u)
    PROVE  /\ pc[u] = "summary" /\ UNCHANGED qemuVars
           /\ \/ want[u] = memory /\ Returns(u, "memory")
              \/ Returns(u, "restart")
              \/ /\ want[u] > memory
                 /\ \E locals : /\ GoesOn(u, "devices", locals)
                                /\ locals.size = want[u] - memory
<1>1. pc[u] = "summary" /\ UNCHANGED <<qemuVars, want, histVars>>
  BY DEF QueryMemorySummary
<1>2. want[u] \in Nat /\ memory \in Nat
  BY HotplugAssumption DEF TypeOK
<1>3. CASE want[u] = memory
  <2>1. Return(u, "memory")
    BY <1>2, <1>3 DEF QueryMemorySummary
  <2> QED BY <1>1, <1>3, <2>1, ReturnFacts
<1>4. CASE want[u] < memory
  <2>1. Return(u, "restart")
    BY <1>2, <1>4 DEF QueryMemorySummary
  <2> QED BY <1>1, <2>1, ReturnFacts
<1>5. CASE want[u] > memory
  <2>1. Goto(u, "devices", [NoLocals EXCEPT !.size = want[u] - memory])
    BY <1>2, <1>5 DEF QueryMemorySummary
  <2>2. [NoLocals EXCEPT !.size = want[u] - memory].size = want[u] - memory
    BY DEF NoLocals
  <2> QED BY <1>1, <1>5, <2>1, <2>2, GotoFacts
<1> QED BY <1>2, <1>3, <1>4, <1>5

LEMMA QueryMemoryDevicesFacts ==
    ASSUME TypeOK, NEW k \in 0 .. Slots, DimmsAre(k), NEW u \in Users, QueryMemoryDevices(u)
    PROVE  /\ pc[u] = "devices" /\ UNCHANGED qemuVars
           /\ \E locals : /\ GoesOn(u, "backend", locals)
                          /\ locals.size = local[u].size /\ locals.number = k + 1
<1>1. pc[u] = "devices" /\ UNCHANGED <<qemuVars, want, histVars>>
  BY DEF QueryMemoryDevices
<1>2. Max(dimms \cup {0}) = k
  BY HotplugAssumption, HighestNumber DEF DimmsAre
<1>3. local[u] \in Locals
  BY DEF TypeOK, Locals
<1>4. /\ [local[u] EXCEPT !.number = k + 1].size = local[u].size
      /\ [local[u] EXCEPT !.number = k + 1].number = k + 1
  BY <1>3 DEF Locals
<1> QED BY <1>1, <1>2, <1>4, GotoFacts DEF QueryMemoryDevices

\* The number of the DIMM that a call adds.
LEMMA NumberFacts ==
    ASSUME TypeOK, DimmInv, NEW u \in Users, pc[u] \in {"backend", "dimm", "undo"}
    PROVE  local[u].number \in Numbers
BY HotplugAssumption DEF DimmInv, DimmsAre, Numbers

LEMMA AddMemoryBackendFacts ==
    ASSUME TypeOK, DimmInv, NEW u \in Users, AddMemoryBackend(u), NEW n, n = local[u].number
    PROVE  /\ pc[u] = "backend" /\ UNCHANGED <<plugged, memory, dimms, want, histVars>>
           /\ n \in Numbers
           /\ \/ backend[n] > 0 /\ UNCHANGED backend /\ Returns(u, "failed")
              \/ /\ backend[n] = 0 /\ backend'[n] = local[u].size
                 /\ \A m \in Numbers \ {n} : backend'[m] = backend[m]
                 /\ backend' \in [Numbers -> 0 .. MaxMemory]
                 /\ GoesOn(u, "dimm", local[u]) \/ Breaks(u)
<1>1. pc[u] = "backend" /\ UNCHANGED <<plugged, memory, dimms, want, histVars>>
  BY DEF AddMemoryBackend
<1>2. n \in Numbers /\ backend[n] \in Nat /\ local[u].size \in 0 .. MaxMemory
  BY <1>1, NumberFacts, HotplugAssumption DEF TypeOK
<1>3. CASE backend[n] > 0
  BY <1>1, <1>2, <1>3, ReturnFacts DEF AddMemoryBackend
<1>4. CASE ~(backend[n] > 0)
  <2>1. backend' = [backend EXCEPT ![n] = local[u].size]
    BY <1>4 DEF AddMemoryBackend
  <2>2. Goto(u, "dimm", local[u]) \/ Fault(u)
    BY <1>4 DEF AddMemoryBackend, Then
  <2>3. GoesOn(u, "dimm", local[u]) \/ Breaks(u)
    BY <1>1, <2>2, GotoFacts, FaultFacts
  <2>4. /\ backend[n] = 0 /\ backend'[n] = local[u].size
        /\ \A m \in Numbers \ {n} : backend'[m] = backend[m]
        /\ backend' \in [Numbers -> 0 .. MaxMemory]
    BY <1>2, <1>4, <2>1 DEF TypeOK
  <2> QED BY <1>1, <1>2, <2>3, <2>4
<1> QED BY <1>3, <1>4

LEMMA PlugDimmFacts ==
    ASSUME TypeOK, BackendInv, NEW k \in 0 .. Slots, DimmsAre(k), NEW u \in Users, PlugDimm(u)
    PROVE  /\ pc[u] = "dimm" /\ UNCHANGED <<plugged, backend, want, histVars>>
           /\ local[u].number = k + 1
           /\ \/ /\ k < Slots /\ dimms' = 1 .. k + 1
                 /\ memory' = memory + local[u].size /\ memory' <= MaxMemory
                 /\ Returns(u, "memory") \/ Breaks(u)
              \/ /\ k = Slots \/ memory + local[u].size > MaxMemory
                 /\ UNCHANGED <<memory, dimms>> /\ GoesOn(u, "undo", local[u])
<1> USE HotplugAssumption
<1> DEFINE n == local[u].number
<1>1. pc[u] = "dimm" /\ UNCHANGED <<plugged, backend, want, histVars>>
  BY DEF PlugDimm
<1>2. backend[n] > 0 /\ n \notin dimms /\ backend[n] = local[u].size
  BY <1>1 DEF BackendInv, HasBackend
<1>3. k \in Nat /\ n = k + 1 /\ Cardinality(dimms) = k
  BY <1>1, <1>2, SizeOfFirst DEF DimmsAre
<1>4. local[u].size \in Nat /\ memory \in Nat /\ MaxMemory \in Nat /\ Slots \in Nat
  BY DEF TypeOK
<1>5. CASE Room(n)
  <2>1. /\ dimms' = dimms \cup {n} /\ memory' = memory + local[u].size
        /\ Return(u, "memory") \/ Fault(u)
    BY <1>2, <1>5 DEF PlugDimm, Then
  <2>2. k < Slots /\ memory + local[u].size <= MaxMemory
    BY <1>2, <1>3, <1>5 DEF Room
  <2>3. dimms' = 1 .. k + 1
    BY <1>3, <2>1 DEF DimmsAre
  <2>4. Returns(u, "memory") \/ Breaks(u)
    BY <1>1, <2>1, ReturnFacts, FaultFacts
  <2> QED BY <1>1, <1>3, <2>1, <2>2, <2>3, <2>4
<1>6. CASE ~Room(n)
  <2>1. Goto(u, "undo", local[u]) /\ UNCHANGED <<memory, dimms>>
    BY <1>6 DEF PlugDimm
  <2>2. k = Slots \/ memory + local[u].size > MaxMemory
    BY <1>2, <1>3, <1>4, <1>6 DEF Room
  <2> QED BY <1>1, <1>3, <2>1, <2>2, GotoFacts
<1> QED BY <1>5, <1>6

LEMMA RemoveMemoryBackendFacts ==
    ASSUME TypeOK, DimmInv, NEW u \in Users, RemoveMemoryBackend(u), NEW n, n = local[u].number
    PROVE  /\ pc[u] = "undo" /\ UNCHANGED <<plugged, memory, dimms>> /\ n \in Numbers
           /\ backend'[n] = IF n \in dimms THEN backend[n] ELSE 0
           /\ \A m \in Numbers \ {n} : backend'[m] = backend[m]
           /\ backend' \in [Numbers -> 0 .. MaxMemory]
           /\ Returns(u, "failed")
<1>1. pc[u] = "undo" /\ UNCHANGED <<plugged, memory, dimms, want, histVars>>
  BY DEF RemoveMemoryBackend
<1>2. n \in Numbers
  BY <1>1, NumberFacts
<1>3. Returns(u, "failed")
  BY <1>1, ReturnFacts DEF RemoveMemoryBackend
<1> QED BY <1>1, <1>2, <1>3, HotplugAssumption DEF RemoveMemoryBackend, TypeOK

LEMMA CommandFailsFacts ==
    ASSUME TypeOK, NEW u \in Users, CommandFails(u)
    PROVE  pc[u] # "idle" /\ UNCHANGED qemuVars /\ Breaks(u)
BY FaultFacts DEF CommandFails

------------------------------------------------------------------------------
(* Types.                                                                  *)

CallTypes ==
    /\ pc \in [Users -> {"idle", "slots", "plug"} \cup MemoryCalls]
    /\ want \in [Users -> 0 .. MaxCpus + MaxMemory]
    /\ local \in [Users -> Locals]
    /\ outcome \in [Users -> {"none", "cpus", "memory", "restart", "failed"}]
    /\ clean \in SUBSET Users
    /\ faults \in 0 .. MaxFaults

QemuTypes ==
    /\ plugged \in SUBSET (1 .. MaxCpus)
    /\ memory \in 1 .. MaxMemory
    /\ backend \in [Numbers -> 0 .. MaxMemory]
    /\ dimms \in SUBSET {n \in Numbers : backend[n] > 0}

HistTypes ==
    /\ mostCpus \in 1 .. MaxCpus
    /\ mostMemory \in 1 .. MaxMemory
    /\ overlap \in BOOLEAN

LEMMA TypesSplit == TypeOK <=> CallTypes /\ QemuTypes /\ HistTypes
BY DEF TypeOK, CallTypes, QemuTypes, HistTypes, Locals

LEMMA GotoTypes ==
    ASSUME CallTypes, NEW u \in Users, NEW l \in {"plug"} \cup MemoryCalls,
           NEW locals \in Locals, Goto(u, l, locals), UNCHANGED want
    PROVE  CallTypes'
BY DEF CallTypes, Goto

LEMMA ReturnTypes ==
    ASSUME CallTypes, NEW u \in Users, NEW how \in {"cpus", "memory", "restart", "failed"},
           Return(u, how), UNCHANGED want
    PROVE  CallTypes'
<1>1. NoLocals \in Locals
  BY HotplugAssumption DEF NoLocals, Locals
<1> QED BY <1>1 DEF CallTypes, Return

LEMMA FaultTypes ==
    ASSUME CallTypes, NEW u \in Users, Fault(u), UNCHANGED want
    PROVE  CallTypes'
<1>1. NoLocals \in Locals
  BY HotplugAssumption DEF NoLocals, Locals
<1>2. faults' \in 0 .. MaxFaults
  BY HotplugAssumption DEF CallTypes, Fault
<1>3. clean' \in SUBSET Users
  BY DEF CallTypes, Fault
<1>4. CASE pc[u] = "dimm"
  BY <1>2, <1>3, <1>4 DEF CallTypes, Fault, MemoryCalls
<1>5. CASE pc[u] # "dimm"
  BY <1>1, <1>2, <1>3, <1>5 DEF CallTypes, Fault
<1> QED BY <1>4, <1>5

LEMMA BeginTypes ==
    ASSUME TypeOK, NEW u \in Users,
           \/ \E count \in 1 .. MaxCpus + 1 : SetCPUs(u, count)
           \/ \E bytes \in 1 .. MaxMemory + 1 : SetMemory(u, bytes)
    PROVE  CallTypes' /\ QemuTypes' /\ HistTypes'
<1> USE HotplugAssumption
<1>0. CallTypes /\ QemuTypes /\ HistTypes
  BY TypesSplit
<1>1. CASE \E count \in 1 .. MaxCpus + 1 : SetCPUs(u, count)
  <2>1. PICK count \in 1 .. MaxCpus + 1 : SetCPUs(u, count)
    BY <1>1
  <2>2. count \in 0 .. MaxCpus + MaxMemory
    OBVIOUS
  <2>3. CallTypes'
    BY <1>0, <2>1, <2>2 DEF CallTypes, SetCPUs
  <2>4. QemuTypes' /\ HistTypes'
    BY <1>0, <2>1, SetCPUsFacts DEF QemuTypes, HistTypes, Begins, qemuVars
  <2> QED BY <2>3, <2>4
<1>2. CASE \E bytes \in 1 .. MaxMemory + 1 : SetMemory(u, bytes)
  <2>1. PICK bytes \in 1 .. MaxMemory + 1 : SetMemory(u, bytes)
    BY <1>2
  <2>2. bytes \in 0 .. MaxCpus + MaxMemory
    OBVIOUS
  <2>3. clean' \in SUBSET Users
    BY <2>1 DEF SetMemory, TypeOK
  <2>4. CallTypes'
    BY <1>0, <2>1, <2>2, <2>3 DEF CallTypes, SetMemory, MemoryCalls
  <2>5. QemuTypes' /\ mostCpus' \in 1 .. MaxCpus /\ mostMemory' \in 1 .. MaxMemory
    BY <1>0, <2>1, SetMemoryFacts DEF QemuTypes, HistTypes, Begins, qemuVars
  <2>6. overlap' \in BOOLEAN
    BY <2>1 DEF SetMemory
  <2> QED BY <2>4, <2>5, <2>6 DEF HistTypes
<1> QED BY <1>1, <1>2

\* A command that goes on, if it does, with the locals it had.
LEMMA CommandTypes ==
    ASSUME CallTypes, NEW u \in Users, UNCHANGED want,
           \/ \E l \in MemoryCalls : Goto(u, l, local[u])
           \/ \E how \in {"cpus", "memory", "restart", "failed"} : Return(u, how)
           \/ Fault(u)
    PROVE  CallTypes'
<1>1. local[u] \in Locals
  BY DEF CallTypes
<1> QED BY <1>1, GotoTypes, ReturnTypes, FaultTypes

LEMMA TypeOKStep ==
    ASSUME TypeOK, CpuInv, DimmInv, BackendInv, SizeInv, [Next]_vars
    PROVE  TypeOK'
<1> USE HotplugAssumption
<1>0. CallTypes /\ QemuTypes /\ HistTypes
  BY TypesSplit
<1>a. PICK k \in 1 .. MaxCpus : CpusAre(k)
  BY DEF CpuInv
<1>b. PICK d \in 0 .. Slots : DimmsAre(d)
  BY DEF DimmInv
<1>1. ASSUME NEW u \in Users, QueryHotpluggableCPUs(u)
      PROVE  CallTypes' /\ QemuTypes' /\ HistTypes'
  <2>1. QemuTypes' /\ HistTypes'
    BY <1>0, <1>1 DEF QueryHotpluggableCPUs, QemuTypes, HistTypes, qemuVars, histVars
  <2>2. [NoLocals EXCEPT !.cpus = NeededSlots((1 .. MaxCpus) \ plugged,
                                              want[u] - Cardinality(plugged))] \in Locals
    <3>1. \A S \in SUBSET (1 .. MaxCpus) : [NoLocals EXCEPT !.cpus = S] \in Locals
      BY DEF NoLocals, Locals
    <3>2. \A n : NeededSlots((1 .. MaxCpus) \ plugged, n) \subseteq 1 .. MaxCpus
      BY DEF NeededSlots
    <3> QED BY <3>1, <3>2
  <2>3. CallTypes'
    BY <1>0, <1>1, <2>2, GotoTypes, ReturnTypes DEF QueryHotpluggableCPUs
  <2> QED BY <2>1, <2>3
<1>2. ASSUME NEW u \in Users, PlugCpu(u) PROVE CallTypes' /\ QemuTypes' /\ HistTypes'
  <2>1. plugged' = plugged \/ (k + 1 \in 1 .. want[u] /\ plugged' = 1 .. k + 1)
    BY <1>2, <1>a, PlugCpuFacts
  <2>2. pc[u] = "plug" /\ want[u] <= mostCpus
    BY <1>2, <1>a DEF CpusAre, PlugCpu
  <2>3. plugged' \subseteq 1 .. MaxCpus
    <3>1. want[u] \in Nat /\ mostCpus \in 1 .. MaxCpus /\ plugged \subseteq 1 .. MaxCpus
      BY DEF TypeOK
    <3>2. ASSUME k + 1 \in 1 .. want[u] PROVE 1 .. k + 1 \subseteq 1 .. MaxCpus
      <4>1. k + 1 <= MaxCpus
        BY <2>2, <3>1, <3>2
      <4> QED BY <4>1
    <3> QED BY <2>1, <3>1, <3>2
  <2>4. QemuTypes' /\ HistTypes'
    BY <1>0, <1>2, <2>3 DEF PlugCpu, QemuTypes, HistTypes, histVars
  <2>5. \A S \in SUBSET local[u].cpus : [NoLocals EXCEPT !.cpus = S] \in Locals
    BY <1>0 DEF CallTypes, Locals, NoLocals
  <2>6. CallTypes'
    BY <1>0, <1>2, <2>5, GotoTypes, ReturnTypes, FaultTypes DEF PlugCpu, Then
  <2> QED BY <2>4, <2>6
<1>3. ASSUME NEW u \in Users, QueryMemorySummary(u)
      PROVE  CallTypes' /\ QemuTypes' /\ HistTypes'
  <2>1. QemuTypes' /\ HistTypes'
    BY <1>0, <1>3 DEF QueryMemorySummary, QemuTypes, HistTypes, qemuVars, histVars
  <2>2. want[u] \in Nat /\ memory \in 1 .. MaxMemory
    BY DEF TypeOK
  <2>3. CASE want[u] = memory \/ want[u] < memory
    BY <1>0, <1>3, <2>1, <2>2, <2>3, ReturnTypes DEF QueryMemorySummary
  <2>4. CASE want[u] > memory
    <3>1. Goto(u, "devices", [NoLocals EXCEPT !.size = want[u] - memory])
      BY <1>3, <2>2, <2>4 DEF QueryMemorySummary
    <3>2. want[u] - memory \in 0 .. MaxMemory
      <4>1. want[u] <= MaxMemory + 1
        BY <1>3 DEF QueryMemorySummary, SizeInv
      <4> QED BY <2>2, <2>4, <4>1
    <3>3. \A i \in 0 .. MaxMemory : [NoLocals EXCEPT !.size = i] \in Locals
      BY DEF NoLocals, Locals
    <3>4. [NoLocals EXCEPT !.size = want[u] - memory] \in Locals
      BY <3>2, <3>3
    <3>5. CallTypes'
      BY <1>0, <1>3, <3>1, <3>4, GotoTypes DEF QueryMemorySummary, MemoryCalls
    <3> QED BY <2>1, <3>5
  <2> QED BY <2>2, <2>3, <2>4
<1>4. ASSUME NEW u \in Users, QueryMemoryDevices(u)
      PROVE  CallTypes' /\ QemuTypes' /\ HistTypes'
  <2>1. QemuTypes' /\ HistTypes'
    BY <1>0, <1>4 DEF QueryMemoryDevices, QemuTypes, HistTypes, qemuVars, histVars
  <2>2. Max(dimms \cup {0}) + 1 \in Numbers
    BY <1>b, HighestNumber DEF DimmsAre, Numbers
  <2>3. [local[u] EXCEPT !.number = Max(dimms \cup {0}) + 1] \in Locals
    BY <1>0, <2>2 DEF CallTypes, Locals
  <2>4. CallTypes'
    BY <1>0, <1>4, <2>3, GotoTypes DEF QueryMemoryDevices, MemoryCalls
  <2> QED BY <2>1, <2>4
<1>5. ASSUME NEW u \in Users, AddMemoryBackend(u)
      PROVE  CallTypes' /\ QemuTypes' /\ HistTypes'
  <2>1. PICK n : n = local[u].number
    OBVIOUS
  <2>2. /\ backend' \in [Numbers -> 0 .. MaxMemory]
        /\ \A m \in Numbers : backend[m] > 0 => backend'[m] = backend[m]
    BY <1>0, <1>5, <2>1, AddMemoryBackendFacts DEF QemuTypes
  <2>3. QemuTypes' /\ HistTypes'
    BY <1>0, <1>5, <2>2 DEF AddMemoryBackend, QemuTypes, HistTypes, histVars
  <2>4. CallTypes'
    BY <1>0, <1>5, CommandTypes DEF AddMemoryBackend, Then, MemoryCalls
  <2> QED BY <2>3, <2>4
<1>6. ASSUME NEW u \in Users, PlugDimm(u) PROVE CallTypes' /\ QemuTypes' /\ HistTypes'
  <2>1. local[u].number \in Numbers /\ local[u].size \in Nat
    BY <1>6, NumberFacts DEF PlugDimm, TypeOK
  <2>2. backend[local[u].number] > 0
    BY <1>6 DEF PlugDimm, BackendInv, HasBackend
  <2>3. dimms' \subseteq dimms \cup {local[u].number}
    BY <1>6 DEF PlugDimm
  <2>4. memory' \in 1 .. MaxMemory
    BY <1>b, <1>6, <2>1, PlugDimmFacts DEF TypeOK
  <2>5. UNCHANGED <<plugged, backend, mostCpus, mostMemory, overlap>>
    BY <1>6 DEF PlugDimm, histVars
  <2>6. QemuTypes' /\ HistTypes'
    BY <1>0, <2>1, <2>2, <2>3, <2>4, <2>5 DEF QemuTypes, HistTypes
  <2>7. CallTypes'
    BY <1>0, <1>6, CommandTypes DEF PlugDimm, Then, MemoryCalls
  <2> QED BY <2>6, <2>7
<1>7. ASSUME NEW u \in Users, RemoveMemoryBackend(u)
      PROVE  CallTypes' /\ QemuTypes' /\ HistTypes'
  <2>1. PICK n : n = local[u].number
    OBVIOUS
  <2>2. /\ backend' \in [Numbers -> 0 .. MaxMemory]
        /\ \A m \in dimms : backend'[m] = backend[m]
    BY <1>0, <1>7, <2>1, RemoveMemoryBackendFacts DEF QemuTypes
  <2>3. QemuTypes' /\ HistTypes'
    BY <1>0, <1>7, <2>2 DEF RemoveMemoryBackend, QemuTypes, HistTypes, histVars
  <2>4. CallTypes'
    BY <1>0, <1>7, CommandTypes DEF RemoveMemoryBackend
  <2> QED BY <2>3, <2>4
<1>8. ASSUME NEW u \in Users, CommandFails(u) PROVE CallTypes' /\ QemuTypes' /\ HistTypes'
  <2>1. CallTypes'
    BY <1>0, <1>8, FaultTypes DEF CommandFails
  <2> QED BY <1>0, <1>8, <2>1 DEF CommandFails, QemuTypes, HistTypes, qemuVars, histVars
<1>9. ASSUME UNCHANGED vars PROVE CallTypes' /\ QemuTypes' /\ HistTypes'
  BY <1>0, <1>9 DEF vars, CallTypes, QemuTypes, HistTypes, qemuVars, histVars
<1>10. CallTypes' /\ QemuTypes' /\ HistTypes'
  BY <1>1, <1>2, <1>3, <1>4, <1>5, <1>6, <1>7, <1>8, <1>9, BeginTypes DEF Next, Command
<1> QED BY <1>10 DEF TypeOK, CallTypes, QemuTypes, HistTypes, Locals

------------------------------------------------------------------------------
(* The two kinds of calls have little to do with each other.               *)

\* What a step of SetCPUs does to the rest.
OfCpus(u) ==
    /\ OthersStay(u) /\ UNCHANGED <<memory, backend, dimms, mostMemory, overlap>>
    /\ pc[u] \notin MemoryCalls /\ pc'[u] \notin MemoryCalls
    /\ outcome'[u] = "memory" => outcome[u] = "memory" /\ want'[u] = want[u]
    /\ clean' \subseteq clean /\ u \notin clean'
    /\ faults' = 0 => faults = 0

LEMMA CpuSteps ==
    ASSUME TypeOK, CpuInv, RefusalInv, NEW u \in Users,
           \/ \E count \in 1 .. MaxCpus + 1 : SetCPUs(u, count)
           \/ QueryHotpluggableCPUs(u) \/ PlugCpu(u)
           \/ CommandFails(u) /\ ~InMemory(u)
    PROVE  OfCpus(u)
<1>0. PICK k \in 1 .. MaxCpus : CpusAre(k)
  BY DEF CpuInv
<1>1. CASE \E count \in 1 .. MaxCpus + 1 : SetCPUs(u, count)
  BY <1>1, SetCPUsFacts DEF OfCpus, Begins, qemuVars, MemoryCalls
<1>2. CASE QueryHotpluggableCPUs(u)
  <2>1. u \notin clean
    BY <1>2 DEF QueryHotpluggableCPUs, RefusalInv
  <2> QED BY <1>0, <1>2, <2>1, QueryHotpluggableCPUsFacts
          DEF OfCpus, Returns, GoesOn, qemuVars, histVars, MemoryCalls
<1>3. CASE PlugCpu(u)
  <2>1. u \notin clean
    BY <1>3 DEF PlugCpu, RefusalInv
  <2>2. /\ pc[u] = "plug" /\ UNCHANGED <<memory, backend, dimms, mostMemory, overlap>>
        /\ \/ Returns(u, "failed") \/ Returns(u, "cpus") \/ Breaks(u)
           \/ \E locals : GoesOn(u, "plug", locals)
    BY <1>0, <1>3, PlugCpuFacts DEF histVars
  <2> QED BY <2>1, <2>2 DEF OfCpus, Returns, GoesOn, Breaks, MemoryCalls
<1>4. CASE CommandFails(u) /\ ~InMemory(u)
  <2>1. Breaks(u) /\ UNCHANGED qemuVars
    BY <1>4, CommandFailsFacts
  <2> QED BY <1>4, <2>1 DEF OfCpus, Breaks, InMemory, qemuVars, histVars, MemoryCalls
<1> QED BY <1>1, <1>2, <1>3, <1>4

\* What a step of SetMemory, or a fault, does to the CPUs.
OfMemory(u) ==
    /\ OthersStay(u) /\ UNCHANGED <<plugged, mostCpus>>
    /\ pc'[u] \notin {"slots", "plug"}
    /\ outcome'[u] = "cpus" => outcome[u] = "cpus" /\ want'[u] = want[u]

LEMMA MemorySteps ==
    ASSUME TypeOK, DimmInv, BackendInv, NEW u \in Users,
           \/ \E bytes \in 1 .. MaxMemory + 1 : SetMemory(u, bytes)
           \/ QueryMemorySummary(u) \/ QueryMemoryDevices(u) \/ AddMemoryBackend(u)
           \/ PlugDimm(u) \/ RemoveMemoryBackend(u) \/ CommandFails(u)
    PROVE  OfMemory(u)
<1>0. PICK d \in 0 .. Slots : DimmsAre(d)
  BY DEF DimmInv
<1>1. PICK n : n = local[u].number
  OBVIOUS
<1> USE DEF OfMemory, qemuVars, histVars
<1>2. CASE \E bytes \in 1 .. MaxMemory + 1 : SetMemory(u, bytes)
  BY <1>2, SetMemoryFacts DEF Begins
<1>3. CASE QueryMemorySummary(u)
  BY <1>3, QueryMemorySummaryFacts DEF Returns, GoesOn
<1>4. CASE QueryMemoryDevices(u)
  BY <1>0, <1>4, QueryMemoryDevicesFacts DEF GoesOn
<1>5. CASE AddMemoryBackend(u)
  BY <1>1, <1>5, AddMemoryBackendFacts DEF Returns, GoesOn, Breaks
<1>6. CASE PlugDimm(u)
  BY <1>0, <1>6, PlugDimmFacts DEF Returns, GoesOn, Breaks
<1>7. CASE RemoveMemoryBackend(u)
  BY <1>1, <1>7, RemoveMemoryBackendFacts DEF Returns
<1>8. CASE CommandFails(u)
  BY <1>8, CommandFailsFacts DEF Breaks
<1> QED BY <1>2, <1>3, <1>4, <1>5, <1>6, <1>7, <1>8

\* Every step is of one kind or the other, if it is a step at all.
LEMMA StepKinds ==
    ASSUME TypeOK, CpuInv, RefusalInv, [Next]_vars
    PROVE  \/ UNCHANGED vars
           \/ \E u \in Users : OfCpus(u)
           \/ \E u \in Users : \/ \E bytes \in 1 .. MaxMemory + 1 : SetMemory(u, bytes)
                               \/ QueryMemorySummary(u)
                               \/ QueryMemoryDevices(u)
                               \/ AddMemoryBackend(u)
                               \/ PlugDimm(u)
                               \/ RemoveMemoryBackend(u)
                               \/ CommandFails(u) /\ InMemory(u)
BY CpuSteps DEF Next, Command

------------------------------------------------------------------------------
(* CPUs.                                                                   *)

LEMMA CpuStep ==
    ASSUME TypeOK, CpuInv, DimmInv, BackendInv, [Next]_vars
    PROVE  CpuInv'
<1> USE HotplugAssumption
<1>0. PICK k \in 1 .. MaxCpus : CpusAre(k)
  BY DEF CpuInv
<1>a. k \in Nat /\ mostCpus \in 1 .. MaxCpus /\ \A w \in Users : want[w] \in Nat
  BY DEF TypeOK
<1>1. ASSUME NEW u \in Users, OfMemory(u) PROVE CpusAre(k)'
  BY <1>0, <1>1 DEF OfMemory, OthersStay, CpusAre
<1>2. ASSUME NEW u \in Users, NEW count \in 1 .. MaxCpus + 1, SetCPUs(u, count)
      PROVE  CpusAre(k)'
  <2>1. /\ Begins(u, "slots", count)
        /\ mostCpus' \in 1 .. MaxCpus /\ mostCpus' >= mostCpus
        /\ count <= MaxCpus => count <= mostCpus'
    BY <1>2, SetCPUsFacts
  <2>2. ASSUME NEW w \in Users \ {u}
        PROVE  /\ pc'[w] = "slots" /\ want'[w] <= MaxCpus => want'[w] <= mostCpus'
               /\ pc'[w] = "plug" => /\ want'[w] <= mostCpus'
                                     /\ \E l \in 1 .. want'[w] :
                                           l <= k + 1 /\ local'[w].cpus = l .. want'[w]
               /\ outcome'[w] = "cpus" => want'[w] <= k
    BY <1>0, <1>a, <2>1 DEF CpusAre, Begins, OthersStay
  <2>3. plugged' = 1 .. k /\ k <= mostCpus'
    BY <1>0, <1>a, <2>1 DEF CpusAre, Begins, qemuVars
  <2> QED BY <2>1, <2>2, <2>3 DEF CpusAre, Begins
<1>3. ASSUME NEW u \in Users, QueryHotpluggableCPUs(u) PROVE CpusAre(k)'
  <2>1. /\ pc[u] = "slots" /\ UNCHANGED qemuVars
        /\ \/ want[u] = k /\ Returns(u, "cpus")
           \/ Returns(u, "restart")
           \/ /\ want[u] \in k + 1 .. MaxCpus
              /\ GoesOn(u, "plug", [cpus |-> k + 1 .. want[u], size |-> 0, number |-> 0])
    BY <1>0, <1>3, QueryHotpluggableCPUsFacts
  <2>2. plugged' = 1 .. k /\ UNCHANGED <<want, mostCpus>> /\ OthersStay(u) /\ k <= mostCpus
    BY <1>0, <2>1 DEF CpusAre, qemuVars, Returns, GoesOn, histVars
  <2>3. CASE Returns(u, "restart") \/ (want[u] = k /\ Returns(u, "cpus"))
    BY <1>0, <1>a, <2>2, <2>3 DEF CpusAre, OthersStay, Returns
  <2>4. CASE /\ want[u] \in k + 1 .. MaxCpus
             /\ GoesOn(u, "plug", [cpus |-> k + 1 .. want[u], size |-> 0, number |-> 0])
    <3>1. want[u] <= mostCpus /\ k + 1 \in 1 .. want[u]
      BY <1>0, <1>a, <2>1, <2>4 DEF CpusAre
    <3>2. pc'[u] = "plug" /\ local'[u].cpus = k + 1 .. want[u] /\ UNCHANGED outcome
      BY <2>4 DEF GoesOn
    <3> QED BY <1>0, <1>a, <2>2, <3>1, <3>2 DEF CpusAre, OthersStay
  <2> QED BY <2>1, <2>3, <2>4
<1>4. ASSUME NEW u \in Users, PlugCpu(u) PROVE CpuInv'
  <2>1. /\ pc[u] = "plug" /\ UNCHANGED <<memory, backend, dimms, want, histVars>>
        /\ \/ UNCHANGED plugged /\ Returns(u, "failed")
           \/ /\ k + 1 \in 1 .. want[u] /\ plugged' = 1 .. k + 1
              /\ \/ want[u] = k + 1 /\ Returns(u, "cpus")
                 \/ /\ k + 2 \in 1 .. want[u]
                    /\ GoesOn(u, "plug", [cpus |-> k + 2 .. want[u],
                                          size |-> 0, number |-> 0])
                 \/ Breaks(u)
    BY <1>0, <1>4, PlugCpuFacts
  <2>2. OthersStay(u) /\ UNCHANGED <<want, mostCpus>> /\ want[u] <= mostCpus
    BY <1>0, <2>1 DEF CpusAre, Returns, GoesOn, Breaks, histVars
  <2>3. CASE UNCHANGED plugged /\ Returns(u, "failed")
    <3>1. CpusAre(k)'
      BY <1>0, <2>2, <2>3 DEF CpusAre, OthersStay, Returns
    <3> QED BY <3>1 DEF CpuInv
  <2>4. CASE k + 1 \in 1 .. want[u] /\ plugged' = 1 .. k + 1
    <3>1. k + 1 \in 1 .. MaxCpus /\ k + 1 <= mostCpus'
      BY <1>a, <2>2, <2>4
    <3>2. ASSUME NEW w \in Users \ {u}
          PROVE  /\ pc'[w] = "slots" /\ want'[w] <= MaxCpus => want'[w] <= mostCpus'
                 /\ pc'[w] = "plug" => /\ want'[w] <= mostCpus'
                                       /\ \E l \in 1 .. want'[w] :
                                             l <= (k + 1) + 1 /\ local'[w].cpus = l .. want'[w]
                 /\ outcome'[w] = "cpus" => want'[w] <= k + 1
      BY <1>0, <1>a, <2>2 DEF CpusAre, OthersStay
    <3>3. /\ pc'[u] # "slots"
          /\ pc'[u] = "plug" => \E l \in 1 .. want'[u] :
                                   l <= (k + 1) + 1 /\ local'[u].cpus = l .. want'[u]
          /\ outcome'[u] = "cpus" => want'[u] <= k + 1
      <4>1. CASE Breaks(u) \/ Returns(u, "failed")
        BY <2>1, <4>1 DEF Breaks, Returns
      <4>2. CASE want[u] = k + 1 /\ Returns(u, "cpus")
        BY <1>a, <2>1, <4>2 DEF Returns
      <4>3. CASE /\ k + 2 \in 1 .. want[u]
                 /\ GoesOn(u, "plug", [cpus |-> k + 2 .. want[u], size |-> 0, number |-> 0])
        <5>1. pc'[u] = "plug" /\ local'[u].cpus = k + 2 .. want[u] /\ UNCHANGED <<outcome, want>>
          BY <4>3 DEF GoesOn
        <5>2. outcome[u] = "cpus" => want[u] <= k + 1
          BY <1>0, <1>a DEF CpusAre
        <5> QED BY <1>a, <4>3, <5>1, <5>2
      <4> QED BY <2>1, <4>1, <4>2, <4>3
    <3>4. CpusAre(k + 1)'
      BY <2>2, <2>4, <3>1, <3>2, <3>3 DEF CpusAre
    <3> QED BY <3>1, <3>4 DEF CpuInv
  <2> QED BY <2>1, <2>3, <2>4
<1>5. ASSUME UNCHANGED vars PROVE CpusAre(k)'
  BY <1>0, <1>5 DEF CpusAre, vars, qemuVars, histVars
<1>6. ASSUME NEW u \in Users, OfMemory(u) PROVE CpuInv'
  BY <1>1, <1>6 DEF CpuInv
<1>7. ASSUME CpusAre(k)' PROVE CpuInv'
  BY <1>7 DEF CpuInv
<1> QED BY <1>2, <1>3, <1>4, <1>5, <1>6, <1>7, MemorySteps DEF Next, Command

------------------------------------------------------------------------------
(* DIMMs and their backends.                                               *)

LEMMA DimmStep ==
    ASSUME TypeOK, CpuInv, DimmInv, BackendInv, RefusalInv, [Next]_vars
    PROVE  DimmInv'
<1> USE HotplugAssumption
<1>0. PICK d \in 0 .. Slots : DimmsAre(d)
  BY DEF DimmInv
<1>a. d \in Nat
  OBVIOUS
\* As long as no DIMM is plugged, only a new number matters.
<1>1. ASSUME NEW u \in Users, OthersStay(u), UNCHANGED dimms,
             \/ pc'[u] \notin {"backend", "dimm", "undo"}
             \/ /\ pc[u] \in {"backend", "dimm", "undo"}
                /\ local'[u].number = local[u].number
             \/ local'[u].number = d + 1
      PROVE  DimmInv'
  <2>1. DimmsAre(d)'
    BY <1>0, <1>a, <1>1 DEF DimmsAre, OthersStay
  <2> QED BY <2>1 DEF DimmInv
<1>2. ASSUME NEW u \in Users, OfCpus(u) PROVE DimmInv'
  BY <1>1, <1>2 DEF OfCpus, MemoryCalls
<1>3. ASSUME NEW u \in Users, NEW bytes \in 1 .. MaxMemory + 1, SetMemory(u, bytes)
      PROVE  DimmInv'
  BY <1>1, <1>3, SetMemoryFacts DEF Begins, qemuVars
<1>4. ASSUME NEW u \in Users, QueryMemorySummary(u) PROVE DimmInv'
  BY <1>1, <1>4, QueryMemorySummaryFacts DEF Returns, GoesOn, qemuVars
<1>5. ASSUME NEW u \in Users, QueryMemoryDevices(u) PROVE DimmInv'
  <2>1. OthersStay(u) /\ UNCHANGED dimms /\ local'[u].number = d + 1
    BY <1>0, <1>5, QueryMemoryDevicesFacts DEF GoesOn, qemuVars
  <2> QED BY <1>1, <2>1
<1>6. ASSUME NEW u \in Users, AddMemoryBackend(u) PROVE DimmInv'
  <2>1. PICK n : n = local[u].number
    OBVIOUS
  <2>2. /\ pc[u] = "backend" /\ UNCHANGED dimms
        /\ Returns(u, "failed") \/ GoesOn(u, "dimm", local[u]) \/ Breaks(u)
    BY <1>6, <2>1, AddMemoryBackendFacts
  <2> QED BY <1>1, <2>2 DEF Returns, GoesOn, Breaks
<1>7. ASSUME NEW u \in Users, PlugDimm(u) PROVE DimmInv'
  <2>1. /\ pc[u] = "dimm" /\ local[u].number = d + 1
        /\ \/ d < Slots /\ dimms' = 1 .. d + 1 /\ (Returns(u, "memory") \/ Breaks(u))
           \/ UNCHANGED dimms /\ GoesOn(u, "undo", local[u])
    BY <1>0, <1>7, PlugDimmFacts
  <2>2. CASE UNCHANGED dimms /\ GoesOn(u, "undo", local[u])
    BY <1>1, <2>1, <2>2 DEF GoesOn
  <2>3. CASE d < Slots /\ dimms' = 1 .. d + 1 /\ (Returns(u, "memory") \/ Breaks(u))
    <3>1. OthersStay(u) /\ (pc'[u] # "idle" => local'[u].number = d + 1)
      BY <2>1, <2>3 DEF Returns, Breaks
    <3>2. DimmsAre(d + 1)' /\ d + 1 \in 0 .. Slots
      BY <1>0, <1>a, <2>3, <3>1 DEF DimmsAre, OthersStay
    <3> QED BY <3>2 DEF DimmInv
  <2> QED BY <2>1, <2>2, <2>3
<1>8. ASSUME NEW u \in Users, RemoveMemoryBackend(u) PROVE DimmInv'
  <2>1. PICK n : n = local[u].number
    OBVIOUS
  <2> QED BY <1>1, <1>8, <2>1, RemoveMemoryBackendFacts DEF Returns
<1>9. ASSUME NEW u \in Users, CommandFails(u) PROVE DimmInv'
  BY <1>1, <1>9, CommandFailsFacts DEF Breaks, qemuVars
<1>10. ASSUME UNCHANGED vars PROVE DimmInv'
  BY <1>0, <1>10 DEF DimmInv, DimmsAre, vars, qemuVars
<1> QED BY <1>2, <1>3, <1>4, <1>5, <1>6, <1>7, <1>8, <1>9, <1>10, StepKinds

\* A step that leaves backends and DIMMs alone, and does not give up a backend
\* without a fault.
LEMMA BackendCalm ==
    ASSUME TypeOK, TypeOK', BackendInv, NEW u \in Users, OthersStay(u),
           UNCHANGED <<backend, dimms>>,
           HasBackend(u)' => /\ HasBackend(u) /\ local'[u].number = local[u].number
                             /\ pc'[u] = "dimm" => pc[u] = "dimm"
                                                   /\ local'[u].size = local[u].size,
           faults' = 0 => faults = 0 /\ (HasBackend(u) => HasBackend(u)')
    PROVE  BackendInv'
<1>1. ASSUME NEW w \in Users
      PROVE  /\ HasBackend(w)' => backend'[local'[w].number] > 0
             /\ pc'[w] = "dimm" => /\ backend'[local'[w].number] = local'[w].size
                                   /\ local'[w].number \notin dimms'
  BY DEF BackendInv, HasBackend, OthersStay
<1>2. ASSUME NEW v \in Users, NEW w \in Users, HasBackend(v)', HasBackend(w)',
             local'[v].number = local'[w].number
      PROVE  v = w
  BY <1>2 DEF BackendInv, HasBackend, OthersStay
<1>3. NoBackendLeft'
  <2>1. faults \in Nat /\ faults' \in Nat
    BY HotplugAssumption DEF TypeOK
  <2>2. ASSUME NEW n \in Numbers \ dimms, backend[n] > 0, faults' = 0
        PROVE  \E w \in Users : pc'[w] \in {"dimm", "undo"} /\ local'[w].number = n
    <3>1. PICK w \in Users : pc[w] \in {"dimm", "undo"} /\ local[w].number = n
      BY <2>1, <2>2 DEF BackendInv, NoBackendLeft
    <3>2. CASE w = u
      BY <2>2, <3>1, <3>2 DEF HasBackend
    <3>3. CASE w # u
      BY <3>1, <3>3 DEF OthersStay
    <3> QED BY <3>2, <3>3
  <2> QED BY <2>1, <2>2 DEF NoBackendLeft
<1> QED BY <1>1, <1>2, <1>3 DEF BackendInv

LEMMA AddKeepsBackends ==
    ASSUME TypeOK, TypeOK', DimmInv, BackendInv, SizeInv, NEW u \in Users, AddMemoryBackend(u)
    PROVE  BackendInv'
<1>0. PICK n : n = local[u].number
  OBVIOUS
<1>1. /\ pc[u] = "backend" /\ UNCHANGED dimms /\ n \in Numbers
      /\ \/ UNCHANGED backend /\ Returns(u, "failed")
         \/ /\ backend[n] = 0 /\ backend'[n] = local[u].size
            /\ \A m \in Numbers \ {n} : backend'[m] = backend[m]
            /\ GoesOn(u, "dimm", local[u]) \/ Breaks(u)
  BY <1>0, AddMemoryBackendFacts
<1>2. CASE UNCHANGED backend /\ Returns(u, "failed")
  BY <1>1, <1>2, BackendCalm DEF Returns, HasBackend
<1>3. CASE /\ backend[n] = 0 /\ backend'[n] = local[u].size
           /\ \A m \in Numbers \ {n} : backend'[m] = backend[m]
           /\ GoesOn(u, "dimm", local[u]) \/ Breaks(u)
  <2>1. n \notin dimms /\ local[u].size > 0
    BY <1>1, <1>3 DEF TypeOK, SizeInv, Adding
  <2>2. /\ OthersStay(u)
        /\ \/ pc'[u] = "dimm" /\ local'[u] = local[u] /\ UNCHANGED faults
           \/ pc'[u] = "idle" /\ faults' > 0
    BY <1>1, <1>3 DEF GoesOn, Breaks
  <2>3. \A w \in Users : HasBackend(w) =>
           /\ w # u /\ local[w].number \in Numbers \ {n}
           /\ backend[local[w].number] > 0
    BY <1>1, <1>3, NumberFacts DEF BackendInv, HasBackend
  <2>4. ASSUME NEW w \in Users
        PROVE  /\ HasBackend(w)' => backend'[local'[w].number] > 0
               /\ pc'[w] = "dimm" => /\ backend'[local'[w].number] = local'[w].size
                                     /\ local'[w].number \notin dimms'
    <3>1. CASE w = u
      BY <1>0, <1>1, <1>3, <2>1, <2>2, <3>1 DEF HasBackend
    <3>2. CASE w # u
      BY <1>1, <1>3, <2>2, <2>3, <3>2 DEF BackendInv, HasBackend, OthersStay
    <3> QED BY <3>1, <3>2
  <2>5. ASSUME NEW v \in Users, NEW w \in Users, HasBackend(v)', HasBackend(w)',
               local'[v].number = local'[w].number
        PROVE  v = w
    BY <1>0, <2>2, <2>3, <2>5 DEF BackendInv, HasBackend, OthersStay
  <2>6. NoBackendLeft'
    <3>1. ASSUME NEW m \in Numbers \ dimms, backend'[m] > 0
          PROVE  faults' > 0 \/ \E w \in Users : pc'[w] \in {"dimm", "undo"}
                                                  /\ local'[w].number = m
      <4>1. CASE m = n
        BY <1>0, <2>2, <4>1
      <4>2. CASE m # n
        <5>1. faults > 0 \/ \E w \in Users : HasBackend(w) /\ local[w].number = m
          BY <1>3, <3>1, <4>2 DEF BackendInv, NoBackendLeft, HasBackend
        <5> QED BY <2>2, <2>3, <5>1 DEF HasBackend, OthersStay
      <4> QED BY <4>1, <4>2
    <3> QED BY <1>1, <3>1 DEF NoBackendLeft
  <2> QED BY <2>4, <2>5, <2>6 DEF BackendInv
<1> QED BY <1>1, <1>2, <1>3

LEMMA PlugKeepsBackends ==
    ASSUME TypeOK, TypeOK', DimmInv, BackendInv, NEW u \in Users, PlugDimm(u)
    PROVE  BackendInv'
<1>0. PICK d \in 0 .. Slots : DimmsAre(d)
  BY DEF DimmInv
<1> DEFINE n == local[u].number
<1>1. /\ pc[u] = "dimm" /\ UNCHANGED backend
      /\ \/ dimms' = dimms \cup {n} /\ (Returns(u, "memory") \/ Breaks(u))
         \/ UNCHANGED dimms /\ GoesOn(u, "undo", local[u])
  <2>1. 1 .. d + 1 = dimms \cup {d + 1}
    BY <1>0, d \in Nat, HotplugAssumption DEF DimmsAre
  <2> QED BY <1>0, <2>1, PlugDimmFacts
<1>2. CASE UNCHANGED dimms /\ GoesOn(u, "undo", local[u])
  BY <1>1, <1>2, BackendCalm DEF GoesOn, HasBackend
<1>3. CASE dimms' = dimms \cup {n} /\ (Returns(u, "memory") \/ Breaks(u))
  <2>1. /\ OthersStay(u)
        /\ \/ pc'[u] = "undo" /\ local'[u] = local[u] /\ faults' > 0
           \/ pc'[u] = "idle" /\ UNCHANGED faults
    BY <1>1, <1>3 DEF Returns, Breaks
  <2>2. HasBackend(u) /\ backend[n] > 0
    BY <1>1 DEF HasBackend, BackendInv
  <2>3. \A w \in Users \ {u} : HasBackend(w) => local[w].number # n
    BY <2>2 DEF BackendInv
  <2>4. ASSUME NEW w \in Users
        PROVE  /\ HasBackend(w)' => backend'[local'[w].number] > 0
               /\ pc'[w] = "dimm" => /\ backend'[local'[w].number] = local'[w].size
                                     /\ local'[w].number \notin dimms'
    <3>1. CASE w = u
      BY <1>1, <2>1, <2>2, <3>1 DEF HasBackend
    <3>2. CASE w # u
      BY <1>1, <1>3, <2>1, <2>3, <3>2 DEF BackendInv, HasBackend, OthersStay
    <3> QED BY <3>1, <3>2
  <2>5. ASSUME NEW v \in Users, NEW w \in Users, HasBackend(v)', HasBackend(w)',
               local'[v].number = local'[w].number
        PROVE  v = w
    BY <2>1, <2>2, <2>5 DEF BackendInv, HasBackend, OthersStay
  <2>6. NoBackendLeft'
    <3>1. ASSUME NEW m \in Numbers \ dimms', backend[m] > 0
          PROVE  faults' > 0 \/ \E w \in Users : pc'[w] \in {"dimm", "undo"}
                                                  /\ local'[w].number = m
      <4>1. m \notin dimms /\ m # n
        BY <1>3, <3>1
      <4>2. faults > 0 \/ \E w \in Users \ {u} : HasBackend(w) /\ local[w].number = m
        BY <3>1, <4>1 DEF BackendInv, NoBackendLeft, HasBackend
      <4> QED BY <2>1, <4>2 DEF HasBackend, OthersStay
    <3> QED BY <1>1, <3>1 DEF NoBackendLeft
  <2> QED BY <2>4, <2>5, <2>6 DEF BackendInv
<1> QED BY <1>1, <1>2, <1>3

LEMMA RemoveKeepsBackends ==
    ASSUME TypeOK, TypeOK', DimmInv, BackendInv, NEW u \in Users, RemoveMemoryBackend(u)
    PROVE  BackendInv'
<1>0. PICK n : n = local[u].number
  OBVIOUS
<1>1. /\ pc[u] = "undo" /\ UNCHANGED dimms /\ n \in Numbers
      /\ backend'[n] = IF n \in dimms THEN backend[n] ELSE 0
      /\ \A m \in Numbers \ {n} : backend'[m] = backend[m]
      /\ Returns(u, "failed")
  BY <1>0, RemoveMemoryBackendFacts
<1>2. OthersStay(u) /\ pc'[u] = "idle" /\ UNCHANGED faults
  BY <1>1 DEF Returns
<1>3. \A w \in Users \ {u} : HasBackend(w) => local[w].number \in Numbers \ {n}
  BY <1>0, <1>1, NumberFacts DEF BackendInv, HasBackend
<1>4. ASSUME NEW w \in Users
      PROVE  /\ HasBackend(w)' => backend'[local'[w].number] > 0
             /\ pc'[w] = "dimm" => /\ backend'[local'[w].number] = local'[w].size
                                   /\ local'[w].number \notin dimms'
  BY <1>1, <1>2, <1>3 DEF BackendInv, HasBackend, OthersStay
<1>5. ASSUME NEW v \in Users, NEW w \in Users, HasBackend(v)', HasBackend(w)',
             local'[v].number = local'[w].number
      PROVE  v = w
  BY <1>2, <1>5 DEF BackendInv, HasBackend, OthersStay
<1>6. NoBackendLeft'
  <2>1. ASSUME NEW m \in Numbers \ dimms, backend'[m] > 0
        PROVE  faults' > 0 \/ \E w \in Users : pc'[w] \in {"dimm", "undo"}
                                                /\ local'[w].number = m
    <3>1. m # n /\ backend[m] > 0
      BY <1>1, <2>1
    <3>2. faults > 0 \/ \E w \in Users \ {u} : HasBackend(w) /\ local[w].number = m
      BY <1>0, <2>1, <3>1 DEF BackendInv, NoBackendLeft, HasBackend
    <3> QED BY <1>2, <3>2 DEF HasBackend, OthersStay
  <2> QED BY <1>1, <2>1 DEF NoBackendLeft
<1> QED BY <1>4, <1>5, <1>6 DEF BackendInv

LEMMA BackendStep ==
    ASSUME TypeOK, TypeOK', CpuInv, DimmInv, BackendInv, SizeInv, RefusalInv, [Next]_vars
    PROVE  BackendInv'
<1>0. PICK d \in 0 .. Slots : DimmsAre(d)
  BY DEF DimmInv
<1>1. ASSUME NEW u \in Users, OfCpus(u) PROVE BackendInv'
  BY <1>1, BackendCalm DEF OfCpus, MemoryCalls, HasBackend
<1>2. ASSUME NEW u \in Users, NEW bytes \in 1 .. MaxMemory + 1, SetMemory(u, bytes)
      PROVE  BackendInv'
  BY <1>2, SetMemoryFacts, BackendCalm DEF Begins, qemuVars, HasBackend
<1>3. ASSUME NEW u \in Users, QueryMemorySummary(u) PROVE BackendInv'
  BY <1>3, QueryMemorySummaryFacts, BackendCalm DEF Returns, GoesOn, qemuVars, HasBackend
<1>4. ASSUME NEW u \in Users, QueryMemoryDevices(u) PROVE BackendInv'
  BY <1>0, <1>4, QueryMemoryDevicesFacts, BackendCalm DEF GoesOn, qemuVars, HasBackend
<1>5. ASSUME NEW u \in Users, CommandFails(u) PROVE BackendInv'
  BY <1>5, CommandFailsFacts, BackendCalm DEF Breaks, qemuVars, HasBackend
<1>6. ASSUME UNCHANGED vars PROVE BackendInv'
  BY <1>6 DEF BackendInv, HasBackend, NoBackendLeft, vars, qemuVars
<1> QED BY <1>1, <1>2, <1>3, <1>4, <1>5, <1>6, StepKinds, AddKeepsBackends,
           PlugKeepsBackends, RemoveKeepsBackends

------------------------------------------------------------------------------
(* Memory.                                                                 *)

LEMMA SizeStep ==
    ASSUME TypeOK, CpuInv, DimmInv, BackendInv, SizeInv, RefusalInv, [Next]_vars
    PROVE  SizeInv'
<1> DEFINE SizeOf(w) == /\ pc[w] = "summary" => want[w] <= MaxMemory + 1
                        /\ Adding(w) => local[w].size > 0 /\ memory + local[w].size >= want[w]
                        /\ outcome[w] = "memory" => memory >= want[w]
<1>0. PICK d \in 0 .. Slots : DimmsAre(d)
  BY DEF DimmInv
<1>a. /\ memory \in Nat
      /\ \A w \in Users : local[w].size \in Nat /\ want[w] \in Nat /\ SizeOf(w)
  BY HotplugAssumption DEF TypeOK, SizeInv
\* Memory only grows, so that only the caller itself matters.
<1>1. ASSUME NEW u \in Users, OthersStay(u), memory' \in Nat, memory' >= memory, SizeOf(u)'
      PROVE  SizeInv'
  <2>1. ASSUME NEW w \in Users \ {u} PROVE SizeOf(w)'
    BY <1>a, <1>1 DEF OthersStay, Adding
  <2> QED BY <1>1, <2>1 DEF SizeInv
<1>2. ASSUME NEW u \in Users, OfCpus(u) PROVE SizeInv'
  BY <1>1, <1>2, <1>a DEF OfCpus, Adding, MemoryCalls
<1>3. ASSUME NEW u \in Users, NEW bytes \in 1 .. MaxMemory + 1, SetMemory(u, bytes)
      PROVE  SizeInv'
  <2>1. /\ OthersStay(u) /\ UNCHANGED memory
        /\ pc'[u] = "summary" /\ want'[u] = bytes /\ outcome'[u] = "none"
    BY <1>3, SetMemoryFacts DEF Begins, qemuVars
  <2>2. bytes <= MaxMemory + 1
    BY HotplugAssumption
  <2> QED BY <1>1, <1>a, <2>1, <2>2 DEF Adding
<1>4. ASSUME NEW u \in Users, QueryMemorySummary(u) PROVE SizeInv'
  <2>1. /\ pc[u] = "summary" /\ OthersStay(u) /\ UNCHANGED <<memory, want>>
        /\ \/ want[u] = memory /\ pc'[u] = "idle" /\ outcome'[u] = "memory"
           \/ pc'[u] = "idle" /\ outcome'[u] = "restart"
           \/ /\ pc'[u] = "devices" /\ want[u] > memory /\ outcome'[u] = outcome[u]
              /\ local'[u].size = want[u] - memory
    BY <1>4, QueryMemorySummaryFacts DEF Returns, GoesOn, qemuVars
  <2> QED BY <1>1, <1>a, <2>1 DEF Adding
<1>5. ASSUME NEW u \in Users, QueryMemoryDevices(u) PROVE SizeInv'
  <2>1. /\ pc[u] = "devices" /\ OthersStay(u) /\ UNCHANGED <<memory, want, outcome>>
        /\ pc'[u] = "backend" /\ local'[u].size = local[u].size
    BY <1>0, <1>5, QueryMemoryDevicesFacts DEF GoesOn, qemuVars
  <2> QED BY <1>1, <1>a, <2>1 DEF Adding
<1>6. ASSUME NEW u \in Users, AddMemoryBackend(u) PROVE SizeInv'
  <2>1. PICK n : n = local[u].number
    OBVIOUS
  <2>2. /\ pc[u] = "backend" /\ OthersStay(u) /\ UNCHANGED <<memory, want>>
        /\ \/ pc'[u] = "idle" /\ outcome'[u] = "failed"
           \/ pc'[u] = "dimm" /\ local'[u] = local[u] /\ outcome'[u] = outcome[u]
    BY <1>6, <2>1, AddMemoryBackendFacts DEF Returns, GoesOn, Breaks
  <2> QED BY <1>1, <1>a, <2>2 DEF Adding
<1>7. ASSUME NEW u \in Users, PlugDimm(u) PROVE SizeInv'
  <2>1. /\ pc[u] = "dimm" /\ OthersStay(u) /\ UNCHANGED want
        /\ \/ /\ memory' = memory + local[u].size
              /\ \/ pc'[u] = "idle" /\ outcome'[u] = "memory"
                 \/ pc'[u] = "undo" /\ outcome'[u] = outcome[u]
           \/ UNCHANGED memory /\ pc'[u] = "undo" /\ outcome'[u] = outcome[u]
    BY <1>0, <1>7, PlugDimmFacts DEF Returns, GoesOn, Breaks
  <2> QED BY <1>1, <1>a, <2>1 DEF Adding
<1>8. ASSUME NEW u \in Users, RemoveMemoryBackend(u) PROVE SizeInv'
  <2>1. PICK n : n = local[u].number
    OBVIOUS
  <2> QED BY <1>1, <1>8, <1>a, <2>1, RemoveMemoryBackendFacts DEF Returns, Adding
<1>9. ASSUME NEW u \in Users, CommandFails(u) PROVE SizeInv'
  <2>1. /\ OthersStay(u) /\ UNCHANGED <<memory, want>>
        /\ \/ pc'[u] = "undo" /\ outcome'[u] = outcome[u]
           \/ pc'[u] = "idle" /\ outcome'[u] = "failed"
    BY <1>9, CommandFailsFacts DEF Breaks, qemuVars
  <2> QED BY <1>1, <1>a, <2>1 DEF Adding
<1>10. ASSUME UNCHANGED vars PROVE SizeInv'
  BY <1>10 DEF SizeInv, Adding, vars, qemuVars
<1> QED BY <1>2, <1>3, <1>4, <1>5, <1>6, <1>7, <1>8, <1>9, <1>10, StepKinds

\* A command of SetMemory: no other call matters to one that is alone.
LEMMA AloneCommand ==
    ASSUME TypeOK, AloneInv, NEW u \in Users, InMemory(u), OthersStay(u),
           UNCHANGED <<want, histVars>>, clean' \subseteq clean,
           InMemory(u)' /\ Adding(u)' /\ Alone(u)' => memory' + local'[u].size = want[u],
           ~overlap => memory' <= mostMemory
    PROVE  AloneInv'
<1>1. \A w \in Users : /\ InMemory(w)' => InMemory(w)
                       /\ Alone(w)' => Alone(w)
  BY DEF InMemory, OthersStay, Alone, histVars
<1>2. ASSUME NEW w \in Users
      PROVE  /\ InMemory(w)' /\ want'[w] <= MaxMemory => want'[w] <= mostMemory'
             /\ InMemory(w)' /\ Alone(w)' => \A v \in Users : InMemory(v)' => v = w
  BY <1>1 DEF AloneInv, histVars
<1>3. ASSUME NEW w \in Users, Adding(w)', Alone(w)'
      PROVE  memory' + local'[w].size = want'[w]
  <2>1. InMemory(w)'
    BY <1>3 DEF Adding, InMemory, MemoryCalls
  <2>2. w = u
    BY <1>1, <1>3, <2>1 DEF AloneInv
  <2> QED BY <1>3, <2>1, <2>2
<1> QED BY <1>2, <1>3 DEF AloneInv, NoMemoryTooMuch, histVars

LEMMA AloneStep ==
    ASSUME TypeOK, CpuInv, DimmInv, BackendInv, SizeInv, AloneInv, RefusalInv, [Next]_vars
    PROVE  AloneInv'
<1> USE DEF MemoryCalls
<1>0. PICK d \in 0 .. Slots : DimmsAre(d)
  BY DEF DimmInv
<1>a. /\ memory \in Nat /\ mostMemory \in Nat /\ MaxMemory \in Nat
      /\ \A w \in Users : local[w].size \in Nat /\ want[w] \in Nat
      /\ ~overlap => memory <= mostMemory
  BY HotplugAssumption DEF TypeOK, AloneInv, NoMemoryTooMuch
<1>1. ASSUME NEW u \in Users, OfCpus(u) PROVE AloneInv'
  <2>1. \A w \in Users : /\ InMemory(w)' => w # u /\ InMemory(w)
                         /\ Adding(w)' => w # u /\ Adding(w)
                         /\ Alone(w)' => Alone(w)
    BY <1>1 DEF OfCpus, OthersStay, InMemory, Adding, Alone
  <2>2. \A w \in Users \ {u} : want'[w] = want[w] /\ local'[w] = local[w]
    BY <1>1 DEF OfCpus, OthersStay
  <2>3. UNCHANGED <<memory, mostMemory, overlap>>
    BY <1>1 DEF OfCpus
  <2> QED BY <2>1, <2>2, <2>3 DEF AloneInv, NoMemoryTooMuch
<1>2. ASSUME NEW u \in Users, NEW bytes \in 1 .. MaxMemory + 1, SetMemory(u, bytes)
      PROVE  AloneInv'
  <2>1. /\ OthersStay(u) /\ UNCHANGED memory
        /\ pc[u] = "idle" /\ pc'[u] = "summary" /\ want'[u] = bytes
        /\ \/ /\ \A w \in Users \ {u} : ~InMemory(w)
              /\ clean' = clean \cup {u} /\ UNCHANGED overlap
           \/ overlap' /\ u \notin clean' /\ \A w \in clean' : ~InMemory(w)
        /\ mostMemory' \in 1 .. MaxMemory /\ mostMemory' >= mostMemory
        /\ bytes <= MaxMemory => bytes <= mostMemory'
    BY <1>2, SetMemoryFacts DEF Begins, qemuVars
  <2>2. ASSUME NEW w \in Users, InMemory(w)', want'[w] <= MaxMemory
        PROVE  want'[w] <= mostMemory'
    <3>1. CASE w = u
      BY <2>1, <2>2, <3>1
    <3>2. CASE w # u
      <4>1. want[w] <= mostMemory
        BY <2>1, <2>2, <3>2 DEF AloneInv, InMemory, OthersStay
      <4> QED BY <1>a, <2>1, <3>2, <4>1 DEF OthersStay
    <3> QED BY <3>1, <3>2
  <2>3. ASSUME NEW w \in Users, InMemory(w)', Alone(w)'
        PROVE  w = u /\ \A v \in Users : InMemory(v)' => v = w
    <3>1. w = u
      BY <2>1, <2>3 DEF InMemory, Alone, OthersStay
    <3>2. \A v \in Users \ {u} : ~InMemory(v)
      BY <2>1, <2>3, <3>1 DEF Alone
    <3> QED BY <2>1, <3>1, <3>2 DEF InMemory, OthersStay
  <2>4. ASSUME NEW w \in Users, Adding(w)', Alone(w)' PROVE FALSE
    <3>1. InMemory(w)'
      BY <2>4 DEF Adding, InMemory
    <3> QED BY <2>1, <2>3, <2>4, <3>1 DEF Adding
  <2>5. NoMemoryTooMuch'
    BY <1>a, <2>1 DEF NoMemoryTooMuch
  <2> QED BY <2>2, <2>3, <2>4, <2>5 DEF AloneInv
<1>3. ASSUME NEW u \in Users, QueryMemorySummary(u) PROVE AloneInv'
  <2>1. /\ InMemory(u) /\ OthersStay(u) /\ UNCHANGED <<memory, want, clean, histVars>>
        /\ \/ pc'[u] = "idle"
           \/ want[u] > memory /\ local'[u].size = want[u] - memory
    BY <1>3, QueryMemorySummaryFacts DEF Returns, GoesOn, qemuVars, InMemory
  <2> QED BY <1>a, <2>1, AloneCommand DEF Adding
<1>4. ASSUME NEW u \in Users, QueryMemoryDevices(u) PROVE AloneInv'
  <2>1. /\ pc[u] = "devices" /\ OthersStay(u) /\ UNCHANGED <<memory, want, clean, histVars>>
        /\ local'[u].size = local[u].size
    BY <1>0, <1>4, QueryMemoryDevicesFacts DEF GoesOn, qemuVars
  <2> QED BY <1>a, <2>1, AloneCommand DEF AloneInv, Adding, InMemory, Alone, histVars
<1>5. ASSUME NEW u \in Users, AddMemoryBackend(u) PROVE AloneInv'
  <2>1. PICK n : n = local[u].number
    OBVIOUS
  <2>2. /\ pc[u] = "backend" /\ OthersStay(u) /\ UNCHANGED <<memory, want, histVars>>
        /\ clean' \subseteq clean
        /\ pc'[u] = "idle" \/ local'[u] = local[u]
    BY <1>5, <2>1, AddMemoryBackendFacts DEF Returns, GoesOn, Breaks
  <2> QED BY <1>a, <2>2, AloneCommand DEF AloneInv, Adding, InMemory, Alone, histVars
<1>6. ASSUME NEW u \in Users, PlugDimm(u) PROVE AloneInv'
  <2>1. /\ pc[u] = "dimm" /\ OthersStay(u) /\ UNCHANGED <<want, histVars>>
        /\ clean' \subseteq clean /\ pc'[u] \in {"idle", "undo"}
        /\ \/ memory' = memory + local[u].size /\ memory' <= MaxMemory
           \/ UNCHANGED memory
    BY <1>0, <1>6, PlugDimmFacts DEF Returns, GoesOn, Breaks
  <2>2. ASSUME ~overlap PROVE memory' <= mostMemory
    <3>1. memory + local[u].size = want[u] /\ (want[u] <= MaxMemory => want[u] <= mostMemory)
      BY <2>1, <2>2 DEF AloneInv, Adding, InMemory, Alone
    <3> QED BY <1>a, <2>1, <2>2, <3>1
  <2> QED BY <2>1, <2>2, AloneCommand DEF Adding, InMemory
<1>7. ASSUME NEW u \in Users, RemoveMemoryBackend(u) PROVE AloneInv'
  <2>1. PICK n : n = local[u].number
    OBVIOUS
  <2>2. /\ pc[u] = "undo" /\ OthersStay(u) /\ UNCHANGED <<memory, want, clean, histVars>>
        /\ pc'[u] = "idle"
    BY <1>7, <2>1, RemoveMemoryBackendFacts DEF Returns
  <2> QED BY <1>a, <2>2, AloneCommand DEF Adding, InMemory
<1>8. ASSUME NEW u \in Users, CommandFails(u), InMemory(u) PROVE AloneInv'
  <2>1. /\ OthersStay(u) /\ UNCHANGED <<memory, want, histVars>> /\ clean' \subseteq clean
        /\ pc'[u] \in {"idle", "undo"}
    BY <1>8, CommandFailsFacts DEF Breaks, qemuVars
  <2> QED BY <1>8, <1>a, <2>1, AloneCommand DEF Adding
<1>9. ASSUME UNCHANGED vars PROVE AloneInv'
  BY <1>9 DEF AloneInv, NoMemoryTooMuch, InMemory, Adding, Alone, vars, qemuVars, histVars
<1> QED BY <1>1, <1>2, <1>3, <1>4, <1>5, <1>6, <1>7, <1>8, <1>9, StepKinds

------------------------------------------------------------------------------
(* Refusals.                                                               *)

LEMMA RefusalStep ==
    ASSUME TypeOK, TypeOK', CpuInv, DimmInv, BackendInv, AloneInv, RefusalInv, [Next]_vars
    PROVE  RefusalInv'
<1> USE DEF MemoryCalls
<1> DEFINE RefusalOf(w) ==
              /\ pc[w] \notin {"slots", "plug"}
              /\ faults = 0 /\ pc[w] = "backend" => local[w].number \notin dimms
              /\ faults = 0 /\ pc[w] = "undo" /\ want[w] <= MaxMemory =>
                    Cardinality(dimms) >= Slots
              /\ (faults = 0 /\ pc[w] = "idle" /\ outcome[w] = "failed"
                     /\ want[w] <= MaxMemory) => Cardinality(dimms) >= Slots
<1>0. PICK d \in 0 .. Slots : DimmsAre(d)
  BY DEF DimmInv
<1>a. d \in Nat /\ Slots \in Nat /\ Cardinality(dimms) = d
  BY <1>0, HotplugAssumption, SizeOfFirst DEF DimmsAre
<1>b. \A w \in clean : RefusalOf(w) /\ w \in Users
  BY DEF RefusalInv, RefusedForAReason, TypeOK
<1>c. ASSUME \A w \in clean' : RefusalOf(w)' PROVE RefusalInv'
  BY <1>c DEF RefusalInv, RefusedForAReason
\* As long as no DIMM is plugged, what is known of the others stays.
<1>1. ASSUME NEW u \in Users, OthersStay(u), UNCHANGED dimms, clean' \subseteq clean \cup {u},
             faults' = 0 => faults = 0, u \in clean' => RefusalOf(u)'
      PROVE  RefusalInv'
  <2>1. ASSUME NEW w \in clean' PROVE RefusalOf(w)'
    <3>1. CASE w = u
      BY <1>1, <2>1, <3>1
    <3>2. CASE w # u
      <4>1. w \in clean /\ RefusalOf(w) /\ w \in Users \ {u}
        BY <1>1, <1>b, <2>1, <3>2
      <4> QED BY <1>1, <4>1 DEF OthersStay
    <3> QED BY <3>1, <3>2
  <2> QED BY <1>c, <2>1
<1>2. ASSUME NEW u \in Users, OfCpus(u) PROVE RefusalInv'
  BY <1>1, <1>2 DEF OfCpus
<1>3. ASSUME NEW u \in Users, NEW bytes \in 1 .. MaxMemory + 1, SetMemory(u, bytes)
      PROVE  RefusalInv'
  <2>1. /\ OthersStay(u) /\ UNCHANGED <<dimms, faults>> /\ clean' \subseteq clean \cup {u}
        /\ pc'[u] = "summary"
    BY <1>3, SetMemoryFacts DEF Begins, qemuVars
  <2> QED BY <1>1, <2>1
<1>4. ASSUME NEW u \in Users, QueryMemorySummary(u) PROVE RefusalInv'
  <2>1. /\ OthersStay(u) /\ UNCHANGED <<dimms, clean, faults>>
        /\ \/ pc'[u] = "devices"
           \/ pc'[u] = "idle" /\ outcome'[u] \in {"memory", "restart"}
    BY <1>4, QueryMemorySummaryFacts DEF Returns, GoesOn, qemuVars
  <2> QED BY <1>1, <2>1
<1>5. ASSUME NEW u \in Users, QueryMemoryDevices(u) PROVE RefusalInv'
  <2>1. /\ OthersStay(u) /\ UNCHANGED <<dimms, clean, faults>>
        /\ pc'[u] = "backend" /\ local'[u].number = d + 1
    BY <1>0, <1>5, QueryMemoryDevicesFacts DEF GoesOn, qemuVars
  <2>2. d + 1 \notin dimms
    BY <1>0, <1>a DEF DimmsAre
  <2> QED BY <1>1, <2>1, <2>2
<1>6. ASSUME NEW u \in Users, AddMemoryBackend(u) PROVE RefusalInv'
  <2>1. PICK n : n = local[u].number
    OBVIOUS
  <2>2. /\ pc[u] = "backend" /\ OthersStay(u) /\ UNCHANGED dimms /\ clean' \subseteq clean
        /\ n \in Numbers
        /\ \/ backend[n] > 0 /\ UNCHANGED faults
           \/ pc'[u] = "dimm" /\ UNCHANGED faults
           \/ faults' \in 1 .. MaxFaults
    BY <1>6, <2>1, AddMemoryBackendFacts DEF Returns, GoesOn, Breaks
  \* A backend that is in the way belongs to another call, which a clean call
  \* does not have beside it.
  <2>3. ASSUME u \in clean, faults = 0, backend[n] > 0 PROVE FALSE
    <3>1. n \notin dimms
      BY <1>b, <2>1, <2>2, <2>3
    <3>2. PICK w \in Users : pc[w] \in {"dimm", "undo"}
      BY <2>2, <2>3, <3>1 DEF BackendInv, NoBackendLeft
    <3>3. InMemory(u) /\ Alone(u) /\ InMemory(w) /\ w # u
      BY <2>2, <2>3, <3>2 DEF InMemory, Alone
    <3> QED BY <3>3 DEF AloneInv
  <2>4. faults' = 0 => faults = 0
    BY <2>2
  <2>5. ASSUME u \in clean' PROVE RefusalOf(u)'
    <3>1. faults' = 0 => pc'[u] = "dimm"
      BY <2>2, <2>3, <2>4, <2>5
    <3>2. pc'[u] \notin {"slots", "plug"}
      BY <1>6, MemorySteps DEF OfMemory
    <3> QED BY <3>1, <3>2
  <2> QED BY <1>1, <2>2, <2>4, <2>5
<1>7. ASSUME NEW u \in Users, PlugDimm(u) PROVE RefusalInv'
  <2>1. /\ pc[u] = "dimm" /\ OthersStay(u) /\ clean' \subseteq clean
        /\ faults' = 0 => faults = 0 /\ UNCHANGED clean
        /\ \/ /\ dimms' = 1 .. d + 1
              /\ \/ pc'[u] = "idle" /\ outcome'[u] = "memory"
                 \/ pc'[u] = "undo" /\ u \notin clean'
           \/ /\ d = Slots \/ memory + local[u].size > MaxMemory
              /\ UNCHANGED <<dimms, want>> /\ pc'[u] = "undo"
    BY <1>0, <1>7, PlugDimmFacts DEF Returns, GoesOn, Breaks
  <2>2. CASE /\ d = Slots \/ memory + local[u].size > MaxMemory
             /\ UNCHANGED <<dimms, want>> /\ pc'[u] = "undo"
    <3>1. ASSUME u \in clean', want[u] <= MaxMemory PROVE Cardinality(dimms) >= Slots
      <4>1. memory + local[u].size = want[u]
        BY <2>1, <3>1 DEF AloneInv, Adding, Alone
      <4>2. memory + local[u].size \in Nat /\ MaxMemory \in Nat
        BY HotplugAssumption DEF TypeOK
      <4> QED BY <1>a, <2>2, <3>1, <4>1, <4>2
    <3> QED BY <1>1, <2>1, <2>2, <3>1
  <2>3. CASE /\ dimms' = 1 .. d + 1
             /\ \/ pc'[u] = "idle" /\ outcome'[u] = "memory"
                \/ pc'[u] = "undo" /\ u \notin clean'
    <3>1. Cardinality(dimms') = d + 1
      BY <1>a, <2>3, SizeOfFirst
    <3>2. ASSUME NEW w \in clean' PROVE RefusalOf(w)'
      <4>1. CASE w = u
        BY <2>3, <3>2, <4>1
      <4>2. CASE w # u
        <5>1. w \in Users \ {u} /\ w \in clean /\ RefusalOf(w)
          BY <1>b, <2>1, <3>2, <4>2
        <5>2. InMemory(u) /\ Alone(w)
          BY <2>1, <5>1 DEF InMemory, Alone
        <5>3. ~InMemory(w)
          BY <5>1, <5>2 DEF AloneInv
        <5>4. pc'[w] = pc[w] /\ want'[w] = want[w] /\ outcome'[w] = outcome[w]
          BY <2>1, <5>1 DEF OthersStay
        <5>5. Cardinality(dimms) >= Slots => Cardinality(dimms') >= Slots
          BY <1>a, <3>1
        <5> QED BY <2>1, <5>1, <5>3, <5>4, <5>5 DEF InMemory
      <4> QED BY <4>1, <4>2
    <3> QED BY <1>c, <3>2
  <2> QED BY <2>1, <2>2, <2>3
<1>8. ASSUME NEW u \in Users, RemoveMemoryBackend(u) PROVE RefusalInv'
  <2>1. PICK n : n = local[u].number
    OBVIOUS
  <2>2. /\ pc[u] = "undo" /\ OthersStay(u) /\ UNCHANGED <<dimms, want, clean, faults>>
        /\ pc'[u] = "idle"
    BY <1>8, <2>1, RemoveMemoryBackendFacts DEF Returns
  <2> QED BY <1>1, <1>b, <2>2
<1>9. ASSUME NEW u \in Users, CommandFails(u), InMemory(u) PROVE RefusalInv'
  <2>1. /\ OthersStay(u) /\ UNCHANGED dimms /\ clean' = clean \ {u} /\ faults' # 0
    BY <1>9, CommandFailsFacts DEF Breaks, qemuVars
  <2> QED BY <1>1, <2>1
<1>10. ASSUME UNCHANGED vars PROVE RefusalInv'
  BY <1>10 DEF RefusalInv, RefusedForAReason, vars, qemuVars
<1> QED BY <1>2, <1>3, <1>4, <1>5, <1>6, <1>7, <1>8, <1>9, <1>10, StepKinds

------------------------------------------------------------------------------
(* The theorems.                                                           *)

LEMMA InitIInv == Init => IInv
<1> USE HotplugAssumption
<1> SUFFICES ASSUME Init PROVE IInv
  OBVIOUS
<1>1. NoLocals \in Locals
  BY DEF NoLocals, Locals
<1>2. TypeOK
  <2>1. CallTypes
    <3>1. 0 \in 0 .. MaxCpus + MaxMemory /\ 0 \in 0 .. MaxFaults
      OBVIOUS
    <3> QED BY <1>1, <3>1 DEF Init, CallTypes
  <2>2. QemuTypes /\ HistTypes
    <3>1. 1 .. mostCpus \subseteq 1 .. MaxCpus /\ 0 \in 0 .. MaxMemory
      BY DEF Init
    <3> QED BY <3>1 DEF Init, QemuTypes, HistTypes
  <2> QED BY <2>1, <2>2, TypesSplit
<1>3. CpuInv
  BY DEF Init, CpuInv, CpusAre
<1>4. DimmInv
  <2>1. DimmsAre(0)
    BY DEF Init, DimmsAre
  <2> QED BY <2>1 DEF DimmInv
<1>5. BackendInv /\ SizeInv
  BY DEF Init, BackendInv, HasBackend, NoBackendLeft, SizeInv, Adding
<1>6. AloneInv /\ RefusalInv
  BY DEF Init, AloneInv, InMemory, Adding, MemoryCalls, NoMemoryTooMuch, RefusalInv,
         RefusedForAReason
<1> QED BY <1>2, <1>3, <1>4, <1>5, <1>6 DEF IInv

LEMMA Invariance == Spec => []IInv
<1>1. IInv /\ [Next]_vars => IInv'
  BY TypeOKStep, CpuStep, DimmStep, BackendStep, SizeStep, AloneStep, RefusalStep DEF IInv
<1> QED BY InitIInv, <1>1, PTL DEF Spec

\* TypeOK, for any numbers of slots, callers and faults; above all, no DIMM is
\* numbered beyond what there are slots for, and no size underflows.
THEOREM TypeCorrect == Spec => []TypeOK
<1>1. IInv => TypeOK
  BY DEF IInv
<1> QED BY <1>1, Invariance, PTL

\* However calls of SetCPUs interleave, the VM gets no more CPUs than anybody
\* asked for (NoCpuTooMany), since they all fill the slots in one order.
THEOREM CpusAreBounded == Spec => []NoCpuTooMany
<1>1. IInv => NoCpuTooMany
  <2> SUFFICES ASSUME IInv PROVE NoCpuTooMany
    OBVIOUS
  <2>1. PICK k \in 1 .. MaxCpus : plugged = 1 .. k /\ k <= mostCpus
    BY DEF IInv, CpuInv, CpusAre
  <2> QED BY <2>1, HotplugAssumption, SizeOfFirst DEF NoCpuTooMany
<1> QED BY <1>1, Invariance, PTL

\* A caller that was told nil has what it asked for, and keeps it
\* (SuccessIsEnough).
THEOREM SuccessLasts == Spec => []SuccessIsEnough
<1>1. IInv => SuccessIsEnough
  <2> SUFFICES ASSUME IInv PROVE SuccessIsEnough
    OBVIOUS
  <2>1. PICK k \in 1 .. MaxCpus : CpusAre(k)
    BY DEF IInv, CpuInv
  <2>2. Cardinality(plugged) = k
    BY <2>1, HotplugAssumption, SizeOfFirst DEF CpusAre
  <2>3. k \in Nat /\ \A u \in Users : want[u] \in Nat
    BY HotplugAssumption DEF IInv, TypeOK
  <2> QED BY <2>1, <2>2, <2>3 DEF IInv, SizeInv, CpusAre, SuccessIsEnough
<1> QED BY <1>1, Invariance, PTL

\* Unless calls of SetMemory overlap the VM gets no more memory than anybody
\* asked for (NoMemoryTooMuch).
THEOREM MemoryIsBounded == Spec => []NoMemoryTooMuch
<1>1. IInv => NoMemoryTooMuch
  BY DEF IInv, AloneInv
<1> QED BY <1>1, Invariance, PTL

\* No backend is left behind by a DIMM that QEMU refused (NoBackendLeft).
THEOREM BackendsAreRemoved == Spec => []NoBackendLeft
<1>1. IInv => NoBackendLeft
  BY DEF IInv, BackendInv
<1> QED BY <1>1, Invariance, PTL

\* A SetMemory that nothing disturbs is refused only for lack of slots or of
\* address space (RefusedForAReason).
THEOREM RefusalsHaveAReason == Spec => []RefusedForAReason
<1>1. IInv => RefusedForAReason
  BY DEF IInv, RefusalInv
<1> QED BY <1>1, Invariance, PTL
==============================================================================
