------------------------------- MODULE Hotplug -------------------------------
(***************************************************************************)
(* Giving a running VM more CPUs and memory: SetCPUs and SetMemory         *)
(* (driver/driver.go).  Neither holds a lock.  Both decide by what QEMU    *)
(* said at the beginning, and then send commands one by one, while other   *)
(* callers do the same; each command is one action.                        *)
(*                                                                         *)
(* CPU slots are numbered in the order of socket, core and thread, and     *)
(* QEMU boots with the first of them.  Memory beyond that of the boot is   *)
(* in DIMMs, each with a memory backend; a DIMM and its backend have the   *)
(* same number (dimm1 and mem1).  QEMU refuses a name that is taken, and   *)
(* DIMMs for which there is no slot left or no address space.              *)
(***************************************************************************)
EXTENDS Integers, FiniteSets, FiniteSetsExt

CONSTANTS Users,      \* callers, each of which makes one call at a time
          MaxCpus,    \* CPU slots
          MaxMemory,  \* the most memory QEMU can have
          Slots,      \* slots for DIMMs
          MaxFaults   \* bound: commands that fail although QEMU could do them

ASSUME HotplugAssumption ==
    /\ MaxCpus \in Nat \ {0}
    /\ MaxMemory \in Nat \ {0}
    /\ Slots \in Nat
    /\ MaxFaults \in Nat

VARIABLES
    plugged,   \* QEMU: CPU slots in use
    memory,    \* QEMU: how much it has, that of the DIMMs included
    backend,   \* QEMU: the size of each memory backend, 0 if there is none
    dimms,     \* QEMU: the numbers of the DIMMs
    pc,        \* where each caller is
    want,      \* what each caller asked for last, CPUs or memory
    local,     \* the locals of each call: the slots it is still to plug, the
               \* memory it is to add, the number of the new DIMM
    outcome,   \* how each caller's last call ended
    clean,     \* callers of SetMemory that met no fault and no other one
    faults,    \* how many commands have failed by a fault
    mostCpus,  \* the most CPUs that the VM booted with or anybody asked for
    mostMemory,
    overlap    \* two calls of SetMemory were under way at the same time

qemuVars == <<plugged, memory, backend, dimms>>
histVars == <<mostCpus, mostMemory, overlap>>
vars == <<qemuVars, pc, want, local, outcome, clean, faults, histVars>>

NoLocals == [cpus |-> {}, size |-> 0, number |-> 0]

Numbers == 1 .. Slots + 1

MemoryCalls == {"summary", "devices", "backend", "dimm", "undo"}

TypeOK ==
    /\ plugged \in SUBSET (1 .. MaxCpus)
    /\ memory \in 1 .. MaxMemory
    /\ backend \in [Numbers -> 0 .. MaxMemory]
    /\ dimms \in SUBSET {n \in Numbers : backend[n] > 0}
    /\ pc \in [Users -> {"idle", "slots", "plug"} \cup MemoryCalls]
    /\ want \in [Users -> 0 .. MaxCpus + MaxMemory]
    /\ local \in [Users -> [cpus : SUBSET (1 .. MaxCpus), size : 0 .. MaxMemory,
                           number : Numbers \cup {0}]]
    /\ outcome \in [Users -> {"none", "cpus", "memory", "restart", "failed"}]
    /\ clean \in SUBSET Users
    /\ faults \in 0 .. MaxFaults
    /\ mostCpus \in 1 .. MaxCpus
    /\ mostMemory \in 1 .. MaxMemory
    /\ overlap \in BOOLEAN

Init ==
    /\ mostCpus \in 1 .. MaxCpus
    /\ plugged = 1 .. mostCpus
    /\ memory \in 1 .. MaxMemory
    /\ mostMemory = memory
    /\ backend = [n \in Numbers |-> 0]
    /\ dimms = {}
    /\ pc = [u \in Users |-> "idle"]
    /\ want = [u \in Users |-> 0]
    /\ local = [u \in Users |-> NoLocals]
    /\ outcome = [u \in Users |-> "none"]
    /\ clean = {}
    /\ faults = 0
    /\ overlap = FALSE

------------------------------------------------------------------------------
Goto(u, l, locals) ==
    /\ pc' = [pc EXCEPT ![u] = l]
    /\ local' = [local EXCEPT ![u] = locals]
    /\ UNCHANGED <<outcome, clean, faults>>

Return(u, how) ==
    /\ pc' = [pc EXCEPT ![u] = "idle"]
    /\ local' = [local EXCEPT ![u] = NoLocals]
    /\ outcome' = [outcome EXCEPT ![u] = how]
    /\ UNCHANGED <<clean, faults>>

\* The connection breaks, or QEMU cannot do what it is asked to do.  When the
\* command was to add a DIMM its backend is removed.
Fault(u) ==
    /\ faults < MaxFaults
    /\ faults' = faults + 1
    /\ clean' = clean \ {u}
    /\ IF pc[u] = "dimm"
       THEN /\ pc' = [pc EXCEPT ![u] = "undo"]
            /\ UNCHANGED <<local, outcome>>
       ELSE /\ pc' = [pc EXCEPT ![u] = "idle"]
            /\ local' = [local EXCEPT ![u] = NoLocals]
            /\ outcome' = [outcome EXCEPT ![u] = "failed"]

\* The answer to a command that was carried out may be lost.
Then(u, step) == step \/ Fault(u)

------------------------------------------------------------------------------
\* What the code might be, for the checks of the properties.

\* Without the sort: in any order.
QueryHotpluggableCPUsUnsorted(u) ==
    /\ pc[u] = "slots"
    /\ LET needed == want[u] - Cardinality(plugged)
       IN IF needed = 0 THEN Return(u, "cpus")
          ELSE IF needed < 0 THEN Return(u, "restart")
          ELSE \E slots \in kSubset(needed, (1 .. MaxCpus) \ plugged) :
                  Goto(u, "plug", [NoLocals EXCEPT !.cpus = slots])
    /\ UNCHANGED <<qemuVars, want, histVars>>

QueryMemorySummaryUnderflowing(u) ==
    /\ pc[u] = "summary"
    /\ IF want[u] = memory THEN Return(u, "memory")
       ELSE Goto(u, "devices", [NoLocals EXCEPT !.size = want[u] - memory])
    /\ UNCHANGED <<qemuVars, want, histVars>>

QueryMemorySummaryAddingAll(u) ==
    /\ pc[u] = "summary"
    /\ IF want[u] = memory THEN Return(u, "memory")
       ELSE IF want[u] < memory THEN Return(u, "restart")
       ELSE Goto(u, "devices", [NoLocals EXCEPT !.size = want[u]])
    /\ UNCHANGED <<qemuVars, want, histVars>>

QueryMemoryDevicesReusing(u) ==
    /\ pc[u] = "devices"
    /\ Goto(u, "backend", [local[u] EXCEPT !.number = Max(dimms \cup {1})])
    /\ UNCHANGED <<qemuVars, want, histVars>>

PlugDimmWithoutUndo(u) ==
    /\ pc[u] = "dimm"
    /\ IF Cardinality(dimms) < Slots /\ memory + local[u].size <= MaxMemory
       THEN /\ dimms' = dimms \cup {local[u].number}
            /\ memory' = memory + local[u].size
            /\ Return(u, "memory")
       ELSE Return(u, "failed") /\ UNCHANGED <<dimms, memory>>
    /\ UNCHANGED <<plugged, backend, want, histVars>>

PlugDimmIgnoringErrors(u) ==
    /\ pc[u] = "dimm"
    /\ Return(u, "memory")
    /\ IF Cardinality(dimms) < Slots /\ memory + local[u].size <= MaxMemory
       THEN /\ dimms' = dimms \cup {local[u].number}
            /\ memory' = memory + local[u].size
       ELSE UNCHANGED <<dimms, memory>>
    /\ UNCHANGED <<plugged, backend, want, histVars>>

------------------------------------------------------------------------------
(* SetCPUs.                                                                *)

\* The slots that come first in the order of the sort.
NeededSlots(available, needed) ==
    {c \in available : Cardinality({d \in available : d < c}) < needed}

SetCPUs(u, count) ==
    /\ pc[u] = "idle"
    /\ pc' = [pc EXCEPT ![u] = "slots"]
    /\ want' = [want EXCEPT ![u] = count]
    /\ outcome' = [outcome EXCEPT ![u] = "none"]
    /\ clean' = clean \ {u}
    /\ mostCpus' = IF count <= MaxCpus THEN Max({mostCpus, count}) ELSE mostCpus
    /\ UNCHANGED <<qemuVars, local, faults, mostMemory, overlap>>

QueryHotpluggableCPUs(u) ==
    /\ pc[u] = "slots"
    /\ LET available == (1 .. MaxCpus) \ plugged
           needed    == want[u] - Cardinality(plugged)
           slots     == NeededSlots(available, needed)
       IN IF needed = 0 THEN Return(u, "cpus")
          ELSE IF needed < 0 \/ needed > Cardinality(available) THEN Return(u, "restart")
          ELSE Goto(u, "plug", [NoLocals EXCEPT !.cpus = slots])
    /\ UNCHANGED <<qemuVars, want, histVars>>

PlugCpu(u) ==
    /\ pc[u] = "plug"
    /\ LET c    == Min(local[u].cpus)
           rest == local[u].cpus \ {c}
       IN /\ IF c \in plugged THEN Return(u, "failed")
             ELSE Then(u, IF rest = {} THEN Return(u, "cpus")
                          ELSE Goto(u, "plug", [NoLocals EXCEPT !.cpus = rest]))
          /\ plugged' = plugged \cup {c}
    /\ UNCHANGED <<memory, backend, dimms, want, histVars>>

------------------------------------------------------------------------------
(* SetMemory.                                                              *)

Overlapping(u) == {w \in Users \ {u} : pc[w] \in MemoryCalls}

SetMemory(u, bytes) ==
    /\ pc[u] = "idle"
    /\ pc' = [pc EXCEPT ![u] = "summary"]
    /\ want' = [want EXCEPT ![u] = bytes]
    /\ outcome' = [outcome EXCEPT ![u] = "none"]
    /\ clean' = IF Overlapping(u) = {} THEN clean \cup {u}
                ELSE clean \ (Overlapping(u) \cup {u})
    /\ mostMemory' = IF bytes <= MaxMemory THEN Max({mostMemory, bytes}) ELSE mostMemory
    /\ overlap' = (overlap \/ Overlapping(u) # {})
    /\ UNCHANGED <<qemuVars, local, faults, mostCpus>>

QueryMemorySummary(u) ==
    /\ pc[u] = "summary"
    /\ CASE want[u] = memory -> Return(u, "memory")
         [] want[u] < memory -> Return(u, "restart")
         [] OTHER -> Goto(u, "devices", [NoLocals EXCEPT !.size = want[u] - memory])
    /\ UNCHANGED <<qemuVars, want, histVars>>

QueryMemoryDevices(u) ==
    /\ pc[u] = "devices"
    /\ Goto(u, "backend", [local[u] EXCEPT !.number = Max(dimms \cup {0}) + 1])
    /\ UNCHANGED <<qemuVars, want, histVars>>

AddMemoryBackend(u) ==
    /\ pc[u] = "backend"
    /\ LET n == local[u].number
       IN IF backend[n] > 0
          THEN Return(u, "failed") /\ UNCHANGED backend
          ELSE /\ backend' = [backend EXCEPT ![n] = local[u].size]
               /\ Then(u, Goto(u, "dimm", local[u]))
    /\ UNCHANGED <<plugged, memory, dimms, want, histVars>>

Room(n) ==
    /\ Cardinality(dimms) < Slots
    /\ memory + backend[n] <= MaxMemory

PlugDimm(u) ==
    /\ pc[u] = "dimm"
    /\ LET n == local[u].number
       IN IF backend[n] > 0 /\ n \notin dimms /\ Room(n)
          THEN /\ dimms' = dimms \cup {n}
               /\ memory' = memory + backend[n]
               /\ Then(u, Return(u, "memory"))
          ELSE Goto(u, "undo", local[u]) /\ UNCHANGED <<dimms, memory>>
    /\ UNCHANGED <<plugged, backend, want, histVars>>

\* QEMU does not remove a backend that a DIMM uses.
RemoveMemoryBackend(u) ==
    /\ pc[u] = "undo"
    /\ LET n == local[u].number
       IN backend' = [backend EXCEPT ![n] = IF n \in dimms THEN @ ELSE 0]
    /\ Return(u, "failed")
    /\ UNCHANGED <<plugged, memory, dimms, want, histVars>>

------------------------------------------------------------------------------
CommandFails(u) ==
    /\ pc[u] # "idle"
    /\ Fault(u)
    /\ UNCHANGED <<qemuVars, want, histVars>>

Command(u) ==
    \/ QueryHotpluggableCPUs(u) \/ PlugCpu(u)
    \/ QueryMemorySummary(u) \/ QueryMemoryDevices(u) \/ AddMemoryBackend(u)
    \/ PlugDimm(u) \/ RemoveMemoryBackend(u)

Next ==
    \/ \E u \in Users, count \in 1 .. MaxCpus + 1 : SetCPUs(u, count)
    \/ \E u \in Users, bytes \in 1 .. MaxMemory + 1 : SetMemory(u, bytes)
    \/ \E u \in Users : Command(u) \/ CommandFails(u)

Spec == Init /\ [][Next]_vars

------------------------------------------------------------------------------
(* Properties.                                                             *)

\* However calls of SetCPUs interleave, the VM never gets more CPUs than
\* anybody asked for: two of them want the same slots, because of the sort,
\* and all but one are refused.
NoCpuTooMany == Cardinality(plugged) <= mostCpus

\* When SetCPUs returns nil the VM has the CPUs asked for, and when SetMemory
\* returns nil it has the memory asked for, whatever others do meanwhile.
SuccessIsEnough ==
    \A u \in Users :
       /\ outcome[u] = "cpus" => Cardinality(plugged) >= want[u]
       /\ outcome[u] = "memory" => memory >= want[u]

\* The VM gets no more memory than anybody asked for, as long as no two calls
\* of SetMemory overlap.  (If they do, each adds what was missing before.)
NoMemoryTooMuch == overlap \/ memory <= mostMemory

\* A DIMM that QEMU refuses leaves no backend behind, whose name would be in
\* the way of the next SetMemory.
NoBackendLeft ==
    \A n \in Numbers \ dimms :
       backend[n] > 0 =>
          faults > 0 \/ \E u \in Users : pc[u] \in {"dimm", "undo"} /\ local[u].number = n

\* A SetMemory that meets no fault and no other SetMemory is refused only for
\* lack of slots or of address space: the number it chooses is not in use.
RefusedForAReason ==
    faults = 0 => \A u \in clean :
       (pc[u] = "idle" /\ outcome[u] = "failed" /\ want[u] <= MaxMemory) =>
          Cardinality(dimms) >= Slots

==============================================================================
