----------------------------- MODULE VolumesProofs -----------------------------
(***************************************************************************)
(* Volumes, for any number of volumes, callers and faults: what a call that *)
(* met no fault and no rival reports is true and stays true, and such a     *)
(* call fails only for the reasons the code means it to.                   *)
(***************************************************************************)
EXTENDS Volumes, TLAPS

Running(u) == pc[u] # "idle"

\* A call under way has a volume, of which nothing is reported yet.
CallInv ==
    \A u \in Users : Running(u) =>
        /\ vol[u] \in Volumes
        /\ last[vol[u]] = "none"
        /\ op[u] = IF pc[u] \in {"delete_device", "delete_node"} THEN "detach" ELSE "attach"

\* A clean call has its volume to itself.
AloneInv ==
    \A u \in clean : \A w \in Users \ {u} :
        Running(u) /\ Running(w) => vol[u] # vol[w]

\* What was there when a call began is there still, but for what the guest let
\* go of.
NodeAsFound(u)   == vol[u] \in node <=> began[u].node
DeviceAsFound(u) == \/ device[vol[u]] = began[u].device
                    \/ device[vol[u]] = "none" /\ began[u].device = "unplugging"

\* How far a clean call has come.
Progress(u) ==
    /\ pc[u] = "query_node" =>
          vol[u] \in Rbd /\ NodeAsFound(u) /\ DeviceAsFound(u)
    /\ pc[u] = "add_node" =>
          /\ NodeAsFound(u) /\ DeviceAsFound(u)
          /\ vol[u] \in Rbd => vol[u] \notin node
    /\ pc[u] = "query_device" =>
          vol[u] \in Rbd /\ vol[u] \in node /\ DeviceAsFound(u)
    /\ pc[u] = "add_device" =>
          /\ vol[u] \in node
          /\ device[vol[u]] = "none"
    /\ pc[u] = "delete_device" => DeviceAsFound(u)
    /\ pc[u] = "delete_node" =>
          /\ device[vol[u]] # "attached"
          /\ began[u].device = "none" => device[vol[u]] = "none"

ProgressInv == \A u \in clean : Running(u) => Progress(u)

------------------------------------------------------------------------------
(* Types.                                                                  *)

\* What the end of a call leaves of the types.
CallTypes ==
    /\ pc \in [Users -> {"idle", "query_node", "add_node", "query_device",
                         "add_device", "delete_device", "delete_node"}]
    /\ op \in [Users -> {"none", "attach", "detach"}]
    /\ vol \in [Users -> Volumes \cup {NoVolume}]
    /\ outcome \in [Users -> {"none", "done", "failed"}]
    /\ began \in [Users -> [node : BOOLEAN, device : DeviceStates]]
    /\ clean \in SUBSET Users
    /\ faults \in 0 .. MaxFaults
    /\ last \in [Volumes -> {"none", "attached", "still_attached", "detached"}]

LEMMA ReturnTypes ==
    ASSUME TypeOK, NEW u \in Users, NEW how \in {"done", "failed"}, Return(u, how)
    PROVE  CallTypes'
<1>1. last' \in [Volumes -> {"none", "attached", "still_attached", "detached"}]
  BY DEF TypeOK, Return
<1> QED BY <1>1 DEF TypeOK, CallTypes, Return, callVars

LEMMA FaultTypes ==
    ASSUME TypeOK, NEW u \in Users, Fault(u)
    PROVE  CallTypes'
BY VolumesAssumption DEF TypeOK, CallTypes, Fault

LEMMA GotoTypes ==
    ASSUME TypeOK, NEW u \in Users, Goto(u, "query_node") \/ Goto(u, "add_node")
             \/ Goto(u, "query_device") \/ Goto(u, "add_device")
             \/ Goto(u, "delete_node")
    PROVE  CallTypes'
BY DEF TypeOK, CallTypes, Goto, callVars

\* QEMU refuses a device without its node, and the deletion of a node in use.
NodeInv == \A v \in Volumes : device[v] # "none" => v \in node

LEMMA TypeOKStep ==
    ASSUME TypeOK, NodeInv, CallInv, [Next]_vars
    PROVE  TypeOK' /\ NodeInv'
<1> USE DEF NodeInv
<1>1. ASSUME NEW u \in Users, NEW v \in Volumes, AttachVolume(u, v) PROVE TypeOK' /\ NodeInv'
  BY <1>1 DEF TypeOK, OnlyCephIsLookedFor, AttachVolume, Begin, Others, DeviceStates
<1>2. ASSUME NEW u \in Users, NEW v \in Volumes, DetachVolume(u, v) PROVE TypeOK' /\ NodeInv'
  BY <1>2 DEF TypeOK, OnlyCephIsLookedFor, DetachVolume, Begin, Others, DeviceStates
<1>3. ASSUME NEW u \in Users, QueryNamedBlockNodes(u) PROVE TypeOK' /\ NodeInv'
  <2>1. CallTypes'
    BY <1>3, ReturnTypes, FaultTypes, GotoTypes DEF QueryNamedBlockNodes, Then
  <2>2. /\ node' \in SUBSET Volumes
        /\ device' \in [Volumes -> DeviceStates]
        /\ NodeInv'
    BY <1>3 DEF QueryNamedBlockNodes, TypeOK, CallInv, Running, DeviceStates
  <2>3. OnlyCephIsLookedFor'
    BY <1>3 DEF QueryNamedBlockNodes, OnlyCephIsLookedFor, TypeOK, Then, Goto, Return, Fault, callVars
  <2> QED BY <2>1, <2>2, <2>3 DEF TypeOK, CallTypes, OnlyCephIsLookedFor
<1>4. ASSUME NEW u \in Users, AddBlockDevice(u) PROVE TypeOK' /\ NodeInv'
  <2>1. CallTypes'
    BY <1>4, ReturnTypes, FaultTypes, GotoTypes DEF AddBlockDevice, Then
  <2>2. /\ node' \in SUBSET Volumes
        /\ device' \in [Volumes -> DeviceStates]
        /\ NodeInv'
    BY <1>4 DEF AddBlockDevice, TypeOK, CallInv, Running, DeviceStates
  <2>3. OnlyCephIsLookedFor'
    BY <1>4 DEF AddBlockDevice, OnlyCephIsLookedFor, TypeOK, Then, Goto, Return, Fault, callVars
  <2> QED BY <2>1, <2>2, <2>3 DEF TypeOK, CallTypes, OnlyCephIsLookedFor
<1>5. ASSUME NEW u \in Users, QomList(u) PROVE TypeOK' /\ NodeInv'
  <2>1. CallTypes'
    BY <1>5, ReturnTypes, FaultTypes, GotoTypes DEF QomList, Then
  <2>2. /\ node' \in SUBSET Volumes
        /\ device' \in [Volumes -> DeviceStates]
        /\ NodeInv'
    BY <1>5 DEF QomList, TypeOK, CallInv, Running, DeviceStates
  <2>3. OnlyCephIsLookedFor'
    BY <1>5 DEF QomList, OnlyCephIsLookedFor, TypeOK, Then, Goto, Return, Fault, callVars
  <2> QED BY <2>1, <2>2, <2>3 DEF TypeOK, CallTypes, OnlyCephIsLookedFor
<1>6. ASSUME NEW u \in Users, AddDevice(u) PROVE TypeOK' /\ NodeInv'
  <2>1. CallTypes'
    BY <1>6, ReturnTypes, FaultTypes, GotoTypes DEF AddDevice, Then
  <2>2. /\ node' \in SUBSET Volumes
        /\ device' \in [Volumes -> DeviceStates]
        /\ NodeInv'
    <3>1. CASE device' = [device EXCEPT ![vol[u]] = "attached"] /\ vol[u] \in node
      BY <1>6, <3>1 DEF AddDevice, TypeOK, DeviceStates
    <3>2. CASE UNCHANGED device
      BY <1>6, <3>2 DEF AddDevice, TypeOK
    <3> QED BY <1>6, <3>1, <3>2 DEF AddDevice
  <2>3. OnlyCephIsLookedFor'
    BY <1>6 DEF AddDevice, OnlyCephIsLookedFor, TypeOK, Then, Goto, Return, Fault, callVars
  <2> QED BY <2>1, <2>2, <2>3 DEF TypeOK, CallTypes, OnlyCephIsLookedFor
<1>7. ASSUME NEW u \in Users, DeleteDevice(u) PROVE TypeOK' /\ NodeInv'
  <2>1. CallTypes'
    BY <1>7, ReturnTypes, FaultTypes, GotoTypes DEF DeleteDevice, Then
  <2>2. /\ node' \in SUBSET Volumes
        /\ device' \in [Volumes -> DeviceStates]
        /\ NodeInv'
    BY <1>7 DEF DeleteDevice, TypeOK, CallInv, Running, DeviceStates
  <2>3. OnlyCephIsLookedFor'
    <3>1. \E l \in {"idle", "delete_node"} : pc' = [pc EXCEPT ![u] = l]
      BY <1>7 DEF DeleteDevice, Then, Goto, Return, Fault
    <3>2. UNCHANGED vol
      BY <1>7 DEF DeleteDevice, Then, Goto, Return, Fault, callVars
    <3> QED BY <3>1, <3>2 DEF OnlyCephIsLookedFor, TypeOK
  <2> QED BY <2>1, <2>2, <2>3 DEF TypeOK, CallTypes, OnlyCephIsLookedFor
<1>8. ASSUME NEW u \in Users, DeleteBlockDevice(u) PROVE TypeOK' /\ NodeInv'
  <2>1. CallTypes'
    BY <1>8, ReturnTypes, FaultTypes, GotoTypes DEF DeleteBlockDevice, Then
  <2>2. /\ node' \in SUBSET Volumes
        /\ device' \in [Volumes -> DeviceStates]
        /\ NodeInv'
    BY <1>8 DEF DeleteBlockDevice, TypeOK, CallInv, Running, DeviceStates
  <2>3. OnlyCephIsLookedFor'
    BY <1>8 DEF DeleteBlockDevice, OnlyCephIsLookedFor, TypeOK, Then, Goto, Return, Fault, callVars
  <2> QED BY <2>1, <2>2, <2>3 DEF TypeOK, CallTypes, OnlyCephIsLookedFor
<1>9. ASSUME NEW u \in Users, CommandFails(u) PROVE TypeOK' /\ NodeInv'
  <2>1. CallTypes'
    BY <1>9, ReturnTypes, FaultTypes, GotoTypes DEF CommandFails, Then
  <2>2. /\ node' \in SUBSET Volumes
        /\ device' \in [Volumes -> DeviceStates]
        /\ NodeInv'
    BY <1>9 DEF CommandFails, TypeOK, CallInv, Running, DeviceStates
  <2>3. OnlyCephIsLookedFor'
    BY <1>9 DEF CommandFails, OnlyCephIsLookedFor, TypeOK, Then, Goto, Return, Fault, callVars
  <2> QED BY <2>1, <2>2, <2>3 DEF TypeOK, CallTypes, OnlyCephIsLookedFor
<1>10. ASSUME NEW v \in Volumes, Unplugged(v) PROVE TypeOK' /\ NodeInv'
  BY <1>10 DEF TypeOK, OnlyCephIsLookedFor, Unplugged, DeviceStates
<1>11. CASE UNCHANGED vars
  BY <1>11 DEF TypeOK, OnlyCephIsLookedFor, vars
<1> QED
  BY <1>1, <1>2, <1>3, <1>4, <1>5, <1>6, <1>7, <1>8, <1>9, <1>10, <1>11
     DEF Next, Command

------------------------------------------------------------------------------
(* The inductive invariant.                                                *)

CleanInv == CallInv /\ AloneInv /\ ProgressInv /\ SuccessIsLasting /\ FailsForAReason

\* A truth value put into a record comes out of it.
LEMMA RecordedNode ==
    ASSUME NEW v, NEW d, NEW r, r = [node |-> v \in node, device |-> d]
    PROVE  r.node <=> v \in node
<1>1. r.node = (v \in node)
  OBVIOUS
<1> QED BY <1>1, Zenon

LEMMA CleanInvStep ==
    ASSUME TypeOK, NodeInv, CleanInv, [Next]_vars
    PROVE  CleanInv'
<1> USE VolumesAssumption
    DEF TypeOK, CleanInv, CallInv, AloneInv, ProgressInv, Progress, NodeAsFound,
        DeviceAsFound, SuccessIsLasting, FailsForAReason, Ended, Running, callVars,
        DeviceStates
<1>1. ASSUME NEW u \in Users, NEW v \in Volumes, AttachVolume(u, v) PROVE CleanInv'
  <2>1. CASE v \in Rbd
    <3>1. Begin(u, "attach", v, "query_node")
      BY <1>1, <2>1 DEF AttachVolume
    <3>2. ProgressInv'
      <4>1. /\ pc' = [pc EXCEPT ![u] = "query_node"]
            /\ vol' = [vol EXCEPT ![u] = v]
            /\ began' = [began EXCEPT ![u] = [node |-> v \in node, device |-> device[v]]]
            /\ clean' \subseteq clean \cup {u}
            /\ UNCHANGED <<node, device>>
        BY <3>1 DEF Begin
      <4>2. Progress(u)'
        <5>1. pc'[u] = "query_node" /\ vol'[u] = v
          BY <4>1
        <5>2. began'[u] = [node |-> v \in node, device |-> device[v]]
          BY <4>1
        <5>3. began'[u].node <=> v \in node
          BY <5>2, RecordedNode
        <5>4. began'[u].device = device[v]
          BY <5>2
        <5> QED BY <2>1, <4>1, <5>1, <5>3, <5>4
      <4>3. ASSUME NEW w \in clean, w # u, Running(w) PROVE Progress(w)'
        BY <4>1, <4>3
      <4> QED BY <4>1, <4>2, <4>3
    <3>3. CallInv' /\ AloneInv'
      BY <3>1 DEF Begin, Others
    <3>4. SuccessIsLasting' /\ FailsForAReason'
      BY <3>1 DEF Begin, Others
    <3> QED BY <3>2, <3>3, <3>4
  <2>2. CASE v \notin Rbd
    <3>1. Begin(u, "attach", v, "add_node")
      BY <1>1, <2>2 DEF AttachVolume
    <3>2. ProgressInv'
      <4>1. /\ pc' = [pc EXCEPT ![u] = "add_node"]
            /\ vol' = [vol EXCEPT ![u] = v]
            /\ began' = [began EXCEPT ![u] = [node |-> v \in node, device |-> device[v]]]
            /\ clean' \subseteq clean \cup {u}
            /\ UNCHANGED <<node, device>>
        BY <3>1 DEF Begin
      <4>2. Progress(u)'
        <5>1. pc'[u] = "add_node" /\ vol'[u] = v
          BY <4>1
        <5>2. began'[u] = [node |-> v \in node, device |-> device[v]]
          BY <4>1
        <5>3. began'[u].node <=> v \in node
          BY <5>2, RecordedNode
        <5>4. began'[u].device = device[v]
          BY <5>2
        <5> QED BY <2>2, <4>1, <5>1, <5>3, <5>4
      <4>3. ASSUME NEW w \in clean, w # u, Running(w) PROVE Progress(w)'
        BY <4>1, <4>3
      <4> QED BY <4>1, <4>2, <4>3
    <3>3. CallInv' /\ AloneInv'
      BY <3>1 DEF Begin, Others
    <3>4. SuccessIsLasting' /\ FailsForAReason'
      BY <3>1 DEF Begin, Others
    <3> QED BY <3>2, <3>3, <3>4
  <2> QED BY <2>1, <2>2
<1>2. ASSUME NEW u \in Users, NEW v \in Volumes, DetachVolume(u, v) PROVE CleanInv'
  BY <1>2 DEF DetachVolume, Begin, Others
<1>3. ASSUME NEW u \in Users, QueryNamedBlockNodes(u) PROVE CleanInv'
  BY <1>3 DEF QueryNamedBlockNodes, Goto
<1>4. ASSUME NEW u \in Users, AddBlockDevice(u) PROVE CleanInv'
  BY <1>4, SMTT(40) DEF NodeInv, AddBlockDevice, Goto, Return, Then, Fault
<1>5. ASSUME NEW u \in Users, QomList(u) PROVE CleanInv'
  BY <1>5 DEF QomList, Goto, Return
<1>6. ASSUME NEW u \in Users, AddDevice(u) PROVE CleanInv'
  BY <1>6, SMTT(40) DEF NodeInv, AddDevice, Return, Then, Fault
<1>7. ASSUME NEW u \in Users, DeleteDevice(u) PROVE CleanInv'
  <2>1. CallInv' /\ AloneInv'
    BY <1>7, SMTT(40) DEF DeleteDevice, Goto, Return, Then, Fault
  <2>2. ProgressInv'
    BY <1>7 DEF DeleteDevice, Goto, Return, Then, Fault
  <2>3. SuccessIsLasting' /\ FailsForAReason'
    BY <1>7 DEF DeleteDevice, Goto, Return, Then, Fault
  <2> QED BY <2>1, <2>2, <2>3
<1>8. ASSUME NEW u \in Users, DeleteBlockDevice(u) PROVE CleanInv'
  BY <1>8 DEF DeleteBlockDevice, Return, Then, Fault
<1>9. ASSUME NEW u \in Users, CommandFails(u) PROVE CleanInv'
  BY <1>9 DEF CommandFails, Fault
<1>10. ASSUME NEW v \in Volumes, Unplugged(v) PROVE CleanInv'
  BY <1>10 DEF Unplugged
<1>11. CASE UNCHANGED vars
  BY <1>11 DEF vars
<1> QED
  BY <1>1, <1>2, <1>3, <1>4, <1>5, <1>6, <1>7, <1>8, <1>9, <1>10, <1>11
     DEF Next, Command

LEMMA Invariance == Spec => [](TypeOK /\ NodeInv /\ CleanInv)
<1>1. Init => TypeOK /\ NodeInv /\ CleanInv
  BY VolumesAssumption
     DEF Init, TypeOK, OnlyCephIsLookedFor, NodeInv, CleanInv, CallInv, AloneInv, ProgressInv, SuccessIsLasting,
         FailsForAReason, Ended, Running, DeviceStates
<1>2. TypeOK /\ NodeInv /\ CleanInv /\ [Next]_vars => TypeOK' /\ NodeInv' /\ CleanInv'
  BY TypeOKStep, CleanInvStep DEF CleanInv
<1> QED BY <1>1, <1>2, PTL DEF Spec

------------------------------------------------------------------------------
(* The theorems.                                                           *)

\* Every variable keeps its type, and only for a Ceph volume is QEMU asked what
\* it has already.
THEOREM TypeCorrect == Spec => []TypeOK
BY Invariance, PTL

\* What a clean call reports of its volume remains true until the next call.
THEOREM SuccessLasts == Spec => []SuccessIsLasting
<1>1. CleanInv => SuccessIsLasting
  BY DEF CleanInv
<1> QED BY <1>1, Invariance, PTL

\* A clean Attach fails only on the node of an image file that was there before,
\* and a clean Detach only on a device that the guest holds on to.
THEOREM FailuresHaveAReason == Spec => []FailsForAReason
<1>1. CleanInv => FailsForAReason
  BY DEF CleanInv
<1> QED BY <1>1, Invariance, PTL

===============================================================================
