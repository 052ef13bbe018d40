------------------------------- MODULE Volumes -------------------------------
(***************************************************************************)
(* Attaching volumes to a running VM and detaching them: AttachVolume and  *)
(* DetachVolume (driver/driver.go) with the Plug methods of rbd.go and     *)
(* image.go (devices/storage).                                             *)
(*                                                                         *)
(* None of them holds a lock, so the QMP commands of different callers     *)
(* interleave; each command is one action.  A volume in QEMU is a block    *)
(* node and a SCSI device that uses the node, both named for the volume.   *)
(* QEMU refuses a name that is taken, a device without its node, and the   *)
(* deletion of a node in use.  Deleting a device asks the guest to let go  *)
(* of it, which takes a while.                                             *)
(***************************************************************************)
EXTENDS Naturals, FiniteSets

CONSTANTS Volumes,
          Rbd,        \* the Ceph volumes; the others are image files
          Users,      \* callers, each of which makes one call at a time
          NoVolume,
          MaxFaults   \* bound: commands that fail although QEMU could do them

ASSUME VolumesAssumption ==
    /\ Rbd \subseteq Volumes
    /\ NoVolume \notin Volumes
    /\ MaxFaults \in Nat

VARIABLES
    node,      \* QEMU: volumes with a block node
    device,    \* QEMU: the SCSI device of each volume
    pc,        \* where each caller is
    op,        \* the last call of each caller: "attach" or "detach"
    vol,       \* the volume it is about
    outcome,   \* and how it ended
    began,     \* what QEMU had of the volume when that call began
    clean,     \* callers whose call met no fault, and no other call on its volume
    faults,    \* how many commands have failed by a fault
    last       \* what the last call on each volume reported, if it was clean

vars == <<node, device, pc, op, vol, outcome, began, clean, faults, last>>

DeviceStates == {"none", "attached", "unplugging"}

\* Only for a Ceph volume is QEMU asked what it has already.
OnlyCephIsLookedFor ==
    \A u \in Users : pc[u] \in {"query_node", "query_device"} => vol[u] \in Rbd

TypeOK ==
    /\ node \in SUBSET Volumes
    /\ device \in [Volumes -> DeviceStates]
    /\ pc \in [Users -> {"idle", "query_node", "add_node", "query_device",
                         "add_device", "delete_device", "delete_node"}]
    /\ op \in [Users -> {"none", "attach", "detach"}]
    /\ vol \in [Users -> Volumes \cup {NoVolume}]
    /\ OnlyCephIsLookedFor
    /\ outcome \in [Users -> {"none", "done", "failed"}]
    /\ began \in [Users -> [node : BOOLEAN, device : DeviceStates]]
    /\ clean \in SUBSET Users
    /\ faults \in 0 .. MaxFaults
    /\ last \in [Volumes -> {"none", "attached", "still_attached", "detached"}]

\* Start may have plugged some volumes.
Init ==
    /\ node \in SUBSET Volumes
    /\ device = [v \in Volumes |-> IF v \in node THEN "attached" ELSE "none"]
    /\ pc = [u \in Users |-> "idle"]
    /\ op = [u \in Users |-> "none"]
    /\ vol = [u \in Users |-> NoVolume]
    /\ outcome = [u \in Users |-> "none"]
    /\ began = [u \in Users |-> [node |-> FALSE, device |-> "none"]]
    /\ clean = {}
    /\ faults = 0
    /\ last = [v \in Volumes |-> "none"]

------------------------------------------------------------------------------
callVars == <<op, vol, began, clean>>

Goto(u, l) ==
    /\ pc' = [pc EXCEPT ![u] = l]
    /\ UNCHANGED <<callVars, outcome, faults, last>>

\* The call returns nil, or the error that QEMU gave.
Return(u, how) ==
    /\ pc' = [pc EXCEPT ![u] = "idle"]
    /\ outcome' = [outcome EXCEPT ![u] = how]
    /\ last' = [last EXCEPT ![vol[u]] =
                   IF u \notin clean \/ how = "failed" THEN "none"
                   ELSE IF op[u] = "detach" THEN "detached"
                   ELSE IF began[u].device = "none" THEN "attached"
                   ELSE "still_attached"]
    /\ UNCHANGED <<callVars, faults>>

\* The connection breaks, or QEMU cannot do what it is asked to do.
Fault(u) ==
    /\ faults < MaxFaults
    /\ faults' = faults + 1
    /\ pc' = [pc EXCEPT ![u] = "idle"]
    /\ outcome' = [outcome EXCEPT ![u] = "failed"]
    /\ clean' = clean \ {u}
    /\ UNCHANGED <<op, vol, began, last>>

\* The answer to a command that was carried out may be lost.
Then(u, step) == step \/ Fault(u)

Others(u, v) == {w \in Users \ {u} : pc[w] # "idle" /\ vol[w] = v}

Begin(u, what, v, l) ==
    /\ pc[u] = "idle"
    /\ pc' = [pc EXCEPT ![u] = l]
    /\ op' = [op EXCEPT ![u] = what]
    /\ vol' = [vol EXCEPT ![u] = v]
    /\ outcome' = [outcome EXCEPT ![u] = "none"]
    /\ began' = [began EXCEPT ![u] = [node |-> v \in node, device |-> device[v]]]
    /\ clean' = IF Others(u, v) = {} THEN clean \cup {u}
                ELSE clean \ (Others(u, v) \cup {u})
    /\ last' = [last EXCEPT ![v] = "none"]
    /\ UNCHANGED <<node, device, faults>>

------------------------------------------------------------------------------
\* What the code might be, for the checks of the properties.
DeleteNodeIgnoringErrors(u) ==
    /\ pc[u] = "delete_node"
    /\ Return(u, "done")
    /\ node' = IF device[vol[u]] = "none" THEN node \ {vol[u]} ELSE node
    /\ UNCHANGED device

DeleteDeviceFirstFound(u) ==
    /\ pc[u] = "delete_device"
    /\ IF device[vol[u]] = "none"
       THEN Return(u, "failed") /\ UNCHANGED device
       ELSE /\ device' = [device EXCEPT ![vol[u]] = "unplugging"]
            /\ Then(u, Goto(u, "delete_node"))
    /\ UNCHANGED node

AddBlockDeviceThenLook(u) ==
    /\ pc[u] = "add_node"
    /\ IF vol[u] \in node THEN Return(u, "failed") ELSE Then(u, Goto(u, "query_device"))
    /\ node' = node \cup {vol[u]}
    /\ UNCHANGED device

------------------------------------------------------------------------------
(* AttachVolume.                                                           *)

AttachVolume(u, v) ==
    Begin(u, "attach", v, IF v \in Rbd THEN "query_node" ELSE "add_node")

QueryNamedBlockNodes(u) ==
    /\ pc[u] = "query_node"
    /\ Goto(u, IF vol[u] \in node THEN "query_device" ELSE "add_node")
    /\ UNCHANGED <<node, device>>

\* image.go adds the device at once, rbd.go looks for it first.
AddBlockDevice(u) ==
    /\ pc[u] = "add_node"
    /\ IF vol[u] \in node
       THEN Return(u, "failed")
       ELSE Then(u, Goto(u, IF vol[u] \in Rbd THEN "query_device" ELSE "add_device"))
    /\ node' = node \cup {vol[u]}
    /\ UNCHANGED device

QomList(u) ==
    /\ pc[u] = "query_device"
    /\ IF device[vol[u]] = "none" THEN Goto(u, "add_device") ELSE Return(u, "done")
    /\ UNCHANGED <<node, device>>

AddDevice(u) ==
    /\ pc[u] = "add_device"
    /\ \/ /\ vol[u] \in node
          /\ device[vol[u]] = "none"
          /\ device' = [device EXCEPT ![vol[u]] = "attached"]
          /\ Then(u, Return(u, "done"))
       \/ /\ vol[u] \notin node \/ device[vol[u]] # "none"
          /\ Return(u, "failed")
          /\ UNCHANGED device
    /\ UNCHANGED node

------------------------------------------------------------------------------
(* DetachVolume.                                                           *)

DetachVolume(u, v) == Begin(u, "detach", v, "delete_device")

\* "not found" is ignored.  QEMU may refuse to be asked twice.
DeleteDevice(u) ==
    /\ pc[u] = "delete_device"
    /\ \/ /\ device[vol[u]] = "none"
          /\ Goto(u, "delete_node")
          /\ UNCHANGED device
       \/ /\ device[vol[u]] # "none"
          /\ device' = [device EXCEPT ![vol[u]] = "unplugging"]
          /\ Then(u, Goto(u, "delete_node"))
       \/ /\ device[vol[u]] = "unplugging"
          /\ Return(u, "failed")
          /\ UNCHANGED device
    /\ UNCHANGED node

\* After a second of sleep; "Failed to find node" is ignored.
DeleteBlockDevice(u) ==
    /\ pc[u] = "delete_node"
    /\ IF device[vol[u]] = "none"
       THEN node' = node \ {vol[u]} /\ Then(u, Return(u, "done"))
       ELSE Return(u, "failed") /\ UNCHANGED node
    /\ UNCHANGED device

------------------------------------------------------------------------------
CommandFails(u) == pc[u] # "idle" /\ Fault(u) /\ UNCHANGED <<node, device>>

\* The guest lets go of the device.
Unplugged(v) ==
    /\ device[v] = "unplugging"
    /\ device' = [device EXCEPT ![v] = "none"]
    /\ UNCHANGED <<node, pc, op, vol, outcome, began, clean, faults, last>>

Command(u) ==
    \/ QueryNamedBlockNodes(u) \/ AddBlockDevice(u) \/ QomList(u) \/ AddDevice(u)
    \/ DeleteDevice(u) \/ DeleteBlockDevice(u)

Next ==
    \/ \E u \in Users, v \in Volumes : AttachVolume(u, v) \/ DetachVolume(u, v)
    \/ \E u \in Users : Command(u) \/ CommandFails(u)
    \/ \E v \in Volumes : Unplugged(v)

Spec == Init /\ [][Next]_vars

------------------------------------------------------------------------------
(* Properties.                                                             *)

Ended(u, what, how) == pc[u] = "idle" /\ op[u] = what /\ outcome[u] = how

\* What the last call on a volume reported is true, and remains so: after a
\* Detach that returned nil nothing of the volume is in QEMU; after an Attach
\* that returned nil it is attached, unless rbd.go found its device there: the
\* guest may be busy letting go of it for an earlier, failed, Detach.
SuccessIsLasting ==
    \A v \in Volumes :
       /\ last[v] = "detached" => v \notin node /\ device[v] = "none"
       /\ last[v] = "attached" => device[v] = "attached"

\* Failed calls do not stand in the way of later ones.  When nothing interferes
\* with a call, an Attach fails only on an image file of which QEMU has a block
\* node (rbd.go goes on with what an earlier attempt left behind, image.go does
\* not), and a Detach, which clears away whatever was left behind, only on a
\* device that the guest holds on to.
FailsForAReason ==
    \A u \in clean :
       /\ Ended(u, "attach", "failed") => vol[u] \notin Rbd /\ began[u].node
       /\ Ended(u, "detach", "failed") => began[u].device # "none"

==============================================================================
