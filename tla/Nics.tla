-------------------------------- MODULE Nics --------------------------------
(***************************************************************************)
(* Attaching network adapters to a running VM and detaching them:          *)
(* AttachNetworkAdapter and DetachNetworkAdapter (driver/driver.go) with   *)
(* Plug and UnplugTapNetworkDevice (devices/pcie/tapNetwork.go).           *)
(*                                                                         *)
(* As in Volumes, no lock is held and each QMP command is one action.  An  *)
(* adapter in QEMU is a netdev and a device that uses it, in a PCIe root   *)
(* port of its own.  The netdev is given a tap fd and a vhost fd for every *)
(* CPU, which are sent to QEMU beforehand under names made of the          *)
(* adapter's name and a number.  A name that is sent again replaces the    *)
(* earlier fd, and netdev_add takes the fds that it uses off QEMU's list.  *)
(***************************************************************************)
EXTENDS Naturals, FiniteSets, FiniteSetsExt

CONSTANTS Adapters,
          Ports,      \* the root ports, numbered in the order QEMU lists them
          Users,      \* callers, each of which makes one call at a time
          NoAdapter,
          NoPort,
          MaxCpus,    \* bound: how many CPUs the VM comes to have
          MaxFaults   \* bound: commands that fail although QEMU could do them

ASSUME NicsAssumption ==
    /\ Ports \subseteq Nat /\ IsFiniteSet(Ports) /\ NoPort \notin Ports
    /\ NoAdapter \notin Adapters
    /\ MaxCpus \in Nat \ {0}
    /\ MaxFaults \in Nat

VARIABLES
    netdev,    \* QEMU: adapters with a netdev
    device,    \* QEMU: the virtio-net-pci device of each adapter
    port,      \* QEMU: the root port it is in
    fds,       \* QEMU: the fds sent to it that nothing has taken
    cpus,      \* QEMU: how many CPUs the VM has
    pc,        \* where each caller is
    op,        \* the call of each caller: "attach" or "detach"
    adapter,   \* the adapter it is about
    local,     \* Plug's locals: the port chosen, queueCount, the numbers of fdNames
    clean,     \* callers whose call has met no fault, and no call in its way
    excused,   \* those that may yet fail because of how they found QEMU
    faults,    \* how many commands have failed by a fault
    last       \* what the last call on each adapter achieved, if it was clean

qemuVars == <<netdev, device, port, fds, cpus>>
callVars == <<op, adapter>>
vars == <<qemuVars, pc, callVars, local, clean, excused, faults, last>>

Queues == 0 .. MaxCpus - 1

Fd(a, kind, i) == [adapter |-> a, kind |-> kind, queue |-> i]

TypeOK ==
    /\ netdev \in SUBSET Adapters
    /\ device \in [Adapters -> {"none", "attached", "unplugging"}]
    /\ port \in [Adapters -> Ports \cup {NoPort}]
    /\ \A a \in Adapters : device[a] = "none" <=> port[a] = NoPort
    /\ \A a, b \in Adapters : port[a] = port[b] => a = b \/ port[a] = NoPort
    /\ fds \in SUBSET [adapter : Adapters, kind : {"tap", "vhost"}, queue : Queues]
    /\ cpus \in 1 .. MaxCpus
    /\ pc \in [Users -> {"idle", "tap", "vhost", "netdev", "device", "close",
                         "del_device", "del_netdev"}]
    /\ op \in [Users -> {"none", "attach", "detach"}]
    /\ adapter \in [Users -> Adapters \cup {NoAdapter}]
    /\ local \in [Users -> [port : Ports \cup {NoPort}, queues : 0 .. MaxCpus,
                            sent : SUBSET Queues]]
    /\ clean \in SUBSET Users
    /\ excused \in SUBSET clean
    /\ faults \in 0 .. MaxFaults
    /\ last \in [Adapters -> {"none", "attached", "detached"}]

Used == {port[a] : a \in Adapters}

NoLocals == [port |-> NoPort, queues |-> 0, sent |-> {}]

\* Start may have plugged some adapters, each into a port of its own.
Init ==
    /\ netdev \in SUBSET Adapters
    /\ device = [a \in Adapters |-> IF a \in netdev THEN "attached" ELSE "none"]
    /\ port \in [Adapters -> Ports \cup {NoPort}]
    /\ \A a \in Adapters : a \in netdev <=> port[a] # NoPort
    /\ \A a, b \in netdev : port[a] = port[b] => a = b
    /\ fds = {}
    /\ cpus = 1
    /\ pc = [u \in Users |-> "idle"]
    /\ op = [u \in Users |-> "none"]
    /\ adapter = [u \in Users |-> NoAdapter]
    /\ local = [u \in Users |-> NoLocals]
    /\ excused = {}
    /\ clean = {}
    /\ faults = 0
    /\ last = [a \in Adapters |-> "none"]

------------------------------------------------------------------------------
(* How a call goes on.                                                     *)

Goto(u, l, locals) ==
    /\ pc' = [pc EXCEPT ![u] = l]
    /\ local' = [local EXCEPT ![u] = locals]
    /\ UNCHANGED <<callVars, clean, excused, faults, last>>

Over(u) ==
    /\ pc' = [pc EXCEPT ![u] = "idle"]
    /\ op' = [op EXCEPT ![u] = "none"]
    /\ adapter' = [adapter EXCEPT ![u] = NoAdapter]
    /\ local' = [local EXCEPT ![u] = NoLocals]
    /\ excused' = excused \ {u}
    /\ clean' = clean \ {u}

Return(u, how) ==
    /\ Over(u)
    /\ last' = [last EXCEPT ![adapter[u]] = IF u \in clean THEN how ELSE "none"]
    /\ UNCHANGED faults

\* Plug returns an error: its deferred function closes the tap fds it sent.
Fail(u) == IF local[u].sent = {} THEN Return(u, "none") ELSE Goto(u, "close", local[u])

\* A step that fails for a reason of its own.  When it is a closefd, the
\* connection is gone, and so are the other names of the list.
Break(u) ==
    /\ IF local[u].sent = {} \/ pc[u] = "close"
       THEN Over(u)
       ELSE /\ pc' = [pc EXCEPT ![u] = "close"]
            /\ clean' = clean \ {u}
            /\ excused' = excused \ {u}
            /\ UNCHANGED <<callVars, local>>
    /\ UNCHANGED last

\* The connection breaks, or QEMU cannot do what it is asked to do.
Fault(u) == faults < MaxFaults /\ faults' = faults + 1 /\ Break(u)

\* The answer to a command that was carried out may be lost.
Then(u, step) == step \/ Fault(u)

\* Calls on the same adapter, and attempts to fill the same port.
InTheWay(u, what, a) ==
    {w \in Users \ {u} :
        pc[w] # "idle" /\ (adapter[w] = a \/ (what = "attach" /\ op[w] = "attach"))}

Begin(u, what, a, l, locals, excuse) ==
    /\ pc[u] = "idle"
    /\ pc' = [pc EXCEPT ![u] = l]
    /\ op' = [op EXCEPT ![u] = what]
    /\ adapter' = [adapter EXCEPT ![u] = a]
    /\ local' = [local EXCEPT ![u] = locals]
    /\ clean' = IF InTheWay(u, what, a) = {} THEN clean \cup {u}
                ELSE clean \ (InTheWay(u, what, a) \cup {u})
    /\ excused' = clean' \cap IF excuse THEN excused \cup {u} ELSE excused
    /\ last' = [last EXCEPT ![a] = "none"]
    /\ UNCHANGED <<qemuVars, faults>>

\* The fds that are named in netdev_add.
Named(u) == {Fd(adapter[u], kind, i) : kind \in {"tap", "vhost"}, i \in local[u].sent}

------------------------------------------------------------------------------
\* What the code might be, for the checks of the properties.
AnyBridge == Max(Ports)

SendVhostOnceMore(u) ==
    LET i == Cardinality(local[u].sent) - 1 IN
    /\ pc[u] = "vhost"
    /\ fds' = fds \cup {Fd(adapter[u], "vhost", i)}
    /\ Goto(u, IF i = local[u].queues THEN "netdev" ELSE "tap", local[u])
    /\ UNCHANGED <<netdev, device, port, cpus>>

AddNetworkDeviceWithoutClosing(u) ==
    /\ pc[u] = "netdev"
    /\ IF adapter[u] \notin netdev /\ Named(u) \subseteq fds
       THEN /\ netdev' = netdev \cup {adapter[u]}
            /\ fds' = fds \ Named(u)
            /\ Goto(u, "device", local[u])
       ELSE Return(u, "none") /\ UNCHANGED <<netdev, fds>>
    /\ UNCHANGED <<device, port, cpus>>

AddDeviceIgnoringErrors(u) ==
    /\ pc[u] = "device"
    /\ IF device[adapter[u]] = "none" /\ local[u].port \notin Used
       THEN /\ device' = [device EXCEPT ![adapter[u]] = "attached"]
            /\ port' = [port EXCEPT ![adapter[u]] = local[u].port]
       ELSE UNCHANGED <<device, port>>
    /\ Return(u, "attached")
    /\ UNCHANGED <<netdev, fds, cpus>>

------------------------------------------------------------------------------
(* AttachNetworkAdapter.                                                   *)

\* The last of the root ports that have no device.
EmptyBridge == Max(Ports \ Used)

\* A call begins when QueryPCI has found an empty port ("restart required"
\* changes nothing) and QueryCPUs has said how many queues to make.  The two
\* commands are one step: CPUs are only ever added, whatever the ports.
AttachNetworkAdapter(u, a) ==
    /\ ~(Ports \subseteq Used)
    /\ Begin(u, "attach", a, "tap",
             [port |-> EmptyBridge, queues |-> cpus, sent |-> {}],
             a \in netdev \/ device[a] # "none")

\* openTap, or os.OpenFile("/dev/vhost-net"), or looking at the interface fails.
OpenFails(u) ==
    /\ pc[u] \in {"tap", "vhost"}
    /\ Break(u)
    /\ UNCHANGED <<qemuVars, faults>>

\* The name is put into fdNames only when QEMU has answered.
SendTap(u) ==
    LET i == Cardinality(local[u].sent) IN
    /\ pc[u] = "tap"
    /\ fds' = fds \cup {Fd(adapter[u], "tap", i)}
    /\ Then(u, Goto(u, "vhost", [local[u] EXCEPT !.sent = @ \cup {i}]))
    /\ UNCHANGED <<netdev, device, port, cpus>>

SendVhost(u) ==
    LET i == Cardinality(local[u].sent) - 1 IN
    /\ pc[u] = "vhost"
    /\ fds' = fds \cup {Fd(adapter[u], "vhost", i)}
    /\ Then(u, Goto(u, IF i + 1 = local[u].queues THEN "netdev" ELSE "tap", local[u]))
    /\ UNCHANGED <<netdev, device, port, cpus>>

\* QEMU refuses a second netdev of this name before it looks at the fds.  When
\* one of them is not there, some of the others may have been taken.
AddNetworkDevice(u) ==
    /\ pc[u] = "netdev"
    /\ \/ /\ adapter[u] \notin netdev
          /\ Named(u) \subseteq fds
          /\ netdev' = netdev \cup {adapter[u]}
          /\ fds' = fds \ Named(u)
          /\ Then(u, Goto(u, "device", local[u]))
       \/ /\ adapter[u] \in netdev
          /\ Fail(u)
          /\ UNCHANGED <<netdev, fds>>
       \/ /\ adapter[u] \notin netdev
          /\ ~(Named(u) \subseteq fds)
          /\ \E taken \in SUBSET Named(u) : fds' = fds \ taken
          /\ Fail(u)
          /\ UNCHANGED netdev
    /\ UNCHANGED <<device, port, cpus>>

\* The netdev stays when the device is refused.
AddDevice(u) ==
    /\ pc[u] = "device"
    /\ IF /\ adapter[u] \in netdev
          /\ device[adapter[u]] = "none"
          /\ local[u].port \notin Used
       THEN /\ device' = [device EXCEPT ![adapter[u]] = "attached"]
            /\ port' = [port EXCEPT ![adapter[u]] = local[u].port]
            /\ Then(u, Return(u, "attached"))
       ELSE Fail(u) /\ UNCHANGED <<device, port>>
    /\ UNCHANGED <<netdev, fds, cpus>>

\* The deferred function, one command per name, whose errors are ignored.
CloseFd(u) ==
    LET i    == Min(local[u].sent)
        rest == [local[u] EXCEPT !.sent = @ \ {i}]
    IN
    /\ pc[u] = "close"
    /\ fds' = fds \ {Fd(adapter[u], "tap", i)}
    /\ IF rest.sent = {} THEN Return(u, "none") ELSE Goto(u, "close", rest)
    /\ UNCHANGED <<netdev, device, port, cpus>>

------------------------------------------------------------------------------
(* DetachNetworkAdapter.                                                   *)

DetachNetworkAdapter(u, a) == 
    Begin(u, "detach", a, "del_device", NoLocals, device[a] = "unplugging")

\* "not found" is ignored.  QEMU may refuse to be asked twice.
DeleteDevice(u) ==
    /\ pc[u] = "del_device"
    /\ \/ /\ device[adapter[u]] = "none"
          /\ Goto(u, "del_netdev", local[u])
          /\ UNCHANGED device
       \/ /\ device[adapter[u]] # "none"
          /\ device' = [device EXCEPT ![adapter[u]] = "unplugging"]
          /\ Then(u, Goto(u, "del_netdev", local[u]))
       \/ /\ device[adapter[u]] = "unplugging"
          /\ Return(u, "none")
          /\ UNCHANGED device
    /\ UNCHANGED <<netdev, port, fds, cpus>>

\* At once: QEMU gives up the netdev of a device that the guest still holds.
DeleteNetworkDevice(u) ==
    /\ pc[u] = "del_netdev"
    /\ netdev' = netdev \ {adapter[u]}
    /\ Then(u, Return(u, "detached"))
    /\ UNCHANGED <<device, port, fds, cpus>>

------------------------------------------------------------------------------
CommandFails(u) ==
    /\ pc[u] # "idle"
    /\ Fault(u)
    /\ UNCHANGED qemuVars

\* The guest lets go of the device.
Unplugged(a) ==
    /\ device[a] = "unplugging"
    /\ device' = [device EXCEPT ![a] = "none"]
    /\ port' = [port EXCEPT ![a] = NoPort]
    /\ UNCHANGED <<netdev, fds, cpus, pc, callVars, local, clean, excused, faults, last>>

\* SetCPUs of another caller; CPUs are never unplugged.
CpuPlugged ==
    /\ cpus < MaxCpus
    /\ cpus' = cpus + 1
    /\ UNCHANGED <<netdev, device, port, fds, pc, callVars, local, clean,
                   excused, faults, last>>

Command(u) ==
    \/ SendTap(u) \/ SendVhost(u)
    \/ AddNetworkDevice(u) \/ AddDevice(u) \/ CloseFd(u)
    \/ DeleteDevice(u) \/ DeleteNetworkDevice(u)

Next ==
    \/ \E u \in Users, a \in Adapters :
          AttachNetworkAdapter(u, a) \/ DetachNetworkAdapter(u, a)
    \/ \E u \in Users : Command(u) \/ CommandFails(u) \/ OpenFails(u)
    \/ \E a \in Adapters : Unplugged(a)
    \/ CpuPlugged

Spec == Init /\ [][Next]_vars

------------------------------------------------------------------------------
(* Properties.                                                             *)

\* What the last call on an adapter reported is true, and remains so, whatever
\* happens to the other adapters: after an Attach that returned nil the device
\* has its netdev, after a Detach no netdev is left and the guest was asked to
\* let go of the device.
SuccessIsLasting ==
    \A a \in Adapters :
       /\ last[a] = "attached" => a \in netdev /\ device[a] = "attached"
       /\ last[a] = "detached" => a \notin netdev /\ device[a] # "attached"

\* The sockets of the tap do not pile up in QEMU: unless a command failed, a
\* tap fd is there only on behalf of a call under way; and an Attach that
\* succeeds uses up what failed ones left there, the vhost fds that nobody
\* closes included.
NoFdIsLeft ==
    \A f \in fds :
       /\ (f.kind = "tap" /\ faults = 0) =>
             \E u \in Users : adapter[u] = f.adapter /\ f.queue \in local[u].sent
       /\ last[f.adapter] # "attached"

\* When nothing interferes, an Attach that found a port is refused only because
\* something of the adapter was in QEMU already, and a Detach, which clears
\* away whatever failed calls left behind, only when the guest has been asked
\* before.
IsRefused(u) ==
    /\ u \in clean
    /\ pc[u] \notin {"tap", "vhost"} /\ faults' = faults
    /\ pc'[u] = "idle" /\ last'[adapter[u]] = "none"

FailsForAReason == [][\A u \in Users : IsRefused(u) => u \in excused]_vars

==============================================================================
