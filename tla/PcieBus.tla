------------------------------- MODULE PcieBus -------------------------------
(***************************************************************************)
(* devices/pcie/bus.go: where the devices of a VM go on its PCIe bus.      *)
(*                                                                         *)
(* Allocate counts through functions: the function i is function i % 8 of  *)
(* the device behind root port i \div 8, and the root ports are functions  *)
(* of pcie.0 themselves, eight to a slot.  Only the numbers of devices     *)
(* that cannot be hotplugged ("cold") and that can ("hot") matter, since   *)
(* each kind keeps the order in which it was added.                        *)
(*                                                                         *)
(* An allocation is a set of entries; "at" gives their order in the list,  *)
(* in which QEMU creates them.                                             *)
(***************************************************************************)
EXTENDS Naturals

First == 64     \* slot 0 is the DRAM controller's
Spares == 8     \* root ports for devices that are attached later

PortNum(i) == i \div 8

RootBus == 0    \* pcie.0; a root port's bus goes by its number, 8 or more

RootPort(i) ==
    [at |-> 2 * i, kind |-> "port", nth |-> PortNum(i), bus |-> RootBus,
     slot |-> PortNum(i) \div 8, fn |-> PortNum(i) % 8,
     multifunction |-> (PortNum(i) % 8) = 0]

Cold(i) ==
    [at |-> 2 * i + 1, kind |-> "cold", nth |-> i - First, bus |-> PortNum(i),
     slot |-> 0, fn |-> i % 8, multifunction |-> (i % 8) = 0]

Hot(i, nth) ==
    [at |-> 2 * i + 1, kind |-> "hot", nth |-> nth, bus |-> PortNum(i),
     slot |-> 0, fn |-> 0, multifunction |-> FALSE]

\* What the code might be, for the checks of the properties.
RoundUpNever(i) == i

RoundUp(i) == IF i % 8 = 0 THEN i ELSE i + (8 - (i % 8))

\* The first function behind a root port of its own.
HotFirst(cold) == RoundUp(First + cold)

Allocate(cold, hot) ==
    {RootPort(i) : i \in {j \in First .. First + cold - 1 : j % 8 = 0}}
    \cup {Cold(i) : i \in First .. First + cold - 1}
    \cup {RootPort(HotFirst(cold) + 8 * k) : k \in 0 .. hot + Spares - 1}
    \cup {Hot(HotFirst(cold) + 8 * k, k) : k \in 0 .. hot - 1}

------------------------------------------------------------------------------
(* What QEMU and the driver need of an allocation A.                       *)

\* No two devices have the same address.
AddressesDiffer(A) ==
    \A x, y \in A : (x.bus = y.bus /\ x.slot = y.slot /\ x.fn = y.fn) => x = y

\* A root port comes before the devices behind it.
BusesComeFirst(A) ==
    \A x \in A : x.bus # RootBus =>
       \E p \in A : p.kind = "port" /\ p.nth = x.bus /\ p.at < x.at

\* A slot is used from function 0 on, which says that there may be others.
FunctionZeroComesFirst(A) ==
    \A x \in A : x.fn # 0 =>
       \E z \in A : /\ z.bus = x.bus /\ z.slot = x.slot /\ z.at < x.at
                    /\ z.fn = 0 /\ z.multifunction

\* What is plugged later has its root port for itself.
HotplugIsAlone(A) ==
    \A x, y \in A : (x.kind = "hot" /\ y.bus = x.bus) => x = y

IsSpare(A, p) == p.kind = "port" /\ \A x \in A : x.bus # p.nth

\* AttachNetworkAdapter takes the last empty root port it finds.  While Start
\* is still plugging its own devices theirs are empty too: they come before
\* all of the spare ones.
SparesAreLast(A) ==
    \A p, q \in A : (q.kind = "port" /\ IsSpare(A, p) /\ ~IsSpare(A, q)) => q.nth < p.nth

\* The root ports stay below slot 31 of pcie.0, which is the chipset's.
Fits(A) == \A p \in A : p.bus = RootBus => p.slot \in 1 .. 30

LayoutIsSound(A) ==
    /\ AddressesDiffer(A)
    /\ BusesComeFirst(A)
    /\ FunctionZeroComesFirst(A)
    /\ HotplugIsAlone(A)
    /\ SparesAreLast(A)

==============================================================================
