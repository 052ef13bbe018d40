------------------------------ MODULE LaunchProofs ------------------------------
(***************************************************************************)
(* First the PCIe allocator: Allocate lays out any number of devices       *)
(* soundly, and they fit as long as there are no more than 240 root ports. *)
(* Then Launch, whose properties hold for any number of pids or unit       *)
(* names, any options, images and cids.                                    *)
(*                                                                         *)
(* Besides the types the inductive invariant has six parts, one about each *)
(* kind of thing left behind.  Sight says who knows of a QEMU: the         *)
(* program by the strategy's variable, the next program by the file.  The  *)
(* others rest on it: what belongs to a VM changes only while none runs.   *)
(***************************************************************************)
EXTENDS Launch, Integers, TLAPS

------------------------------------------------------------------------------
(* The PCIe allocator.                                                     *)

LEMMA PortNumFacts ==
    ASSUME NEW i \in Nat
    PROVE  /\ PortNum(i) \in Nat
           /\ 8 * PortNum(i) <= i /\ i <= 8 * PortNum(i) + 7
           /\ i % 8 = i - (8 * PortNum(i))
BY DEF PortNum

\* The hotplug ports start at the first function of a root port that comes
\* after all the cold devices.
LEMMA HotFirstFacts ==
    ASSUME NEW c \in Nat
    PROVE  /\ HotFirst(c) \in Nat
           /\ HotFirst(c) % 8 = 0
           /\ First + c <= HotFirst(c) /\ HotFirst(c) <= First + c + 7
<1>1. First + c \in Nat
  BY DEF First
<1>2. ASSUME NEW n \in Nat
      PROVE  /\ RoundUp(n) \in Nat
             /\ RoundUp(n) % 8 = 0
             /\ n <= RoundUp(n) /\ RoundUp(n) <= n + 7
  BY DEF RoundUp
<1> QED BY <1>1, <1>2 DEF HotFirst

\* The functions at which there is a root port.
Ports(c, h) ==
    {j \in First .. First + c - 1 : j % 8 = 0}
    \cup {HotFirst(c) + 8 * k : k \in 0 .. h + Spares - 1}

\* What Allocate returns, by kind.
LEMMA Shape ==
    ASSUME NEW c \in Nat, NEW h \in Nat, NEW x \in Allocate(c, h)
    PROVE  \/ \E i \in Ports(c, h) : x = RootPort(i)
           \/ \E i \in First .. First + c - 1 : x = Cold(i)
           \/ \E k \in 0 .. h - 1 : x = Hot(HotFirst(c) + 8 * k, k)
BY DEF Allocate, Ports

LEMMA ColdFacts ==
    ASSUME NEW c \in Nat, NEW i \in First .. First + c - 1
    PROVE  /\ i \in Nat /\ i >= 64 /\ i < 64 + c /\ i < HotFirst(c)
           /\ PortNum(i) \in Nat /\ PortNum(i) >= 8 /\ 8 * PortNum(i) < HotFirst(c)
<1>1. i \in Nat /\ i >= 64 /\ i < 64 + c
  BY DEF First
<1>2. HotFirst(c) \in Nat /\ 64 + c <= HotFirst(c)
  BY HotFirstFacts DEF First
<1>3. PortNum(i) \in Nat /\ 8 * PortNum(i) <= i /\ i <= 8 * PortNum(i) + 7
  BY <1>1, PortNumFacts
<1> QED BY <1>1, <1>2, <1>3

LEMMA HotFacts ==
    ASSUME NEW c \in Nat, NEW k \in Nat
    PROVE  /\ HotFirst(c) + 8 * k \in Nat
           /\ 8 * PortNum(HotFirst(c) + 8 * k) = HotFirst(c) + 8 * k
           /\ (HotFirst(c) + 8 * k) % 8 = 0
           /\ PortNum(HotFirst(c) + 8 * k) \in Nat
           /\ PortNum(HotFirst(c) + 8 * k) >= 8
<1>1. /\ HotFirst(c) \in Nat /\ HotFirst(c) >= 64 /\ HotFirst(c) % 8 = 0
  BY HotFirstFacts DEF First
<1>2. ASSUME NEW n \in Nat, n % 8 = 0, n >= 64
      PROVE  /\ n + 8 * k \in Nat
             /\ 8 * PortNum(n + 8 * k) = n + 8 * k
             /\ (n + 8 * k) % 8 = 0
             /\ PortNum(n + 8 * k) \in Nat
             /\ PortNum(n + 8 * k) >= 8
  BY <1>2 DEF PortNum
<1> QED BY <1>1, <1>2

LEMMA PortsFacts ==
    ASSUME NEW c \in Nat, NEW h \in Nat, NEW i \in Ports(c, h)
    PROVE  /\ i \in Nat /\ i % 8 = 0 /\ i >= 64
           /\ PortNum(i) \in Nat /\ PortNum(i) >= 8 /\ 8 * PortNum(i) = i
           /\ \/ i \in First .. First + c - 1
              \/ \E k \in 0 .. h + Spares - 1 : i = HotFirst(c) + 8 * k
<1>1. CASE i \in First .. First + c - 1
  <2>1. i % 8 = 0
    <3>1. ASSUME NEW k \in Nat, i = HotFirst(c) + 8 * k PROVE FALSE
      BY <1>1, <3>1, ColdFacts, HotFirstFacts
    <3> QED BY <3>1 DEF Ports, Spares
  <2>2. i \in Nat /\ i >= 64 /\ PortNum(i) \in Nat /\ PortNum(i) >= 8
    BY <1>1, ColdFacts
  <2>3. 8 * PortNum(i) = i
    BY <2>1, <2>2 DEF PortNum
  <2> QED BY <1>1, <2>1, <2>2, <2>3
<1>2. CASE \E k \in 0 .. h + Spares - 1 : i = HotFirst(c) + 8 * k
  <2>1. PICK k \in 0 .. h + Spares - 1 : i = HotFirst(c) + 8 * k
    BY <1>2
  <2>2. k \in Nat
    BY DEF Spares
  <2>3. i >= 64
    BY <2>1, <2>2, HotFirstFacts DEF First
  <2> QED BY <2>1, <2>2, <2>3, HotFacts
<1> QED BY <1>1, <1>2 DEF Ports

\* Two functions of the root bus with one address are one.
LEMMA PortsDiffer ==
    ASSUME NEW c \in Nat, NEW h \in Nat, NEW i \in Ports(c, h), NEW j \in Ports(c, h),
           PortNum(i) \div 8 = PortNum(j) \div 8, PortNum(i) % 8 = PortNum(j) % 8
    PROVE  i = j
BY PortsFacts

\* The root port of every device is there.
LEMMA ColdPort ==
    ASSUME NEW c \in Nat, NEW h \in Nat, NEW i \in First .. First + c - 1
    PROVE  8 * PortNum(i) \in Ports(c, h)
BY DEF Ports, PortNum, First

LEMMA HotPort ==
    ASSUME NEW c \in Nat, NEW h \in Nat, NEW k \in 0 .. h - 1
    PROVE  HotFirst(c) + 8 * k \in Ports(c, h)
BY DEF Ports, Spares

LEMMA PortIn ==
    ASSUME NEW c \in Nat, NEW h \in Nat, NEW i \in Ports(c, h)
    PROVE  RootPort(i) \in Allocate(c, h)
BY DEF Ports, Allocate

LEMMA HotPortNum ==
    ASSUME NEW c \in Nat, NEW k \in Nat
    PROVE  PortNum(HotFirst(c) + 8 * k) = PortNum(HotFirst(c)) + k
<1>1. HotFirst(c) + 8 * 0 = HotFirst(c)
  BY HotFirstFacts
<1>2. PortNum(HotFirst(c)) \in Nat /\ 8 * PortNum(HotFirst(c)) = HotFirst(c)
  BY <1>1, HotFacts
<1>3. /\ PortNum(HotFirst(c) + 8 * k) \in Nat
      /\ 8 * PortNum(HotFirst(c) + 8 * k) = HotFirst(c) + 8 * k
  BY HotFacts
<1> QED BY <1>2, <1>3

\* The buses of the three kinds differ, and so do those of hotplugged devices.
LEMMA Buses ==
    ASSUME NEW c \in Nat, NEW h \in Nat
    PROVE  /\ \A i \in Ports(c, h) : RootPort(i).bus = 0
           /\ \A i \in First .. First + c - 1 :
                 Cold(i).bus = PortNum(i) /\ PortNum(i) \in 8 .. PortNum(HotFirst(c)) - 1
           /\ \A k \in 0 .. h - 1 :
                 /\ Hot(HotFirst(c) + 8 * k, k).bus = PortNum(HotFirst(c)) + k
                 /\ PortNum(HotFirst(c)) + k > 0
<1>1. /\ PortNum(HotFirst(c)) \in Nat /\ PortNum(HotFirst(c)) >= 8
      /\ 8 * PortNum(HotFirst(c)) = HotFirst(c)
  <2>1. HotFirst(c) + 8 * 0 = HotFirst(c)
    BY HotFirstFacts
  <2> QED BY <2>1, HotFacts
<1>2. ASSUME NEW i \in First .. First + c - 1
      PROVE  PortNum(i) \in 8 .. PortNum(HotFirst(c)) - 1
  BY <1>1, ColdFacts
<1>3. ASSUME NEW k \in 0 .. h - 1
      PROVE  PortNum(HotFirst(c) + 8 * k) = PortNum(HotFirst(c)) + k
  BY HotPortNum
<1> QED BY <1>1, <1>2, <1>3 DEF RootPort, Cold, Hot, RootBus

\* So that the bus of a device tells what it is.
LEMMA KindByBus ==
    ASSUME NEW c \in Nat, NEW h \in Nat, NEW x \in Allocate(c, h)
    PROVE  \/ x.bus = 0 /\ \E i \in Ports(c, h) : x = RootPort(i)
           \/ /\ x.bus \in 8 .. PortNum(HotFirst(c)) - 1
              /\ \E i \in First .. First + c - 1 : x = Cold(i)
           \/ /\ x.bus \in Nat /\ x.bus >= PortNum(HotFirst(c))
              /\ \E k \in 0 .. h - 1 : x = Hot(HotFirst(c) + 8 * k, k)
<1>0. PortNum(HotFirst(c)) \in Nat
  BY HotFirstFacts, PortNumFacts
<1>1. ASSUME NEW i \in Ports(c, h), x = RootPort(i) PROVE x.bus = 0
  BY <1>1, Buses
<1>2. ASSUME NEW i \in First .. First + c - 1, x = Cold(i)
      PROVE  x.bus \in 8 .. PortNum(HotFirst(c)) - 1
  BY <1>2, Buses
<1>3. ASSUME NEW k \in 0 .. h - 1, x = Hot(HotFirst(c) + 8 * k, k)
      PROVE  x.bus \in Nat /\ x.bus >= PortNum(HotFirst(c))
  <2>1. x.bus = PortNum(HotFirst(c)) + k
    BY <1>3, Buses
  <2> QED BY <1>0, <2>1
<1> QED BY <1>1, <1>2, <1>3, Shape

------------------------------------------------------------------------------
LEMMA Differ == \A c, h \in Nat : AddressesDiffer(Allocate(c, h))
<1> SUFFICES ASSUME NEW c \in Nat, NEW h \in Nat,
                    NEW x \in Allocate(c, h), NEW y \in Allocate(c, h),
                    x.bus = y.bus, x.slot = y.slot, x.fn = y.fn
             PROVE  x = y
  BY DEF AddressesDiffer
<1>0. PortNum(HotFirst(c)) \in Nat /\ PortNum(HotFirst(c)) >= 8
  <2>1. HotFirst(c) \in Nat /\ HotFirst(c) >= 64
    BY HotFirstFacts DEF First
  <2> QED BY <2>1, PortNumFacts
<1>1. CASE x.bus = 0
  <2>0. ASSUME NEW z \in Allocate(c, h), z.bus = 0
        PROVE  \E i \in Ports(c, h) : z = RootPort(i)
    BY <1>0, <2>0, KindByBus
  <2>1. PICK i \in Ports(c, h) : x = RootPort(i)
    BY <1>1, <2>0
  <2>2. PICK j \in Ports(c, h) : y = RootPort(j)
    BY <1>1, <2>0
  <2> QED BY <2>1, <2>2, PortsDiffer DEF RootPort
<1>2. CASE x.bus \in 8 .. PortNum(HotFirst(c)) - 1
  <2>1. PICK i \in First .. First + c - 1 : x = Cold(i)
    BY <1>0, <1>2, KindByBus
  <2>2. PICK j \in First .. First + c - 1 : y = Cold(j)
    BY <1>0, <1>2, KindByBus
  <2>3. PortNum(i) = PortNum(j) /\ i % 8 = j % 8
    BY <2>1, <2>2 DEF Cold
  <2>4. i \in Nat /\ j \in Nat
    BY DEF First
  <2>5. i = j
    BY <2>3, <2>4 DEF PortNum
  <2> QED BY <2>1, <2>2, <2>5
<1>3. CASE x.bus >= PortNum(HotFirst(c))
  <2>1. PICK k \in 0 .. h - 1 : x = Hot(HotFirst(c) + 8 * k, k)
    BY <1>0, <1>3, KindByBus
  <2>2. PICK l \in 0 .. h - 1 : y = Hot(HotFirst(c) + 8 * l, l)
    BY <1>0, <1>3, KindByBus
  <2>3. PortNum(HotFirst(c)) + k = PortNum(HotFirst(c)) + l
    BY <2>1, <2>2, Buses
  <2>4. k = l
    BY <1>0, <2>3
  <2> QED BY <2>1, <2>2, <2>4
<1> QED BY <1>0, <1>1, <1>2, <1>3, KindByBus

LEMMA BusesFirst == \A c, h \in Nat : BusesComeFirst(Allocate(c, h))
<1> SUFFICES ASSUME NEW c \in Nat, NEW h \in Nat, NEW x \in Allocate(c, h), x.bus # RootBus
             PROVE  \E p \in Allocate(c, h) : p.kind = "port" /\ p.nth = x.bus /\ p.at < x.at
  BY DEF BusesComeFirst
<1>1. CASE \E i \in First .. First + c - 1 : x = Cold(i)
  <2>1. PICK i \in First .. First + c - 1 : x = Cold(i)
    BY <1>1
  <2>2. RootPort(8 * PortNum(i)) \in Allocate(c, h)
    BY ColdPort, PortIn
  <2>3. i \in Nat
    BY DEF First
  <2>4. PortNum(8 * PortNum(i)) = PortNum(i) /\ 2 * (8 * PortNum(i)) < 2 * i + 1
    BY <2>3 DEF PortNum
  <2>5. /\ RootPort(8 * PortNum(i)).kind = "port"
        /\ RootPort(8 * PortNum(i)).nth = PortNum(8 * PortNum(i))
        /\ RootPort(8 * PortNum(i)).at = 2 * (8 * PortNum(i))
        /\ x.bus = PortNum(i) /\ x.at = 2 * i + 1
    BY <2>1 DEF RootPort, Cold
  <2> QED BY <2>2, <2>4, <2>5
<1>2. CASE \E k \in 0 .. h - 1 : x = Hot(HotFirst(c) + 8 * k, k)
  <2>1. PICK k \in 0 .. h - 1 : x = Hot(HotFirst(c) + 8 * k, k)
    BY <1>2
  <2>2. RootPort(HotFirst(c) + 8 * k) \in Allocate(c, h)
    BY HotPort, PortIn
  <2> QED BY <2>1, <2>2, HotFirstFacts DEF RootPort, Hot
<1>3. ~(\E i \in Ports(c, h) : x = RootPort(i))
  BY DEF RootPort
<1> QED BY <1>1, <1>2, <1>3, Shape

\* Both on the root bus and behind a port, functions are taken in order.
LEMMA FunctionZeroFirst == \A c, h \in Nat : FunctionZeroComesFirst(Allocate(c, h))
<1> SUFFICES ASSUME NEW c \in Nat, NEW h \in Nat, NEW x \in Allocate(c, h), x.fn # 0
             PROVE  \E z \in Allocate(c, h) : /\ z.bus = x.bus /\ z.slot = x.slot
                                              /\ z.at < x.at /\ z.fn = 0 /\ z.multifunction
  BY DEF FunctionZeroComesFirst
<1>1. CASE \E i \in Ports(c, h) : x = RootPort(i)
  <2>1. PICK i \in Ports(c, h) : x = RootPort(i)
    BY <1>1
  <2> DEFINE j == 64 * (i \div 64)
  <2>2. i \in Nat /\ i >= 64 /\ i % 8 = 0 /\ PortNum(i) % 8 # 0
    BY <2>1, PortsFacts DEF RootPort
  <2>3. /\ j \in Nat /\ j % 8 = 0 /\ j >= 64 /\ j < i
        /\ PortNum(j) % 8 = 0 /\ PortNum(j) \div 8 = PortNum(i) \div 8
    BY <2>2 DEF PortNum
  <2>4. j \in Ports(c, h)
    <3> HIDE DEF j
    <3>1. CASE j < 64 + c
      BY <2>3, <3>1 DEF Ports, First
    <3>2. CASE j >= 64 + c
      <4>1. PICK k \in 0 .. h + Spares - 1 : i = HotFirst(c) + 8 * k
        <5>1. i \notin First .. First + c - 1
          BY <2>2, <2>3, <3>2 DEF First
        <5> QED BY <5>1 DEF Ports
      <4>2. HotFirst(c) \in Nat /\ HotFirst(c) % 8 = 0 /\ HotFirst(c) <= 64 + c + 7
        BY HotFirstFacts DEF First
      <4>3. ASSUME NEW n \in Nat, n % 8 = 0, n <= 64 + c + 7, i = n + 8 * k
            PROVE  \E l \in 0 .. k : j = n + 8 * l
        <5> DEFINE l == (j - n) \div 8
        <5>1. k \in Int
          BY DEF Spares
        <5>2. j = n + 8 * l /\ l \in 0 .. k
          BY <2>2, <2>3, <3>2, <4>3, <5>1
        <5> QED BY <5>2
      <4>4. PICK l \in 0 .. k : j = HotFirst(c) + 8 * l
        BY <4>1, <4>2, <4>3
      <4> QED BY <4>4 DEF Ports, Spares
    <3> QED BY <2>3, <3>1, <3>2
  <2>5. RootPort(j) \in Allocate(c, h)
    BY <2>4, PortIn
  <2>6. /\ RootPort(j).bus = x.bus /\ RootPort(j).fn = 0 /\ RootPort(j).multifunction
        /\ RootPort(j).slot = x.slot
        /\ RootPort(j).at = 2 * j /\ x.at = 2 * i
    BY <2>1, <2>3 DEF RootPort
  <2> HIDE DEF j
  <2> QED BY <2>2, <2>3, <2>5, <2>6
<1>2. CASE \E i \in First .. First + c - 1 : x = Cold(i)
  <2>1. PICK i \in First .. First + c - 1 : x = Cold(i)
    BY <1>2
  <2> DEFINE j == 8 * PortNum(i)
  <2>2. i % 8 # 0
    BY <2>1 DEF Cold
  <2>3. /\ j \in Int /\ j >= 64 /\ j < i /\ i < 64 + c
        /\ j % 8 = 0 /\ PortNum(j) = PortNum(i)
    BY <2>2 DEF PortNum, First
  <2>4. Cold(j) \in Allocate(c, h)
    BY <2>3 DEF Allocate, First
  <2>5. /\ Cold(j).bus = x.bus /\ Cold(j).fn = 0 /\ Cold(j).multifunction
        /\ Cold(j).slot = x.slot
        /\ Cold(j).at = 2 * j + 1 /\ x.at = 2 * i + 1
    BY <2>1, <2>3 DEF Cold
  <2>6. i \in Int
    OBVIOUS
  <2> HIDE DEF j
  <2> QED BY <2>3, <2>4, <2>5, <2>6
<1>3. ~(\E k \in 0 .. h - 1 : x = Hot(HotFirst(c) + 8 * k, k))
  BY DEF Hot
<1> QED BY <1>1, <1>2, <1>3, Shape

LEMMA HotAlone == \A c, h \in Nat : HotplugIsAlone(Allocate(c, h))
<1> SUFFICES ASSUME NEW c \in Nat, NEW h \in Nat,
                    NEW x \in Allocate(c, h), NEW y \in Allocate(c, h),
                    x.kind = "hot", y.bus = x.bus
             PROVE  x = y
  BY DEF HotplugIsAlone
<1>0. PortNum(HotFirst(c)) \in Nat /\ PortNum(HotFirst(c)) > 0
  <2>1. HotFirst(c) \in Nat /\ HotFirst(c) >= 64
    BY HotFirstFacts DEF First
  <2> QED BY <2>1, PortNumFacts
<1>1. PICK k \in 0 .. h - 1 : x = Hot(HotFirst(c) + 8 * k, k)
  BY Shape DEF RootPort, Cold
<1>2. x.bus = PortNum(HotFirst(c)) + k
  BY <1>1, Buses
<1>3. PICK l \in 0 .. h - 1 : y = Hot(HotFirst(c) + 8 * l, l)
  BY <1>0, <1>2, KindByBus
<1>4. PortNum(HotFirst(c)) + l = PortNum(HotFirst(c)) + k
  BY <1>2, <1>3, Buses
<1>5. k = l
  BY <1>0, <1>4
<1> QED BY <1>1, <1>3, <1>5

\* A spare port is one of the last, a port that is not spare is none of them.
LEMMA SparesLast == \A c, h \in Nat : SparesAreLast(Allocate(c, h))
<1> SUFFICES ASSUME NEW c \in Nat, NEW h \in Nat,
                    NEW p \in Allocate(c, h), NEW q \in Allocate(c, h),
                    q.kind = "port",
                    IsSpare(Allocate(c, h), p), ~IsSpare(Allocate(c, h), q)
             PROVE  q.nth < p.nth
  BY DEF SparesAreLast
<1> DEFINE HP == PortNum(HotFirst(c))
<1>0. HP \in Nat
  BY HotFirstFacts, PortNumFacts
<1>1. PICK i \in Ports(c, h) : p = RootPort(i)
  BY Shape DEF IsSpare, Cold, Hot
<1>2. PICK j \in Ports(c, h) : q = RootPort(j)
  BY Shape DEF Cold, Hot
<1>3. /\ p.nth = PortNum(i) /\ PortNum(i) \in Nat
      /\ q.nth = PortNum(j) /\ PortNum(j) \in Nat /\ PortNum(j) > 0
  BY <1>1, <1>2, PortsFacts DEF RootPort
<1>4. PortNum(i) >= HP + h
  <2>1. i \notin First .. First + c - 1
    <3> SUFFICES ASSUME i \in First .. First + c - 1 PROVE FALSE
      OBVIOUS
    <3>1. Cold(i) \in Allocate(c, h)
      BY DEF Allocate
    <3> QED BY <1>1, <3>1 DEF IsSpare, RootPort, Cold
  <2>2. PICK k \in 0 .. h + Spares - 1 : i = HotFirst(c) + 8 * k
    BY <2>1, PortsFacts
  <2>3. k \notin 0 .. h - 1
    <3> SUFFICES ASSUME k \in 0 .. h - 1 PROVE FALSE
      OBVIOUS
    <3>1. Hot(i, k) \in Allocate(c, h)
      BY <2>2 DEF Allocate
    <3> QED BY <1>1, <3>1 DEF IsSpare, RootPort, Hot
  <2>4. k \in Nat /\ k >= h
    BY <2>3 DEF Spares
  <2>5. PortNum(i) = HP + k
    BY <2>2, <2>4, HotPortNum
  <2> QED BY <1>0, <2>4, <2>5
<1>5. PortNum(j) < HP + h
  <2>1. PICK x \in Allocate(c, h) : x.bus = PortNum(j)
    BY <1>2, <1>3 DEF IsSpare
  <2>2. CASE \E l \in First .. First + c - 1 : x = Cold(l)
    <3>1. x.bus \in 8 .. HP - 1
      BY <2>2, Buses
    <3> QED BY <1>0, <1>3, <2>1, <3>1
  <2>3. CASE \E k \in 0 .. h - 1 : x = Hot(HotFirst(c) + 8 * k, k)
    <3>1. PICK k \in 0 .. h - 1 : x.bus = HP + k
      BY <2>3, Buses
    <3> QED BY <1>0, <1>3, <2>1, <3>1
  <2>4. x.bus # 0
    BY <1>3, <2>1
  <2> QED BY <2>2, <2>3, <2>4, Buses, Shape
<1> QED BY <1>0, <1>3, <1>4, <1>5

------------------------------------------------------------------------------
\* Whatever devices a VM has, no two get the same place, the root ports come
\* first, functions are used from 0 on, and every hotplugged device has a root
\* port for itself, as have those that are attached later.
THEOREM LayoutsAreSound == \A cold, hot \in Nat : LayoutIsSound(Allocate(cold, hot))
BY Differ, BusesFirst, FunctionZeroFirst, HotAlone, SparesLast DEF LayoutIsSound

\* The root ports stay clear of the chipset exactly as long as there are at
\* most 240 of them: one for every 8 cold devices, one for each hot one, and
\* the spare ones.
THEOREM LayoutsFit ==
    \A cold, hot \in Nat :
       Fits(Allocate(cold, hot)) <=> HotFirst(cold) + 8 * (hot + Spares) <= 31 * 64
<1> SUFFICES ASSUME NEW c \in Nat, NEW h \in Nat
             PROVE  Fits(Allocate(c, h)) <=> HotFirst(c) + 8 * (h + Spares) <= 31 * 64
  OBVIOUS
<1>0. HotFirst(c) \in Nat /\ HotFirst(c) >= 64
  BY HotFirstFacts DEF First
<1>1. ASSUME Fits(Allocate(c, h)) PROVE HotFirst(c) + 8 * (h + Spares) <= 31 * 64
  <2> DEFINE last == HotFirst(c) + 8 * (h + 7)
  <2>1. last \in Ports(c, h)
    BY DEF Ports, Spares
  <2>2. RootPort(last).slot \in 1 .. 30
    BY <1>1, <2>1, PortIn DEF Fits, RootPort
  <2>3. PortNum(last) \div 8 \in 1 .. 30
    BY <2>2 DEF RootPort
  <2>4. last \in Nat
    BY <1>0
  <2>5. last < 31 * 64
    <3> HIDE DEF last
    <3> QED BY <2>3, <2>4 DEF PortNum
  <2>6. last % 8 = 0
    BY <2>1, PortsFacts
  <2>7. last <= 31 * 64 - 8
    <3> HIDE DEF last
    <3> QED BY <2>4, <2>5, <2>6
  <2> QED BY <1>0, <2>7 DEF Spares
<1>2. ASSUME HotFirst(c) + 8 * (h + Spares) <= 31 * 64 PROVE Fits(Allocate(c, h))
  <2> SUFFICES ASSUME NEW x \in Allocate(c, h), x.bus = 0
               PROVE  x.slot \in 1 .. 30
    BY DEF Fits, RootBus
  <2>1. PortNum(HotFirst(c)) \in Nat /\ PortNum(HotFirst(c)) > 0
    BY <1>0, PortNumFacts
  <2>2. PICK i \in Ports(c, h) : x = RootPort(i)
    BY <2>1, KindByBus
  <2>3. i \in Nat /\ i >= 64
    BY PortsFacts
  <2>4. i < 31 * 64
    <3>1. CASE i \in First .. First + c - 1
      <4>1. i < HotFirst(c)
        BY <3>1, ColdFacts
      <4> QED BY <1>0, <1>2, <2>3, <4>1 DEF Spares
    <3>2. CASE \E k \in 0 .. h + Spares - 1 : i = HotFirst(c) + 8 * k
      BY <1>0, <1>2, <3>2 DEF Spares
    <3> QED BY <3>1, <3>2, PortsFacts
  <2>5. PortNum(i) \div 8 \in 1 .. 30
    BY <2>3, <2>4 DEF PortNum
  <2> QED BY <2>2, <2>5 DEF RootPort
<1> QED BY <1>1, <1>2

------------------------------------------------------------------------------
(* The inductive invariant of Launch.                                      *)

\* A QEMU is known to the strategy while the program runs, by the file when it
\* does not; but for those that Start was called beside.
Sight ==
    /\ up # NoProc => up \in Living /\ (pc # "connect" => proc[up] = "named")
    /\ pc = "down" => ~stale
    /\ strategy = "systemd" => lost # "unnamed"
    /\ lost = "no" =>
          /\ ~stale
          /\ pc \notin {"idle", "connect"} => held = NoProc
          /\ pc # "down" => Living \subseteq {held}
          /\ (pc = "down" \/ strategy = "systemd") => Living \subseteq {record}
          /\ \A p \in Procs : proc[p] = "named" => record = p

\* Past Create's qemu-img the disk is whole; before, it is not said to be.
DiskInv ==
    /\ StoppedMeansWhole
    /\ pc = "convert" => disk # 0 /\ ~writer /\ (created => replaced)
    /\ pc = "flag" => disk # 0 /\ whole /\ ~writer
    /\ why = "no_disk" => ~created \/ replaced
    /\ pc \in {"convert", "flag"} => why = "none"

\* The disk has its size from the resizing on.
HasSize == want.disk # 0 => disk - want.disk \in 0 .. Block - 1

SizeInv ==
    (pc \in {"listen", "iso", "hash", "vsock", "name", "launch", "connect"}
        \/ (up # NoProc /\ lost = "no")) => HasSize

\* The image is what its hash says, unless its generation was broken off.
HasConfig ==
    want.cidata # NoConfig => iso = want.cidata \/ (torn /\ hash = want.cidata)

IsoInv ==
    /\ ~torn => hash \in {NoConfig, iso}
    /\ pc = "hash" => iso = want.cidata /\ torn
    /\ (pc \in {"vsock", "name", "launch", "connect"}
           \/ (up # NoProc /\ lost = "no")) => HasConfig

\* The cid c is what was asked for.
IsCid(c) ==
    /\ want.cid # AnyCid => c = want.cid
    /\ want.cid = AnyCid => c \in Cids

VsockInv ==
    /\ vsockFd # NoCid => pc \in {"name", "launch"}
    /\ others \cap OwnCids = {}
    /\ pc \in {"name", "launch"} => vsockFd = vsockCid /\ IsCid(vsockFd)
    /\ pc = "connect" => IsCid(vsockCid)
    /\ (pc = "connect" /\ up # NoProc) => cidOf[up] = vsockCid
    /\ (up # NoProc /\ lost = "no") => IsCid(cidOf[up])
    /\ (up # NoProc /\ lost = "no" /\ held = up) => cidOf[up] = vsockCid

\* No socket is where Start makes its own.
SocketInv ==
    /\ pc \in {"resize", "listen"} => sockets = {}
    /\ why \notin {"socket_exists", "cid_of_own"}
    /\ pc = "down" => why = "none"
    /\ lost = "no" => why # "cid_of_living"

IInv == TypeOK /\ Sight /\ DiskInv /\ SizeInv /\ IsoInv /\ VsockInv /\ SocketInv

------------------------------------------------------------------------------
(* Sizes.                                                                  *)

LEMMA DesiredSizeFacts ==
    ASSUME NEW size \in 0 .. Word - 1
    PROVE  /\ DesiredSize(size) \in 0 .. Word - 1
           /\ DesiredSize(size) = 0 \/ DesiredSize(size) - size \in 0 .. Block - 1
<1>1. Block \in Nat \ {0} /\ Word \in Nat /\ Word % Block = 0
  BY LaunchAssumption
<1> DEFINE q == size \div Block
           m == Word \div Block
<1>2. size \in Nat /\ size < Word
  BY <1>1
<1>3. /\ q \in Nat /\ size = Block * q + (size % Block)
      /\ size % Block \in 0 .. Block - 1
  BY <1>1, <1>2
<1>4. m \in Nat /\ Word = Block * m
  BY <1>1
<1>5. (q + 1) * Block = Block * q + Block /\ (q + 1) * Block \in Nat
  BY <1>1, <1>3
<1>6. (q + 1) * Block <= Word
  <2> HIDE DEF q, m
  <2>1. q < m
    <3>1. ASSUME q >= m PROVE FALSE
      <4>1. Block * q >= Block * m
        BY <1>1, <1>3, <1>4, <3>1
      <4> QED BY <1>1, <1>2, <1>3, <1>4, <4>1
    <3> QED BY <1>3, <1>4, <3>1
  <2>2. Block * (q + 1) <= Block * m
    BY <1>1, <1>3, <1>4, <2>1
  <2> QED BY <1>1, <1>3, <1>4, <2>2
<1>7. CASE size % Block = 0
  BY <1>1, <1>2, <1>7 DEF DesiredSize
<1>8. CASE size % Block # 0
  <2>1. DesiredSize(size) = ((q + 1) * Block) % Word
    BY <1>8 DEF DesiredSize
  <2> HIDE DEF q, m
  <2>2. CASE (q + 1) * Block = Word
    <3>1. Word % Word = 0
      BY <1>1, <1>2
    <3> QED BY <1>1, <1>2, <2>1, <2>2, <3>1
  <2>3. CASE (q + 1) * Block < Word
    <3>1. ((q + 1) * Block) % Word = (q + 1) * Block
      BY <1>1, <1>5, <2>3
    <3>2. DesiredSize(size) = Block * q + Block
      BY <1>5, <2>1, <3>1
    <3>3. DesiredSize(size) \in 0 .. Word - 1
      BY <1>1, <1>5, <2>1, <2>3, <3>1
    <3>4. DesiredSize(size) - size = Block - (size % Block)
      <4> DEFINE b == Block * q
                 r == size % Block
      <4>1. b \in Nat /\ r \in Nat /\ size = b + r
        BY <1>1, <1>3
      <4> HIDE DEF b, r
      <4> QED BY <1>1, <3>2, <4>1 DEF b, r
    <3>5. Block - (size % Block) \in 0 .. Block - 1
      BY <1>1, <1>3, <1>8
    <3> QED BY <3>3, <3>4, <3>5
  <2> QED BY <1>1, <1>5, <1>6, <2>2, <2>3
<1> QED BY <1>7, <1>8

------------------------------------------------------------------------------
(* Types, in three parts that the provers take one at a time.              *)

HostTypes ==
    /\ strategy \in Strategies
    /\ proc \in [Procs -> {"none", "started", "named"}]
    /\ cidOf \in [Procs -> Cids \cup {NoCid}]
    /\ others \in SUBSET Cids
    /\ record \in Procs \cup {NoProc}
    /\ disk \in 0 .. Word - 1
    /\ iso \in Configs \cup {NoConfig}
    /\ hash \in Configs \cup {NoConfig}
    /\ sockets \in SUBSET {"qmp", "console"}

ProgramTypes ==
    /\ pc \in {"down", "idle", "convert", "flag", "resize", "listen", "iso",
               "hash", "vsock", "name", "launch", "connect"}
    /\ held \in Procs \cup {NoProc}
    /\ vsockFd \in Cids \cup {NoCid} /\ vsockCid \in Cids \cup {NoCid}
    /\ want \in Wants
    /\ why \in Whys
    /\ up \in Procs \cup {NoProc}
    /\ lost \in {"no", "unnamed", "unanswered", "joined"}

FlagTypes ==
    /\ whole \in BOOLEAN /\ writer \in BOOLEAN
    /\ created \in BOOLEAN /\ replaced \in BOOLEAN
    /\ torn \in BOOLEAN /\ stale \in BOOLEAN

LEMMA TypeParts == TypeOK <=> HostTypes /\ ProgramTypes /\ FlagTypes
BY DEF TypeOK, HostTypes, ProgramTypes, FlagTypes

LEMMA HostTypesStep ==
    ASSUME HostTypes, ProgramTypes, [Next]_vars
    PROVE  HostTypes'
<1> USE LaunchAssumption DEF HostTypes, ProgramTypes, Living, OwnCids, Whys, Goto, Fail,
        qemuVars, diskVars, isoVars, heldVars, vsockVars, callVars
<1>1. CASE New
  BY <1>1 DEF New
<1>2. CASE Crash
  BY <1>2 DEF Crash
<1>3. CASE CreateRemoves
  BY <1>3 DEF CreateRemoves
<1>4. CASE CreateConverts
  BY <1>4 DEF CreateConverts
<1>5. CASE CreateFlags
  BY <1>5 DEF CreateFlags
<1>6. CASE StartClears
  BY <1>6 DEF StartClears
<1>7. CASE ResizeRootDisk
  <2>1. DesiredSize(want.disk) \in 0 .. Word - 1
    BY DesiredSizeFacts DEF ProgramTypes
  <2> QED BY <1>7, <2>1 DEF ResizeRootDisk
<1>8. CASE MakeUnixListeners
  BY <1>8 DEF MakeUnixListeners
<1>9. CASE GenerateCloudInitIso
  BY <1>9 DEF GenerateCloudInitIso
<1>10. CASE WriteHash
  BY <1>10 DEF WriteHash
<1>11. CASE OpenVsock
  BY <1>11 DEF OpenVsock, Allocated
<1>12. CASE StartNames
  BY <1>12 DEF StartNames
<1>13. CASE StartLaunches
  BY <1>13 DEF StartLaunches, MayBecome, Runs
<1>14. CASE StartUnanswered
  BY <1>14 DEF StartUnanswered, MayBecome, Runs
<1>15. CASE StartConnects
  BY <1>15 DEF StartConnects
<1>16. CASE StartFails
  BY <1>16 DEF StartFails
<1>17. ASSUME NEW p \in Procs, WritePidFile(p) PROVE HostTypes'
  BY <1>17 DEF WritePidFile
<1>18. ASSUME NEW p \in Procs, Exit(p) PROVE HostTypes'
  BY <1>18 DEF Exit
<1>19. CASE Forget
  BY <1>19 DEF Forget
<1>20. CASE OrphanEnds
  BY <1>20 DEF OrphanEnds
<1>21. ASSUME NEW c \in Cids, OtherVM(c) PROVE HostTypes'
  BY <1>21 DEF OtherVM
<1>22. CASE ForgetStale
  BY <1>22 DEF ForgetStale
<1>23. CASE UNCHANGED vars
  BY <1>23 DEF vars
<1> QED
  BY <1>1, <1>2, <1>3, <1>4, <1>5, <1>6, <1>7, <1>8, <1>9, <1>10, <1>11, <1>12,
     <1>13, <1>14, <1>15, <1>16, <1>17, <1>18, <1>19, <1>20, <1>21, <1>22, <1>23 DEF Next

LEMMA ProgramTypesStep ==
    ASSUME HostTypes, ProgramTypes, [Next]_vars
    PROVE  ProgramTypes'
<1> USE LaunchAssumption DEF HostTypes, ProgramTypes, Living, OwnCids, Whys, Goto, Fail,
        qemuVars, diskVars, isoVars, heldVars, vsockVars, callVars
<1>1. CASE New
  BY <1>1 DEF New
<1>2. CASE Crash
  BY <1>2 DEF Crash
<1>3. CASE CreateRemoves
  BY <1>3 DEF CreateRemoves
<1>4. CASE CreateConverts
  BY <1>4 DEF CreateConverts
<1>5. CASE CreateFlags
  BY <1>5 DEF CreateFlags
<1>6. CASE StartClears
  BY <1>6 DEF StartClears
<1>7. CASE ResizeRootDisk
  BY <1>7 DEF ResizeRootDisk
<1>8. CASE MakeUnixListeners
  BY <1>8 DEF MakeUnixListeners
<1>9. CASE GenerateCloudInitIso
  BY <1>9 DEF GenerateCloudInitIso
<1>10. CASE WriteHash
  BY <1>10 DEF WriteHash
<1>11. CASE OpenVsock
  BY <1>11 DEF OpenVsock, Allocated
<1>12. CASE StartNames
  BY <1>12 DEF StartNames
<1>13. CASE StartLaunches
  BY <1>13 DEF StartLaunches, MayBecome, Runs
<1>14. CASE StartUnanswered
  BY <1>14 DEF StartUnanswered, MayBecome, Runs
<1>15. CASE StartConnects
  BY <1>15 DEF StartConnects
<1>16. CASE StartFails
  BY <1>16 DEF StartFails
<1>17. ASSUME NEW p \in Procs, WritePidFile(p) PROVE ProgramTypes'
  BY <1>17 DEF WritePidFile
<1>18. ASSUME NEW p \in Procs, Exit(p) PROVE ProgramTypes'
  BY <1>18 DEF Exit
<1>19. CASE Forget
  BY <1>19 DEF Forget
<1>20. CASE OrphanEnds
  BY <1>20 DEF OrphanEnds
<1>21. ASSUME NEW c \in Cids, OtherVM(c) PROVE ProgramTypes'
  BY <1>21 DEF OtherVM
<1>22. CASE ForgetStale
  BY <1>22 DEF ForgetStale
<1>23. CASE UNCHANGED vars
  BY <1>23 DEF vars
<1> QED
  BY <1>1, <1>2, <1>3, <1>4, <1>5, <1>6, <1>7, <1>8, <1>9, <1>10, <1>11, <1>12,
     <1>13, <1>14, <1>15, <1>16, <1>17, <1>18, <1>19, <1>20, <1>21, <1>22, <1>23 DEF Next

LEMMA FlagTypesStep ==
    ASSUME FlagTypes, [Next]_vars
    PROVE  FlagTypes'
<1> USE DEF FlagTypes, Goto, Fail, diskVars, isoVars, heldVars
<1>1. CASE New
  BY <1>1, Zenon DEF New
<1>2. CASE Crash
  BY <1>2, Zenon DEF Crash
<1>3. CASE CreateRemoves
  BY <1>3, Zenon DEF CreateRemoves
<1>4. CASE CreateConverts
  BY <1>4, Zenon DEF CreateConverts
<1>5. CASE CreateFlags
  BY <1>5, Zenon DEF CreateFlags
<1>6. CASE StartClears
  BY <1>6, Zenon DEF StartClears
<1>7. CASE ResizeRootDisk
  BY <1>7, Zenon DEF ResizeRootDisk
<1>8. CASE MakeUnixListeners
  BY <1>8, Zenon DEF MakeUnixListeners
<1>9. CASE GenerateCloudInitIso
  BY <1>9, Zenon DEF GenerateCloudInitIso
<1>10. CASE WriteHash
  BY <1>10, Zenon DEF WriteHash
<1>11. CASE OpenVsock
  BY <1>11, Zenon DEF OpenVsock, Allocated
<1>12. CASE StartNames
  BY <1>12, Zenon DEF StartNames
<1>13. CASE StartLaunches
  BY <1>13, Zenon DEF StartLaunches, MayBecome, Runs
<1>14. CASE StartUnanswered
  BY <1>14, Zenon DEF StartUnanswered, MayBecome, Runs
<1>15. CASE StartConnects
  BY <1>15, Zenon DEF StartConnects
<1>16. CASE StartFails
  BY <1>16, Zenon DEF StartFails
<1>17. ASSUME NEW p \in Procs, WritePidFile(p) PROVE FlagTypes'
  BY <1>17, Zenon DEF WritePidFile
<1>18. ASSUME NEW p \in Procs, Exit(p) PROVE FlagTypes'
  BY <1>18, Zenon DEF Exit
<1>19. CASE Forget
  BY <1>19, Zenon DEF Forget
<1>20. CASE OrphanEnds
  BY <1>20, Zenon DEF OrphanEnds
<1>21. ASSUME NEW c \in Cids, OtherVM(c) PROVE FlagTypes'
  BY <1>21, Zenon DEF OtherVM
<1>22. CASE ForgetStale
  BY <1>22, Zenon DEF ForgetStale
<1>23. CASE UNCHANGED vars
  BY <1>23, Zenon DEF vars
<1> QED
  BY <1>1, <1>2, <1>3, <1>4, <1>5, <1>6, <1>7, <1>8, <1>9, <1>10, <1>11, <1>12,
     <1>13, <1>14, <1>15, <1>16, <1>17, <1>18, <1>19, <1>20, <1>21, <1>22, <1>23 DEF Next

------------------------------------------------------------------------------
LEMMA SightStep ==
    ASSUME TypeOK, Sight, [Next]_vars
    PROVE  Sight'
<1> USE LaunchAssumption DEF Sight, Living, TypeOK, Goto, Fail,
        qemuVars, diskVars, isoVars, heldVars, vsockVars, callVars
<1>1. CASE New
  BY <1>1 DEF New
<1>2. CASE Crash
  BY <1>2 DEF Crash
<1>3. CASE CreateRemoves
  BY <1>3 DEF CreateRemoves
<1>4. CASE CreateConverts
  BY <1>4 DEF CreateConverts
<1>5. CASE CreateFlags
  BY <1>5 DEF CreateFlags
<1>6. CASE StartClears
  BY <1>6 DEF StartClears
<1>7. CASE ResizeRootDisk
  BY <1>7 DEF ResizeRootDisk
<1>8. CASE MakeUnixListeners
  BY <1>8 DEF MakeUnixListeners
<1>9. CASE GenerateCloudInitIso
  BY <1>9 DEF GenerateCloudInitIso
<1>10. CASE WriteHash
  BY <1>10 DEF WriteHash
<1>11. CASE OpenVsock
  BY <1>11 DEF OpenVsock, Allocated
<1>12. CASE StartNames
  BY <1>12 DEF StartNames
<1>13. CASE StartLaunches
  BY <1>13 DEF StartLaunches, MayBecome, Runs
<1>14. CASE StartUnanswered
  BY <1>14 DEF StartUnanswered, MayBecome, Runs
<1>15. CASE StartConnects
  BY <1>15 DEF StartConnects
<1>16. CASE StartFails
  BY <1>16 DEF StartFails
<1>17. ASSUME NEW p \in Procs, WritePidFile(p) PROVE Sight'
  BY <1>17 DEF WritePidFile
<1>18. ASSUME NEW p \in Procs, Exit(p) PROVE Sight'
  BY <1>18 DEF Exit
<1>19. CASE Forget
  BY <1>19 DEF Forget
<1>20. CASE OrphanEnds
  BY <1>20 DEF OrphanEnds
<1>21. ASSUME NEW c \in Cids, OtherVM(c) PROVE Sight'
  BY <1>21 DEF OtherVM
<1>22. CASE ForgetStale
  BY <1>22 DEF ForgetStale
<1>23. CASE UNCHANGED vars
  BY <1>23 DEF vars
<1> QED
  BY <1>1, <1>2, <1>3, <1>4, <1>5, <1>6, <1>7, <1>8, <1>9, <1>10, <1>11, <1>12,
     <1>13, <1>14, <1>15, <1>16, <1>17, <1>18, <1>19, <1>20, <1>21, <1>22, <1>23 DEF Next

LEMMA DiskStep ==
    ASSUME TypeOK, Sight, DiskInv, [Next]_vars
    PROVE  DiskInv'
<1> USE LaunchAssumption DEF DiskInv, StoppedMeansWhole, Living, TypeOK, Goto, Fail,
        qemuVars, diskVars, isoVars, heldVars, vsockVars, callVars
<1>1. CASE New
  BY <1>1 DEF New
<1>2. CASE Crash
  BY <1>2 DEF Crash
<1>3. CASE CreateRemoves
  BY <1>3 DEF CreateRemoves
<1>4. CASE CreateConverts
  BY <1>4 DEF CreateConverts
<1>5. CASE CreateFlags
  BY <1>5 DEF CreateFlags
<1>6. CASE StartClears
  BY <1>6 DEF StartClears
<1>7. CASE ResizeRootDisk
  BY <1>7 DEF ResizeRootDisk
<1>8. CASE MakeUnixListeners
  BY <1>8 DEF MakeUnixListeners
<1>9. CASE GenerateCloudInitIso
  BY <1>9 DEF GenerateCloudInitIso
<1>10. CASE WriteHash
  BY <1>10 DEF WriteHash
<1>11. CASE OpenVsock
  BY <1>11 DEF OpenVsock, Allocated
<1>12. CASE StartNames
  BY <1>12 DEF StartNames
<1>13. CASE StartLaunches
  BY <1>13 DEF StartLaunches, MayBecome, Runs
<1>14. CASE StartUnanswered
  BY <1>14 DEF StartUnanswered, MayBecome, Runs
<1>15. CASE StartConnects
  BY <1>15 DEF StartConnects
<1>16. CASE StartFails
  BY <1>16 DEF StartFails
<1>17. ASSUME NEW p \in Procs, WritePidFile(p) PROVE DiskInv'
  BY <1>17 DEF WritePidFile
<1>18. ASSUME NEW p \in Procs, Exit(p) PROVE DiskInv'
  BY <1>18 DEF Exit
<1>19. CASE Forget
  BY <1>19 DEF Forget
<1>20. CASE OrphanEnds
  BY <1>20 DEF OrphanEnds
<1>21. ASSUME NEW c \in Cids, OtherVM(c) PROVE DiskInv'
  BY <1>21 DEF OtherVM
<1>22. CASE ForgetStale
  BY <1>22 DEF ForgetStale
<1>23. CASE UNCHANGED vars
  BY <1>23 DEF vars
<1> QED
  BY <1>1, <1>2, <1>3, <1>4, <1>5, <1>6, <1>7, <1>8, <1>9, <1>10, <1>11, <1>12,
     <1>13, <1>14, <1>15, <1>16, <1>17, <1>18, <1>19, <1>20, <1>21, <1>22, <1>23 DEF Next

LEMMA SizeStep ==
    ASSUME TypeOK, Sight, SizeInv, [Next]_vars
    PROVE  SizeInv'
<1> USE LaunchAssumption DEF SizeInv, HasSize, Sight, Living, TypeOK, Goto, Fail,
        qemuVars, diskVars, isoVars, heldVars, vsockVars, callVars
<1>1. CASE New
  BY <1>1 DEF New
<1>2. CASE Crash
  BY <1>2 DEF Crash
<1>3. CASE CreateRemoves
  BY <1>3 DEF CreateRemoves
<1>4. CASE CreateConverts
  BY <1>4 DEF CreateConverts
<1>5. CASE CreateFlags
  BY <1>5 DEF CreateFlags
<1>6. CASE StartClears
  BY <1>6 DEF StartClears
<1>7. CASE ResizeRootDisk
  <2>1. /\ DesiredSize(want.disk) \in 0 .. Word - 1
        /\ \/ DesiredSize(want.disk) = 0
           \/ DesiredSize(want.disk) - want.disk \in 0 .. Block - 1
    BY DesiredSizeFacts
  <2> QED BY <1>7, <2>1 DEF ResizeRootDisk
<1>8. CASE MakeUnixListeners
  BY <1>8 DEF MakeUnixListeners
<1>9. CASE GenerateCloudInitIso
  BY <1>9 DEF GenerateCloudInitIso
<1>10. CASE WriteHash
  BY <1>10 DEF WriteHash
<1>11. CASE OpenVsock
  BY <1>11 DEF OpenVsock, Allocated
<1>12. CASE StartNames
  BY <1>12 DEF StartNames
<1>13. CASE StartLaunches
  BY <1>13 DEF StartLaunches, MayBecome, Runs
<1>14. CASE StartUnanswered
  BY <1>14 DEF StartUnanswered, MayBecome, Runs
<1>15. CASE StartConnects
  BY <1>15 DEF StartConnects
<1>16. CASE StartFails
  BY <1>16 DEF StartFails
<1>17. ASSUME NEW p \in Procs, WritePidFile(p) PROVE SizeInv'
  BY <1>17 DEF WritePidFile
<1>18. ASSUME NEW p \in Procs, Exit(p) PROVE SizeInv'
  BY <1>18 DEF Exit
<1>19. CASE Forget
  BY <1>19 DEF Forget
<1>20. CASE OrphanEnds
  BY <1>20 DEF OrphanEnds
<1>21. ASSUME NEW c \in Cids, OtherVM(c) PROVE SizeInv'
  BY <1>21 DEF OtherVM
<1>22. CASE ForgetStale
  BY <1>22 DEF ForgetStale
<1>23. CASE UNCHANGED vars
  BY <1>23 DEF vars
<1> QED
  BY <1>1, <1>2, <1>3, <1>4, <1>5, <1>6, <1>7, <1>8, <1>9, <1>10, <1>11, <1>12,
     <1>13, <1>14, <1>15, <1>16, <1>17, <1>18, <1>19, <1>20, <1>21, <1>22, <1>23 DEF Next

LEMMA IsoStep ==
    ASSUME TypeOK, Sight, IsoInv, [Next]_vars
    PROVE  IsoInv'
<1> USE LaunchAssumption DEF IsoInv, HasConfig, Sight, Living, TypeOK, Goto, Fail,
        qemuVars, diskVars, isoVars, heldVars, vsockVars, callVars
<1>1. CASE New
  BY <1>1 DEF New
<1>2. CASE Crash
  BY <1>2 DEF Crash
<1>3. CASE CreateRemoves
  BY <1>3 DEF CreateRemoves
<1>4. CASE CreateConverts
  BY <1>4 DEF CreateConverts
<1>5. CASE CreateFlags
  BY <1>5 DEF CreateFlags
<1>6. CASE StartClears
  BY <1>6 DEF StartClears
<1>7. CASE ResizeRootDisk
  BY <1>7 DEF ResizeRootDisk
<1>8. CASE MakeUnixListeners
  BY <1>8 DEF MakeUnixListeners
<1>9. CASE GenerateCloudInitIso
  BY <1>9 DEF GenerateCloudInitIso
<1>10. CASE WriteHash
  BY <1>10 DEF WriteHash
<1>11. CASE OpenVsock
  BY <1>11 DEF OpenVsock, Allocated
<1>12. CASE StartNames
  BY <1>12 DEF StartNames
<1>13. CASE StartLaunches
  BY <1>13 DEF StartLaunches, MayBecome, Runs
<1>14. CASE StartUnanswered
  BY <1>14 DEF StartUnanswered, MayBecome, Runs
<1>15. CASE StartConnects
  BY <1>15 DEF StartConnects
<1>16. CASE StartFails
  BY <1>16 DEF StartFails
<1>17. ASSUME NEW p \in Procs, WritePidFile(p) PROVE IsoInv'
  BY <1>17 DEF WritePidFile
<1>18. ASSUME NEW p \in Procs, Exit(p) PROVE IsoInv'
  BY <1>18 DEF Exit
<1>19. CASE Forget
  BY <1>19 DEF Forget
<1>20. CASE OrphanEnds
  BY <1>20 DEF OrphanEnds
<1>21. ASSUME NEW c \in Cids, OtherVM(c) PROVE IsoInv'
  BY <1>21 DEF OtherVM
<1>22. CASE ForgetStale
  BY <1>22 DEF ForgetStale
<1>23. CASE UNCHANGED vars
  BY <1>23 DEF vars
<1> QED
  BY <1>1, <1>2, <1>3, <1>4, <1>5, <1>6, <1>7, <1>8, <1>9, <1>10, <1>11, <1>12,
     <1>13, <1>14, <1>15, <1>16, <1>17, <1>18, <1>19, <1>20, <1>21, <1>22, <1>23 DEF Next

LEMMA VsockStep ==
    ASSUME TypeOK, Sight, VsockInv, [Next]_vars
    PROVE  VsockInv'
<1> USE LaunchAssumption DEF VsockInv, IsCid, Sight, Living, OwnCids, CidsInUse, TypeOK, Goto, Fail,
        qemuVars, diskVars, isoVars, heldVars, vsockVars, callVars
<1>1. CASE New
  BY <1>1 DEF New
<1>2. CASE Crash
  BY <1>2 DEF Crash
<1>3. CASE CreateRemoves
  BY <1>3 DEF CreateRemoves
<1>4. CASE CreateConverts
  BY <1>4 DEF CreateConverts
<1>5. CASE CreateFlags
  BY <1>5 DEF CreateFlags
<1>6. CASE StartClears
  BY <1>6 DEF StartClears
<1>7. CASE ResizeRootDisk
  BY <1>7 DEF ResizeRootDisk
<1>8. CASE MakeUnixListeners
  BY <1>8 DEF MakeUnixListeners
<1>9. CASE GenerateCloudInitIso
  BY <1>9 DEF GenerateCloudInitIso
<1>10. CASE WriteHash
  BY <1>10 DEF WriteHash
<1>11. CASE OpenVsock
  BY <1>11 DEF OpenVsock, Allocated
<1>12. CASE StartNames
  BY <1>12 DEF StartNames
<1>13. CASE StartLaunches
  BY <1>13 DEF StartLaunches, MayBecome, Runs
<1>14. CASE StartUnanswered
  BY <1>14 DEF StartUnanswered, MayBecome, Runs
<1>15. CASE StartConnects
  BY <1>15 DEF StartConnects
<1>16. CASE StartFails
  BY <1>16 DEF StartFails
<1>17. ASSUME NEW p \in Procs, WritePidFile(p) PROVE VsockInv'
  BY <1>17 DEF WritePidFile
<1>18. ASSUME NEW p \in Procs, Exit(p) PROVE VsockInv'
  BY <1>18 DEF Exit
<1>19. CASE Forget
  BY <1>19 DEF Forget
<1>20. CASE OrphanEnds
  BY <1>20 DEF OrphanEnds
<1>21. ASSUME NEW c \in Cids, OtherVM(c) PROVE VsockInv'
  BY <1>21 DEF OtherVM
<1>22. CASE ForgetStale
  BY <1>22 DEF ForgetStale
<1>23. CASE UNCHANGED vars
  BY <1>23 DEF vars
<1> QED
  BY <1>1, <1>2, <1>3, <1>4, <1>5, <1>6, <1>7, <1>8, <1>9, <1>10, <1>11, <1>12,
     <1>13, <1>14, <1>15, <1>16, <1>17, <1>18, <1>19, <1>20, <1>21, <1>22, <1>23 DEF Next

LEMMA SocketStep ==
    ASSUME TypeOK, Sight, VsockInv, SocketInv, [Next]_vars
    PROVE  SocketInv'
<1> USE LaunchAssumption DEF VsockInv, SocketInv, IsCid, Sight, Living, OwnCids, CidsInUse, TypeOK, Goto, Fail,
        qemuVars, diskVars, isoVars, heldVars, vsockVars, callVars
<1>1. CASE New
  BY <1>1 DEF New
<1>2. CASE Crash
  BY <1>2 DEF Crash
<1>3. CASE CreateRemoves
  BY <1>3 DEF CreateRemoves
<1>4. CASE CreateConverts
  BY <1>4 DEF CreateConverts
<1>5. CASE CreateFlags
  BY <1>5 DEF CreateFlags
<1>6. CASE StartClears
  BY <1>6 DEF StartClears
<1>7. CASE ResizeRootDisk
  BY <1>7 DEF ResizeRootDisk
<1>8. CASE MakeUnixListeners
  BY <1>8 DEF MakeUnixListeners
<1>9. CASE GenerateCloudInitIso
  BY <1>9 DEF GenerateCloudInitIso
<1>10. CASE WriteHash
  BY <1>10 DEF WriteHash
<1>11. CASE OpenVsock
  BY <1>11 DEF OpenVsock, Allocated
<1>12. CASE StartNames
  BY <1>12 DEF StartNames
<1>13. CASE StartLaunches
  BY <1>13 DEF StartLaunches, MayBecome, Runs
<1>14. CASE StartUnanswered
  BY <1>14 DEF StartUnanswered, MayBecome, Runs
<1>15. CASE StartConnects
  BY <1>15 DEF StartConnects
<1>16. CASE StartFails
  BY <1>16 DEF StartFails
<1>17. ASSUME NEW p \in Procs, WritePidFile(p) PROVE SocketInv'
  BY <1>17 DEF WritePidFile
<1>18. ASSUME NEW p \in Procs, Exit(p) PROVE SocketInv'
  BY <1>18 DEF Exit
<1>19. CASE Forget
  BY <1>19 DEF Forget
<1>20. CASE OrphanEnds
  BY <1>20 DEF OrphanEnds
<1>21. ASSUME NEW c \in Cids, OtherVM(c) PROVE SocketInv'
  BY <1>21 DEF OtherVM
<1>22. CASE ForgetStale
  BY <1>22 DEF ForgetStale
<1>23. CASE UNCHANGED vars
  BY <1>23 DEF vars
<1> QED
  BY <1>1, <1>2, <1>3, <1>4, <1>5, <1>6, <1>7, <1>8, <1>9, <1>10, <1>11, <1>12,
     <1>13, <1>14, <1>15, <1>16, <1>17, <1>18, <1>19, <1>20, <1>21, <1>22, <1>23 DEF Next

------------------------------------------------------------------------------
LEMMA Initially == Init => IInv
<1> SUFFICES ASSUME Init PROVE IInv
  OBVIOUS
<1> USE LaunchAssumption DEF Init
<1>1. TypeOK
  <2>1. 0 \in 0 .. Word - 1
    OBVIOUS
  <2> QED BY <2>1 DEF TypeOK, Whys
<1>2. Sight
  BY DEF Sight, Living
<1>3. DiskInv /\ SizeInv /\ IsoInv
  BY DEF DiskInv, StoppedMeansWhole, SizeInv, IsoInv
<1>4. VsockInv
  <2>1. OwnCids = {NoCid} /\ NoCid \notin others
    BY DEF OwnCids, Living
  <2> QED BY <2>1 DEF VsockInv
<1>5. SocketInv
  BY DEF SocketInv
<1> QED BY <1>1, <1>2, <1>3, <1>4, <1>5 DEF IInv

LEMMA Inductive == IInv /\ [Next]_vars => IInv'
<1> SUFFICES ASSUME IInv, [Next]_vars PROVE IInv'
  OBVIOUS
<1>1. TypeOK'
  BY TypeParts, HostTypesStep, ProgramTypesStep, FlagTypesStep
     DEF IInv, TypeOK, HostTypes, ProgramTypes, FlagTypes
<1>2. Sight'
  BY SightStep DEF IInv
<1>3. DiskInv' /\ SizeInv' /\ IsoInv'
  BY DiskStep, SizeStep, IsoStep DEF IInv
<1>4. VsockInv' /\ SocketInv'
  BY VsockStep, SocketStep DEF IInv
<1> QED BY <1>1, <1>2, <1>3, <1>4 DEF IInv

LEMMA Invariant == Spec => []IInv
BY Initially, Inductive, PTL DEF Spec

------------------------------------------------------------------------------
\* Every variable stays in its range; sizes do although they are rounded up in
\* numbers that wrap around.
THEOREM Typed == Spec => []TypeOK
<1>1. IInv => TypeOK
  BY DEF IInv
<1> QED BY <1>1, Invariant, PTL

\* A VM that is said to be created has a complete root disk, wherever the
\* program was killed.
THEOREM Whole == Spec => []StoppedMeansWhole
<1>1. IInv => StoppedMeansWhole
  BY DEF IInv, DiskInv
<1> QED BY <1>1, Invariant, PTL

\* A VM has the disk size, the cloud-init configuration and the cid that Start
\* was asked for, if Start was called once the QEMU before was gone and
\* forgotten; the image may be another one after a Start that broke off.
THEOREM AsAsked == Spec => []StartedAsAsked
<1>1. IInv => StartedAsAsked
  <2> SUFFICES ASSUME IInv, up # NoProc, lost = "no"
               PROVE  /\ HasSize /\ HasConfig /\ IsCid(cidOf[up])
                      /\ cidOf[up] \notin others
                      /\ held = up => vsockCid = cidOf[up]
    BY DEF StartedAsAsked, HasSize, HasConfig, IsCid
  <2>1. up \in Living
    BY DEF IInv, Sight, Living
  <2>2. cidOf[up] \in OwnCids
    BY <2>1 DEF OwnCids
  <2> QED BY <2>2 DEF IInv, SizeInv, IsoInv, VsockInv
<1> QED BY <1>1, Invariant, PTL

\* A QEMU that outlived the program is not joined by a second one, unless Start
\* was called beside it, it had no pid file, or systemd's reply was lost.
THEOREM OneQemu == Spec => []OneQemuAcrossRestarts
<1>1. IInv => OneQemuAcrossRestarts
  <2> SUFFICES ASSUME IInv PROVE OneQemuAcrossRestarts
    OBVIOUS
  <2>1. lost = "no" => \E x \in {held, record} : Living \subseteq {x}
    BY DEF IInv, Sight
  <2>2. (lost = "no" /\ pc \in {"convert", "flag"}) => Living = {}
    BY LaunchAssumption DEF IInv, Sight, Living
  <2>3. (lost = "no" /\ up # NoProc /\ pc # "connect") => record = up
    BY DEF IInv, Sight, Living
  <2> QED BY <2>1, <2>2, <2>3 DEF IInv, Sight, OneQemuAcrossRestarts
<1> QED BY <1>1, Invariant, PTL

\* No socket, vsock device or disk of an earlier Start makes a later one fail,
\* nor does the cid of its QEMU if that was gone when Start was called.
THEOREM Harmless == Spec => []LeftoversAreHarmless
<1>1. IInv => LeftoversAreHarmless
  BY DEF IInv, SocketInv, DiskInv, LeftoversAreHarmless
<1> QED BY <1>1, Invariant, PTL

\* Whatever options Start is called with, the devices are laid out soundly.
THEOREM LaidOut == Spec => []DevicesAreLaidOut
<1>1. TypeOK => DevicesAreLaidOut
  <2> SUFFICES ASSUME TypeOK PROVE LayoutIsSound(Devices(want))
    BY DEF DevicesAreLaidOut
  <2>1. want.taps \in Nat
    BY LaunchAssumption DEF TypeOK
  <2>2. (IF want.cid = NoCid THEN 5 ELSE 6) \in Nat
    OBVIOUS
  <2> QED BY <2>1, <2>2, LayoutsAreSound DEF Devices
<1> QED BY <1>1, Typed, PTL


==============================================================================
