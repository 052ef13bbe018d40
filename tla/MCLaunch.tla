------------------------------- MODULE MCLaunch -------------------------------
\* Instances of Launch for TLC.
EXTENDS Launch, TLC

CONSTANTS c1, host, ciA, ciB

\* A growing disk and a given cid; the disk as it is, another configuration and
\* any cid, with more adapters; a smaller disk, perhaps, and no vsock device;
\* the cid of the host.
MCWants ==
    {[disk |-> 5, cidata |-> ciA,      cid |-> c1,     taps |-> 1],
     [disk |-> 0, cidata |-> ciB,      cid |-> AnyCid, taps |-> 9],
     [disk |-> 4, cidata |-> NoConfig, cid |-> NoCid,  taps |-> 0],
     [disk |-> 0, cidata |-> ciA,      cid |-> host,   taps |-> 0]}

Symmetric == Permutations(Procs)

==============================================================================
