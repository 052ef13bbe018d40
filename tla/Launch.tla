-------------------------------- MODULE Launch --------------------------------
(***************************************************************************)
(* driver/driver.go: New, Create and Start as far as they leave something  *)
(* behind: the root disk and its flag file, the cloud-init image and its   *)
(* hash, sockets, the file that names QEMU (the pid file of execution/     *)
(* fork.go, the unit name file of execution/systemd.go), and QEMU itself,  *)
(* which lives on when the program does not.  The program may be killed    *)
(* between any two steps; a step that may fail half done and a crash after *)
(* it stand for a crash in the middle of it.                               *)
(*                                                                         *)
(* Create and Start are called at any time.  Start asks for the status     *)
(* only, so it may go on while a QEMU of this VM still runs, or dies, or   *)
(* while the strategy has not forgotten one.  The history variable lost    *)
(* tells when that, a crash or a lost reply may have hidden a QEMU from    *)
(* the driver; it is read by the properties only.                          *)
(***************************************************************************)
EXTENDS PcieBus

CONSTANTS
    Procs,        \* pids, or unit names; used again after an exit
    NoProc,
    Strategies,   \* those to choose from: "fork", "systemd"
    Wants,        \* the options that Start is called with
    Configs,      \* cloud-init configurations, as good as their hashes
    NoConfig,
    Cids,         \* free to use for a VM on this host
    NoCid,        \* the cid 0: no vsock device
    AnyCid,
    Images,       \* sizes of the images that VMs are created from
    Block,        \* root disks are resized to a multiple of this (4096) ...
    Word          \* ... in numbers less than this (2^64)

ASSUME LaunchAssumption ==
    /\ NoProc \notin Procs
    /\ Strategies \subseteq {"fork", "systemd"}
    /\ NoConfig \notin Configs
    /\ NoCid \notin Cids /\ AnyCid \notin Cids /\ NoCid # AnyCid
    /\ Block \in Nat \ {0} /\ Word \in Nat /\ Word % Block = 0
    /\ Images \subseteq 1 .. Word - 1
    /\ \A w \in Wants : /\ w.disk \in 0 .. Word - 1
                        /\ w.cidata \in Configs \cup {NoConfig}
                        /\ w.taps \in Nat

VARIABLES
    strategy,
    proc,       \* QEMU processes: "none", "started", or "named" once the pid
                \* file is written
    cidOf,      \* the vsock cid of each
    others,     \* the cids of other VMs on the host
    record,     \* the process named by the pid file or unit name file
    disk,       \* the root disk: its size, 0 if there is none
    whole,      \* it is the complete image
    writer,     \* a qemu-img that outlived the program is writing to it
    created,    \* the flag file of Create exists
    replaced,   \* history: a Create took the disk of a VM that was created
    iso,        \* the configuration on the cloud-init image; NoConfig if partial
    hash,       \* that of the hash file; NoConfig if there is none to compare
    torn,       \* history: the last generation of the image was broken off
    sockets,    \* paths in the runtime directory
    pc,         \* what the holder of d.mu does next; "down" without a program
    held,       \* the process the strategy says is running
    stale,      \* the goroutine of an earlier process has still to clear that
    vsockFd,    \* the cid of the vsock device in the builder's fds
    vsockCid,   \* d.vsockCid
    want,       \* the options of the last Start
    why,        \* why it failed, if it was the last call
    up,         \* the QEMU it launched, unless it failed
    lost        \* history: whether a QEMU may be lost sight of, and how

qemuVars  == <<proc, cidOf, record>>
diskVars  == <<disk, whole, writer, created, replaced>>
isoVars   == <<iso, hash, torn>>
heldVars  == <<held, stale>>
vsockVars == <<vsockFd, vsockCid>>
callVars  == <<want, why, up>>
vars == <<strategy, qemuVars, others, diskVars, isoVars, sockets, pc, heldVars,
          vsockVars, callVars, lost>>

Whys == {"none", "fault", "no_disk", "shrink", "socket_exists", "cid_in_use",
         "cid_of_own", "cid_of_living", "cid_reserved"}

TypeOK ==
    /\ strategy \in Strategies
    /\ proc \in [Procs -> {"none", "started", "named"}]
    /\ cidOf \in [Procs -> Cids \cup {NoCid}]
    /\ others \in SUBSET Cids
    /\ record \in Procs \cup {NoProc}
    /\ disk \in 0 .. Word - 1
    /\ whole \in BOOLEAN /\ writer \in BOOLEAN
    /\ created \in BOOLEAN /\ replaced \in BOOLEAN
    /\ iso \in Configs \cup {NoConfig}
    /\ hash \in Configs \cup {NoConfig}
    /\ torn \in BOOLEAN
    /\ sockets \in SUBSET {"qmp", "console"}
    /\ pc \in {"down", "idle", "convert", "flag", "resize", "listen", "iso",
               "hash", "vsock", "name", "launch", "connect"}
    /\ held \in Procs \cup {NoProc}
    /\ stale \in BOOLEAN
    /\ vsockFd \in Cids \cup {NoCid} /\ vsockCid \in Cids \cup {NoCid}
    /\ want \in Wants
    /\ why \in Whys
    /\ up \in Procs \cup {NoProc}
    /\ lost \in {"no", "unnamed", "unanswered", "joined"}

\* Nothing is there yet.
Init ==
    /\ strategy \in Strategies
    /\ proc = [p \in Procs |-> "none"]
    /\ cidOf = [p \in Procs |-> NoCid]
    /\ others \in SUBSET Cids
    /\ record = NoProc
    /\ disk = 0 /\ whole = FALSE /\ writer = FALSE
    /\ created = FALSE /\ replaced = FALSE
    /\ iso = NoConfig /\ hash = NoConfig /\ torn = FALSE
    /\ sockets = {}
    /\ pc = "down"
    /\ held = NoProc /\ stale = FALSE
    /\ vsockFd = NoCid /\ vsockCid = NoCid
    /\ want \in Wants
    /\ why = "none"
    /\ up = NoProc
    /\ lost = "no"

Living == {p \in Procs : proc[p] # "none"}

\* The kernel refuses a cid that another open vsock device has.
OwnCids   == {cidOf[p] : p \in Living} \cup {vsockFd}
CidsInUse == others \cup OwnCids

Goto(l) == pc' = l /\ UNCHANGED callVars

\* What the code might be, for the checks of the properties.
FailLeaking(reason) ==
    /\ pc' = "idle"
    /\ why' = reason
    /\ up' = NoProc
    /\ UNCHANGED <<vsockFd, want>>

NewTrustingErrors ==
    /\ pc = "down"
    /\ record' = NoProc
    /\ Goto("idle")
    /\ lost' = IF Living = {} THEN "no" ELSE lost
    /\ UNCHANGED <<strategy, proc, cidOf, others, diskVars, isoVars, sockets,
                   heldVars, vsockVars>>

CreateRemovesFlagging ==
    /\ pc = "idle"
    /\ held = NoProc
    /\ pc' = "convert"
    /\ why' = "none"
    /\ disk' \in Images
    /\ whole' = FALSE
    /\ writer' = FALSE
    /\ created' = TRUE
    /\ UNCHANGED <<strategy, qemuVars, others, replaced, isoVars, sockets,
                   heldVars, vsockVars, want, up, lost>>

\* Start returns an error; builder.CloseFds is deferred.
Fail(reason) ==
    /\ pc' = "idle"
    /\ why' = reason
    /\ up' = NoProc
    /\ vsockFd' = NoCid
    /\ UNCHANGED want

------------------------------------------------------------------------------
(* The program.                                                            *)

\* New, when FindRunning finds nothing to watch and removes the file.  When
\* it finds a process New panics (startWatcher, d.mon is nil): no step.
New ==
    /\ pc = "down"
    /\ record \notin Living
    /\ record' = NoProc
    /\ Goto("idle")
    /\ lost' = IF Living = {} THEN "no" ELSE lost
    /\ UNCHANGED <<strategy, proc, cidOf, others, diskVars, isoVars, sockets,
                   heldVars, vsockVars>>

\* The program is killed, or ends by log.Fatalf.  A running qemu-img may go on.
Crash ==
    /\ pc # "down"
    /\ pc' = "down"
    /\ why' = "none"
    /\ up' = IF pc = "connect" THEN NoProc ELSE up
    /\ held' = NoProc /\ stale' = FALSE
    /\ vsockFd' = NoCid /\ vsockCid' = NoCid
    /\ writer' \in {writer, pc = "convert"}
    /\ lost' = IF lost = "no" /\ Living \ {record} # {} THEN "unnamed" ELSE lost
    /\ UNCHANGED <<strategy, qemuVars, others, disk, whole, created, replaced,
                   isoVars, sockets, want>>

------------------------------------------------------------------------------
(* Create.                                                                 *)

\* The strategy is asked whether QEMU runs.  The old disk is removed (what still
\* writes to it writes to nothing) and qemu-img begins to write a new one ...
CreateRemoves ==
    /\ pc = "idle"
    /\ held = NoProc
    /\ pc' = "convert"
    /\ why' = "none"
    /\ disk' \in Images
    /\ whole' = FALSE
    /\ writer' = FALSE
    /\ replaced' = (replaced \/ created)
    /\ UNCHANGED <<strategy, qemuVars, others, created, isoVars, sockets,
                   heldVars, vsockVars, want, up, lost>>

\* ... and is done, or fails; Create then returns an error.
CreateConverts ==
    /\ pc = "convert"
    /\ \/ whole' = TRUE /\ Goto("flag") /\ UNCHANGED disk
       \/ disk' \in {0, disk} /\ Goto("idle") /\ UNCHANGED whole
    /\ UNCHANGED <<strategy, qemuVars, others, writer, created, replaced,
                   isoVars, sockets, heldVars, vsockVars, lost>>

CreateFlags ==
    /\ pc = "flag"
    /\ \/ created' = TRUE /\ replaced' = FALSE
       \/ UNCHANGED <<created, replaced>>
    /\ Goto("idle")
    /\ UNCHANGED <<strategy, qemuVars, others, disk, whole, writer, isoVars,
                   sockets, heldVars, vsockVars, lost>>

------------------------------------------------------------------------------
(* Start.                                                                  *)

\* Balloon, keyboard, tablet, VGA, the SCSI controller and the vsock device are
\* on the command line; network adapters are plugged into root ports.
Devices(w) == Allocate(IF w.cid = NoCid THEN 5 ELSE 6, w.taps)

\* Start is rejected while the status is Running.  With any other status, that
\* of a running VM whose monitor does not answer included, each of the old files
\* is removed, or Start fails at it.
StartClears ==
    /\ pc = "idle"
    /\ lost' = IF Living = {} /\ held = NoProc /\ ~stale THEN "no" ELSE "joined"
    /\ want' \in Wants
    /\ up' = NoProc
    /\ \/ pc' = "resize" /\ why' = "none" /\ sockets' = {}
          /\ record' = IF strategy = "fork" THEN NoProc ELSE record
       \/ pc' = "idle" /\ why' = "fault"
          /\ sockets' \in {sockets, sockets \ {"qmp"}, {}}
          /\ UNCHANGED record
    /\ UNCHANGED <<strategy, proc, cidOf, others, diskVars, isoVars, heldVars,
                   vsockVars>>

\* The size asked for, in whole blocks; the sum may wrap around.
DesiredSize(size) ==
    IF size % Block = 0 THEN size
    ELSE (((size \div Block) + 1) * Block) % Word

\* qemu-img refuses to shrink a disk.
ResizeRootDisk ==
    /\ pc = "resize"
    /\ LET desired == DesiredSize(want.disk)
       IN \/ /\ want.disk = 0 \/ (disk # 0 /\ disk = desired)
             /\ Goto("listen")
             /\ UNCHANGED <<disk, vsockFd>>
          \/ /\ want.disk # 0 /\ disk # 0 /\ disk < desired
             /\ disk' = desired
             /\ Goto("listen")
             /\ UNCHANGED vsockFd
          \/ want.disk # 0 /\ disk = 0 /\ Fail("no_disk") /\ UNCHANGED disk
          \/ want.disk # 0 /\ disk > desired /\ Fail("shrink") /\ UNCHANGED disk
    /\ UNCHANGED <<strategy, qemuVars, others, whole, writer, created, replaced,
                   isoVars, sockets, heldVars, vsockCid, lost>>

\* The sockets of the monitor and the console; a listener needs a path where
\* nothing is, and leaves it there.
MakeUnixListeners ==
    /\ pc = "listen"
    /\ \/ sockets # {} /\ Fail("socket_exists") /\ UNCHANGED sockets
       \/ sockets = {} /\ sockets' = {"qmp"} /\ Fail("fault")
       \/ /\ sockets = {}
          /\ sockets' = {"qmp", "console"}
          /\ Goto("iso") /\ UNCHANGED vsockFd
    /\ UNCHANGED <<strategy, qemuVars, others, diskVars, isoVars, heldVars,
                   vsockCid, lost>>

\* What the code might be, for the checks of the properties.
GenerateCloudInitIsoOnce ==
    /\ pc = "iso"
    /\ \/ /\ want.cidata = NoConfig \/ hash # NoConfig
          /\ Goto("vsock")
          /\ UNCHANGED <<iso, torn, vsockFd>>
       \/ /\ want.cidata # NoConfig /\ hash = NoConfig
          /\ torn' = TRUE
          /\ \/ iso' = want.cidata /\ Goto("hash") /\ UNCHANGED vsockFd
             \/ iso' = NoConfig /\ Fail("fault")
    /\ UNCHANGED <<strategy, qemuVars, others, diskVars, hash, sockets,
                   heldVars, vsockCid, lost>>

OpenVsockUnchecked ==
    /\ pc = "vsock"
    /\ want.cid \notin CidsInUse \ {NoCid}
    /\ vsockCid' = want.cid
    /\ vsockFd' = want.cid
    /\ Goto(IF strategy = "systemd" THEN "name" ELSE "launch")
    /\ UNCHANGED <<strategy, qemuVars, others, diskVars, isoVars, sockets,
                   heldVars, lost>>

\* The image is truncated and written, unless the hash file has the hash of
\* this configuration.
GenerateCloudInitIso ==
    /\ pc = "iso"
    /\ \/ /\ want.cidata \in {NoConfig, hash}
          /\ Goto("vsock")
          /\ UNCHANGED <<iso, torn, vsockFd>>
       \/ /\ want.cidata \notin {NoConfig, hash}
          /\ torn' = TRUE
          /\ \/ iso' = want.cidata /\ Goto("hash") /\ UNCHANGED vsockFd
             \/ iso' = NoConfig /\ Fail("fault")
    /\ UNCHANGED <<strategy, qemuVars, others, diskVars, hash, sockets,
                   heldVars, vsockCid, lost>>

\* The hash file is truncated and written.
WriteHash ==
    /\ pc = "hash"
    /\ \/ hash' = want.cidata /\ torn' = FALSE /\ Goto("vsock") /\ UNCHANGED vsockFd
       \/ hash' \in {hash, NoConfig} /\ Fail("fault") /\ UNCHANGED torn
    /\ UNCHANGED <<strategy, qemuVars, others, diskVars, iso, sockets, heldVars,
                   vsockCid, lost>>

Allocated(c) ==
    /\ vsockCid' = c
    /\ vsockFd' = c
    /\ Goto(IF strategy = "systemd" THEN "name" ELSE "launch")

\* openFreeVsock gives up after ten random cids that are all in use.
OpenVsock ==
    /\ pc = "vsock"
    /\ \/ want.cid = NoCid /\ Allocated(NoCid)
       \/ want.cid = AnyCid /\ \E c \in Cids \ CidsInUse : Allocated(c)
       \/ want.cid \in Cids \ CidsInUse /\ Allocated(want.cid)
       \/ /\ vsockCid' = NoCid
          /\ \/ want.cid = AnyCid /\ CidsInUse # {NoCid} /\ Fail("cid_in_use")
             \/ want.cid \in others /\ Fail("cid_in_use")
             \/ want.cid # NoCid /\ want.cid = vsockFd /\ Fail("cid_of_own")
             \/ /\ want.cid \in {cidOf[p] : p \in Living} \ {NoCid}
                /\ Fail("cid_of_living")
             \/ want.cid \notin Cids \cup {NoCid, AnyCid} /\ Fail("cid_reserved")
    /\ UNCHANGED <<strategy, qemuVars, others, diskVars, isoVars, sockets,
                   heldVars, lost>>

\* systemd.go writes the name of the unit before it starts the unit ...
StartNames ==
    /\ pc = "name"
    /\ record' \in Procs \ Living
    /\ Goto("launch")
    /\ UNCHANGED <<strategy, proc, cidOf, others, diskVars, isoVars, sockets,
                   heldVars, vsockVars, lost>>

\* ... fork.go leaves it to QEMU to write the pid file.
MayBecome(p) ==
    /\ p \notin Living
    /\ strategy = "systemd" => p = record

Runs(p) ==
    /\ proc' = [proc EXCEPT ![p] = IF strategy = "systemd" THEN "named" ELSE "started"]
    /\ cidOf' = [cidOf EXCEPT ![p] = vsockFd]

\* QEMU runs and is watched, or is killed since it could not be; or there is
\* no QEMU, and fork.go has lost the pidfd of an earlier one if the command
\* could not be executed.  The goroutine of an earlier one still waits.  In each
\* case the program closes its own fds.
StartLaunches ==
    /\ pc = "launch"
    /\ \/ \E p \in Procs : /\ MayBecome(p)
                           /\ Runs(p)
                           /\ held' = p
                           /\ \/ /\ pc' = "connect" /\ up' = p
                                 /\ vsockFd' = NoCid
                                 /\ UNCHANGED <<want, why>>
                              \/ strategy = "fork" /\ Fail("fault")
       \/ /\ held' \in {held, IF strategy = "fork" THEN NoProc ELSE held}
          /\ Fail("fault")
          /\ UNCHANGED <<proc, cidOf>>
    /\ stale' = (stale \/ held \notin {NoProc, held'})
    /\ UNCHANGED <<strategy, record, others, diskVars, isoVars, sockets,
                   vsockCid, lost>>

\* The reply to StartTransientUnit is lost: the unit runs, Start fails, and
\* Kill does not know its name.
StartUnanswered ==
    /\ pc = "launch"
    /\ strategy = "systemd"
    /\ \E p \in Procs : MayBecome(p) /\ Runs(p)
    /\ Fail("fault")
    /\ lost' = "unanswered"
    /\ UNCHANGED <<strategy, record, others, diskVars, isoVars, sockets,
                   heldVars, vsockCid>>

\* Connect, plug the disks and adapters, continue: QEMU answers once it has
\* written its pid file, if its devices have their slots, and plugs the root
\* disk if it is there.  Otherwise it is killed.
StartConnects ==
    /\ pc = "connect"
    /\ \/ /\ up # NoProc
          /\ proc[up] = "named"
          /\ Fits(Devices(want))
          /\ disk # 0
          /\ Goto("idle")
          /\ UNCHANGED vsockFd
       \/ Fail("fault")
    /\ UNCHANGED <<strategy, qemuVars, others, diskVars, isoVars, sockets,
                   heldVars, vsockCid, lost>>

\* Something else goes wrong before QEMU is launched: a path cannot be looked
\* up, qemu-img fails, the config file cannot be written, ...
StartFails ==
    /\ pc \in {"resize", "listen", "iso", "vsock", "name", "launch"}
    /\ Fail("fault")
    /\ vsockCid' \in {vsockCid, IF pc = "vsock" THEN NoCid ELSE vsockCid}
    /\ UNCHANGED <<strategy, qemuVars, others, diskVars, isoVars, sockets,
                   heldVars, lost>>

------------------------------------------------------------------------------
(* What goes on beside the program.                                        *)

WritePidFile(p) ==
    /\ proc[p] = "started"
    /\ proc' = [proc EXCEPT ![p] = "named"]
    /\ record' = p
    /\ UNCHANGED <<strategy, cidOf, others, diskVars, isoVars, sockets, pc,
                   heldVars, vsockVars, callVars, lost>>

\* QEMU exits, killed or not; a clean exit removes its pid file.
Exit(p) ==
    /\ p \in Living
    /\ proc' = [proc EXCEPT ![p] = "none"]
    /\ cidOf' = [cidOf EXCEPT ![p] = NoCid]
    /\ record' \in {record, IF record = p /\ strategy = "fork" THEN NoProc ELSE record}
    /\ up' = IF up = p THEN NoProc ELSE up
    /\ UNCHANGED <<strategy, others, diskVars, isoVars, sockets, pc, heldVars,
                   vsockVars, want, why, lost>>

\* The strategy's goroutine learns of it.
Forget ==
    /\ held \in Procs \ Living
    /\ held' = NoProc
    /\ UNCHANGED <<strategy, qemuVars, others, diskVars, isoVars, sockets, pc,
                   stale, vsockVars, callVars, lost>>

\* So does the goroutine of an earlier QEMU (when it exits is not told apart,
\* nor whether there are several of them): it clears what is held by now.
ForgetStale ==
    /\ stale
    /\ held' = NoProc
    /\ stale' \in BOOLEAN
    /\ UNCHANGED <<strategy, qemuVars, others, diskVars, isoVars, sockets, pc,
                   vsockVars, callVars, lost>>

OrphanEnds ==
    /\ writer
    /\ writer' = FALSE
    /\ whole' \in BOOLEAN
    /\ UNCHANGED <<strategy, qemuVars, others, disk, created, replaced, isoVars,
                   sockets, pc, heldVars, vsockVars, callVars, lost>>

OtherVM(c) ==
    /\ others' = IF c \in others THEN others \ {c} ELSE others \cup {c}
    /\ c \in others \/ c \notin OwnCids
    /\ UNCHANGED <<strategy, qemuVars, diskVars, isoVars, sockets, pc, heldVars,
                   vsockVars, callVars, lost>>

------------------------------------------------------------------------------
Next ==
    \/ New \/ Crash
    \/ CreateRemoves \/ CreateConverts \/ CreateFlags
    \/ StartClears \/ ResizeRootDisk \/ MakeUnixListeners
    \/ GenerateCloudInitIso \/ WriteHash \/ OpenVsock
    \/ StartNames \/ StartLaunches \/ StartUnanswered \/ StartConnects \/ StartFails
    \/ \E p \in Procs : WritePidFile(p) \/ Exit(p)
    \/ Forget \/ ForgetStale \/ OrphanEnds
    \/ \E c \in Cids : OtherVM(c)

Spec == Init /\ [][Next]_vars

------------------------------------------------------------------------------
(* Properties.                                                             *)

\* A VM that is said to be created (GetStatus: Stopped, not Uninitialized) has
\* a complete root disk that nobody writes to, whenever the program was killed
\* and whatever failed; unless a second Create is replacing that disk, whose
\* flag file is there from the first.
StoppedMeansWhole == (created /\ ~replaced) => (disk # 0 /\ whole /\ ~writer)

\* As long as a QEMU runs whose Start did not fail, it has what was asked: a
\* disk of that size, rounded up; that cloud-init configuration; "the cid the
\* guest gets, 0 for no vsock device at all and AnyVsockCid for a cid no other
\* VM on the host holds" (startOptions.go), which GetVsockCid returns.  Not so
\* if Start was called while another QEMU of this VM lived or was not forgotten;
\* and the configuration may be another one if a Start broke off between the
\* image and its hash and a later one asks for what the hash file still has.
StartedAsAsked ==
    (up # NoProc /\ lost = "no") =>
       /\ want.disk # 0 => disk - want.disk \in 0 .. Block - 1
       /\ want.cidata # NoConfig =>
             iso = want.cidata \/ (torn /\ hash = want.cidata)
       /\ want.cid # AnyCid => cidOf[up] = want.cid
       /\ want.cid = AnyCid => cidOf[up] \in Cids \ others
       /\ held = up => vsockCid = cidOf[up]

\* A QEMU that outlived the program is never joined by a second one on its
\* disk, nor is the disk replaced (Create): New finds the QEMU of every Start
\* that returned nil.  What is lost sight of is a QEMU that has not written its
\* pid file when the program dies, which cannot happen under systemd, a unit
\* that was started without an answer, and one that Start is called beside: as
\* long as it lives, or its goroutine has not noticed that it does not.
OneQemuAcrossRestarts ==
    /\ strategy = "systemd" => lost # "unnamed"
    /\ lost = "no" =>
          /\ \A p, q \in Living : p = q
          /\ pc \in {"convert", "flag"} => Living = {}
          /\ up # NoProc /\ pc # "connect" => record = up

\* What an earlier Start, failed or killed at any point, left behind does not
\* make a later one fail: not its sockets and not its vsock device, nor the cid
\* of its QEMU if that had exited, and the exit was noticed, when Start was
\* called.  The root disk of a VM that was created is there.
LeftoversAreHarmless ==
    /\ why \notin {"socket_exists", "cid_of_own"}
    /\ lost = "no" => why # "cid_of_living"
    /\ why = "no_disk" => ~created \/ replaced

\* QEMU's command line and the root ports that adapters are plugged into make
\* a sound PCIe hierarchy.
DevicesAreLaidOut == pc = "connect" => LayoutIsSound(Devices(want))

==============================================================================
