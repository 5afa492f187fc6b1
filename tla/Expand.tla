------------------------------- MODULE Expand -------------------------------
(***************************************************************************)
(* Growing a volume: ControllerExpandVolume (pkg/driver/controller.go) and *)
(* NodeExpandVolume with getVolumeDevice (pkg/driver/node.go), ResizeBlock *)
(* and ResizeFS (pkg/utils/resizer.go).  The node finds the disk by asking *)
(* udev for each name that lsblk lists, while disks come and go, and then  *)
(* works on the name it found.                                             *)
(*                                                                         *)
(* External: CloudTower, where the volume is made larger (expandVolume is  *)
(* a stub); the kernel's block devices and udev's database; the kubelet    *)
(* and the resizer sidecar.                                                *)
(***************************************************************************)
EXTENDS VolumeRequest, FiniteSetsExt

CONSTANTS
    Disk,        \* the disks that may be plugged into the VM
    Vol,         \* the one of the volume that is watched
    Answer,      \* how many lines "grep ID_SERIAL" finds for each disk
    Alike,       \* the disks whose serial, as udev has it, begins the volume's
    Name,        \* device names, as numbers in the order of lsblk
    Format,      \* what GetDiskFormat finds on the volume
    Ask,         \* what may be asked of the controller: [range, cap or None]
    Sizes,       \* the sizes the volume may have
    OtherSize,   \* the size of every other disk
    Call,        \* slots for RPCs in flight
    RetryLimit,  \* retryLimit of resizer.go
    MaxFaults,   \* bound: errors, crashes, deadlines, disks that go
    None

\* resizeCmd
Resizable == {"ext2", "ext3", "ext4", "xfs"}

ASSUME ExpandAssumption ==
    /\ Vol \in Disk /\ None \notin Disk
    /\ Answer \in [Disk -> {"none", "one", "many"}] /\ Alike \subseteq Disk
    /\ Name \subseteq Nat /\ IsFiniteSet(Name) /\ None \notin Name
    /\ Format \in {"", "unknown data, probably partitions"} \cup Resizable
    /\ Sizes \subseteq Nat \ {0} /\ Sizes # {} /\ OtherSize \in Nat
    /\ \A a \in Ask : a.range \in CapacityRange
    /\ RetryLimit \in Nat \ {0} /\ MaxFaults \in Nat

VARIABLES
    pc,       \* where the handler of each call is
    size,     \* the size of the volume it read from CloudTower
    list,     \* the names it has yet to look at
    device,   \* the name it found
    tries,    \* how often ResizeBlock has tried
    open,     \* the calls whose client still waits
    volSize,  \* CloudTower's size of the volume
    dev,      \* the disk behind each name
    udev,     \* the disk udev's database has for each name
    devSize,  \* the kernel's size of the volume's disk
    fsSize,   \* the size of its file system
    cap,      \* the capacity the controller has reported
    told,     \* the capacity the node has reported
    faults

handler == <<pc, size, list, device, tries>>
host    == <<dev, udev, devSize, fsSize>>
vars    == <<handler, open, volSize, host, cap, told, faults>>

Steps == {"volume", "disk", "lsblk", "scan", "rescan", "size", "format", "resizefs"}

\* Steps at which the handler works on the name it found.
Using == {"rescan", "size", "format", "resizefs"}

TypeOK ==
    /\ pc \in [Call -> Steps \cup {"idle"}]
    /\ size \in [Call -> Sizes \cup {0}]
    /\ list \in [Call -> SUBSET Name]
    /\ device \in [Call -> Name \cup {None}]
    /\ tries \in [Call -> 0 .. RetryLimit]
    /\ open \subseteq Call
    /\ volSize \in Sizes
    /\ dev \in [Name -> Disk \cup {None}]
    /\ udev \in [Name -> Disk \cup {None}]
    /\ devSize \in Sizes /\ fsSize \in Sizes
    /\ cap \in Sizes \cup {0} /\ told \in Sizes \cup {0}
    /\ faults \in 0 .. MaxFaults

\* The volume is a disk of the VM, staged at its present size.
Init ==
    /\ pc = [c \in Call |-> "idle"]
    /\ size = [c \in Call |-> 0]
    /\ list = [c \in Call |-> {}]
    /\ device = [c \in Call |-> None]
    /\ tries = [c \in Call |-> 0]
    /\ open = {}
    /\ volSize \in Sizes /\ devSize = volSize /\ fsSize = volSize
    /\ \E n \in Name : dev = [m \in Name |-> IF m = n THEN Vol ELSE None]
    /\ udev = dev
    /\ cap = 0 /\ told = 0
    /\ faults = 0

Fault == faults < MaxFaults /\ faults' = faults + 1

Plugged == \E n \in Name : dev[n] = Vol

-----------------------------------------------------------------------------
(* The handlers. *)

At(c, place) == pc[c] = place

Goto(c, place) == pc' = [pc EXCEPT ![c] = place] /\ UNCHANGED <<open, told>>

Return(c, ok) ==
    /\ pc' = [pc EXCEPT ![c] = "idle"]
    /\ size' = [size EXCEPT ![c] = 0]
    /\ list' = [list EXCEPT ![c] = {}]
    /\ device' = [device EXCEPT ![c] = None]
    /\ tries' = [tries EXCEPT ![c] = 0]
    /\ open' = open \ {c}
    /\ told' = IF ok /\ c \in open THEN size[c] ELSE told

\* ControllerExpandVolume: expandVolume does nothing, the size that was read
\* is the capacity.
ControllerExpandVolume(a) ==
    /\ ValidRange(a.range) /\ (a.cap # None => checkVolumeCapability(a.cap))
    /\ cap' = volSize
    /\ UNCHANGED <<handler, open, volSize, host, told, faults>>

\* getVolume, the first step of NodeExpandVolume.
GetVolume(c) ==
    /\ At(c, "volume")
    /\ size' = [size EXCEPT ![c] = volSize]
    /\ Goto(c, "disk")
    /\ UNCHANGED <<list, device, tries, volSize, host, cap, faults>>

\* getVolumeDevice asks CloudTower for the disk and its serial, ...
GetDisk(c) ==
    /\ At(c, "disk") /\ Plugged
    /\ Goto(c, "lsblk")
    /\ UNCHANGED <<size, list, device, tries, volSize, host, cap, faults>>

\* ... lists the device names, ...
Lsblk(c) ==
    /\ At(c, "lsblk")
    /\ list' = [list EXCEPT ![c] = {n \in Name : dev[n] # None}]
    /\ list'[c] # {}
    /\ Goto(c, "scan")
    /\ UNCHANGED <<size, device, tries, volSize, host, cap, faults>>

\* What udevadm says of a name: nothing if the device has gone meanwhile, or
\* if its database has no entry or no serial for it.
Answered(n) == dev[n] # None /\ udev[n] # None /\ Answer[udev[n]] # "none"

\* One line, and its serial is a prefix of the one that CloudTower has: it may
\* be cut short or empty, so that another disk than the volume's may match.
Matches(n) == udev[n] \in Alike /\ Answer[udev[n]] = "one"

\* Mutant: the serial is not compared.
ScanAny(c) ==
    LET n == Min(list[c])  rest == list[c] \ {n} IN
    /\ At(c, "scan") /\ Answered(n)
    /\ rest # {} \/ device[c] # None \/ Answer[udev[n]] = "one"
    /\ device' = [device EXCEPT ![c] = IF Answer[udev[n]] = "one" THEN n ELSE @]
    /\ list' = [list EXCEPT ![c] = rest]
    /\ Goto(c, IF rest = {} THEN "rescan" ELSE "scan")
    /\ UNCHANGED <<size, tries, volSize, host, cap, faults>>

\* ... and asks udev for the serial of each: the last one that matches is the
\* device.  An answer of more than one line is passed over.
Scan(c) ==
    LET n == Min(list[c])  rest == list[c] \ {n} IN
    /\ At(c, "scan") /\ Answered(n)
    /\ rest # {} \/ device[c] # None \/ Matches(n)
    /\ device' = [device EXCEPT ![c] = IF Matches(n) THEN n ELSE @]
    /\ list' = [list EXCEPT ![c] = rest]
    /\ Goto(c, IF rest = {} THEN "rescan" ELSE "scan")
    /\ UNCHANGED <<size, tries, volSize, host, cap, faults>>

\* A try of ResizeBlock fails, the last one for good.
Again(c) ==
    IF tries[c] + 1 < RetryLimit
    THEN /\ tries' = [tries EXCEPT ![c] = @ + 1]
         /\ Goto(c, "rescan")
         /\ UNCHANGED <<size, list, device>>
    ELSE Return(c, FALSE)

\* rescan: the kernel takes over the size of the disk, unless that is late.
Rescan(c) ==
    /\ At(c, "rescan")
    /\ \/ /\ dev[device[c]] = None
          /\ Again(c)
          /\ UNCHANGED <<devSize, faults>>
       \/ /\ dev[device[c]] # None
          /\ Goto(c, "size")
          /\ UNCHANGED <<size, list, device, tries>>
          /\ \/ devSize' = (IF dev[device[c]] = Vol THEN volSize ELSE devSize) /\ UNCHANGED faults
             \/ UNCHANGED devSize /\ Fault
    /\ UNCHANGED <<volSize, dev, udev, fsSize, cap>>

DeviceSize(n) == IF dev[n] = Vol THEN devSize ELSE OtherSize

\* Mutant: the size of the device is not looked at.
GetDeviceSizeNot(c) ==
    /\ At(c, "size")
    /\ Goto(c, "format")
    /\ UNCHANGED <<size, list, device, tries, volSize, host, cap, faults>>

\* Mutant: a device of just the size is waited for.
GetDeviceSizeLarger(c) ==
    LET n == device[c] IN
    /\ At(c, "size")
    /\ \/ dev[n] # None /\ DeviceSize(n) > size[c] /\ Goto(c, "format") /\ UNCHANGED <<size, list, device, tries>>
       \/ (dev[n] # None => DeviceSize(n) <= size[c]) /\ Again(c)
    /\ UNCHANGED <<volSize, host, cap, faults>>

\* getDeviceSize, and the comparison of ResizeBlock.
GetDeviceSize(c) ==
    LET n == device[c]  done == dev[n] # None /\ DeviceSize(n) >= size[c] IN
    /\ At(c, "size")
    /\ \/ done /\ Goto(c, "format") /\ UNCHANGED <<size, list, device, tries>>
       \/ ~done /\ Again(c)
    /\ UNCHANGED <<volSize, host, cap, faults>>

\* GetDiskFormat: a blank device has no file system to resize.  The other
\* disks are taken to have one.
GetDiskFormat(c) ==
    LET fs == IF dev[device[c]] = Vol THEN Format ELSE "ext4" IN
    /\ At(c, "format") /\ dev[device[c]] # None
    /\ \/ fs = "" /\ Return(c, TRUE)
       \/ fs \in Resizable /\ Goto(c, "resizefs") /\ UNCHANGED <<size, list, device, tries>>
    /\ UNCHANGED <<volSize, host, cap, faults>>

\* ResizeFS: the file system takes up the whole device.
ResizeFS(c) ==
    /\ At(c, "resizefs") /\ dev[device[c]] # None
    /\ fsSize' = IF dev[device[c]] = Vol THEN devSize ELSE fsSize
    /\ Return(c, TRUE)
    /\ UNCHANGED <<volSize, dev, udev, devSize, cap, faults>>

Step(c) ==
    \/ GetVolume(c) \/ GetDisk(c) \/ Lsblk(c) \/ Scan(c)
    \/ Rescan(c) \/ GetDeviceSize(c) \/ GetDiskFormat(c) \/ ResizeFS(c)

\* What makes a handler return an error whatever it does.
Hopeless(c) ==
    \/ At(c, "disk") /\ ~Plugged
    \/ At(c, "lsblk") /\ \A n \in Name : dev[n] = None
    \/ At(c, "scan") /\ LET n == Min(list[c]) IN
                        ~Answered(n) \/ (list[c] = {n} /\ device[c] = None /\ ~Matches(n))
    \/ At(c, "format") /\ dev[device[c]] = None
    \/ At(c, "format") /\ dev[device[c]] = Vol /\ Format \notin Resizable \cup {""}
    \/ At(c, "resizefs") /\ dev[device[c]] = None

Refuse(c) ==
    /\ Hopeless(c)
    /\ Return(c, FALSE)
    /\ UNCHANGED <<volSize, host, cap, faults>>

\* An error of CloudTower or of a command, or a command's time limit; within
\* ResizeBlock it is tried again.
Fail(c) ==
    /\ pc[c] # "idle" /\ Fault
    /\ IF pc[c] \in {"rescan", "size"} THEN Again(c) ELSE Return(c, FALSE)
    /\ UNCHANGED <<volSize, host, cap>>

\* The end of the process: every handler is gone, and the client is told.
Crash ==
    /\ Fault
    /\ pc' = [c \in Call |-> "idle"]
    /\ size' = [c \in Call |-> 0]
    /\ list' = [c \in Call |-> {}]
    /\ device' = [c \in Call |-> None]
    /\ tries' = [c \in Call |-> 0]
    /\ open' = {}
    /\ UNCHANGED <<volSize, host, cap, told>>

-----------------------------------------------------------------------------
(* The kubelet, CloudTower and the kernel, external. *)

\* The kubelet calls one at a time while the volume is in use on its node and
\* the node has not reported its size.
NodeExpandVolume(c) ==
    /\ pc[c] = "idle" /\ open = {} /\ Plugged /\ told < volSize
    /\ pc' = [pc EXCEPT ![c] = "volume"]
    /\ open' = {c}
    /\ UNCHANGED <<size, list, device, tries, volSize, host, cap, told, faults>>

GiveUp(c) ==
    /\ c \in open /\ Fault
    /\ open' = open \ {c}
    /\ UNCHANGED <<handler, volSize, host, cap, told>>

\* The volume is made larger in CloudTower.
Grow ==
    /\ volSize' \in {s \in Sizes : s > volSize}
    /\ UNCHANGED <<handler, open, host, cap, told, faults>>

\* A disk is plugged in under a name that is free, also for udev: the removal
\* of its last bearer has been dealt with.  Names do not run out.
Plug(d, n) ==
    /\ dev[n] = None /\ udev[n] = None /\ \A m \in Name : dev[m] # d
    /\ d = Vol \/ Plugged \/ \E m \in Name \ {n} : dev[m] = None
    /\ dev' = [dev EXCEPT ![n] = d]
    /\ devSize' = IF d = Vol THEN volSize ELSE devSize
    /\ UNCHANGED <<handler, open, volSize, udev, fsSize, cap, told, faults>>

\* A disk goes; the volume's only when no client waits.
Unplug(n) ==
    /\ dev[n] # None
    /\ dev[n] = Vol => open = {}
    /\ Fault
    /\ dev' = [dev EXCEPT ![n] = None]
    /\ UNCHANGED <<handler, open, volSize, udev, devSize, fsSize, cap, told>>

\* udev catches up with the kernel.
Settle(n) ==
    /\ udev[n] # dev[n]
    /\ udev' = [udev EXCEPT ![n] = dev[n]]
    /\ UNCHANGED <<handler, open, volSize, dev, devSize, fsSize, cap, told, faults>>

Next ==
    \/ \E c \in Call : Step(c) \/ Refuse(c) \/ Fail(c) \/ NodeExpandVolume(c) \/ GiveUp(c)
    \/ \E a \in Ask : ControllerExpandVolume(a)
    \/ Crash
    \/ Grow
    \/ \E n \in Name : Unplug(n) \/ Settle(n) \/ \E d \in Disk : Plug(d, n)

Spec == Init /\ [][Next]_vars

\* Handlers move on, udev catches up, the volume is attached again, and the
\* kubelet retries.  The commands of ResizeBlock and ResizeFS have a time limit;
\* the lsblk and udevadm of getVolumeDevice have none, nor has GetDiskFormat: that
\* they end is an assumption.
Fairness ==
    /\ \A c \in Call : WF_vars(Step(c) \/ Refuse(c))
    /\ \A n \in Name : WF_vars(Settle(n))
    /\ WF_vars(\E n \in Name : Plug(Vol, n))
    /\ WF_vars(\E c \in Call : NodeExpandVolume(c))

FairSpec == Spec /\ Fairness

-----------------------------------------------------------------------------
(* Properties. *)

\* No other disk is taken for the volume's by its serial alone; one with more
\* than one line is passed over whatever its serial.
UniqueSerial == \A d \in Alike : Answer[d] = "one" => d = Vol

\* What a handler rescans and resizes for a client that waits is the disk of
\* its volume, although names, udev's database and the list of lsblk change
\* under the search - if its serial tells it apart.
RightDevice == UniqueSerial => \A c \in open : pc[c] \in Using => dev[device[c]] = Vol

\* No more is reported than there is: the controller's answer is backed by
\* CloudTower, the node's by the kernel's device and the file system, though
\* rescans are late and the volume grows during the call.  The node's is about
\* the device it found: the volume's, if its serial tells it apart.
ReportedIsThere ==
    /\ cap <= volSize
    /\ UniqueSerial => told <= devSize
    /\ UniqueSerial /\ Format \in Resizable => told <= fsSize

\* A volume that was made larger is, in the end, larger for the pod too:
\* retries get through once faults stop.
GrowthArrives == told < volSize ~> told = volSize
=============================================================================
