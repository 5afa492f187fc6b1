----------------------------- MODULE NodeVolume -----------------------------
(***************************************************************************)
(* One volume on one node: NodeStageVolume, NodePublishVolume,             *)
(* NodeUnpublishVolume and NodeUnstageVolume (pkg/driver/node.go) with     *)
(* createDir, FormatAndMount (pkg/utils/mount.go) and unmountVolume, as    *)
(* goroutines that look at the mount table and at the disk, and act on     *)
(* what they saw some steps later.                                         *)
(*                                                                         *)
(* External, modelled from how the code uses it: the kernel's mount table, *)
(* mount(8), mkfs and RemoveAll; and the kubelet, which serialises its     *)
(* calls, and waits for each (Spec) or gives up a late one (LateSpec).     *)
(***************************************************************************)
EXTENDS Naturals, Sequences

CONSTANTS
    Target,     \* target paths, one per pod that uses the volume
    Staging,    \* the staging path
    ReadOnly,   \* the targets that are published read-only
    Call,       \* slots for RPCs in flight
    Block,      \* a raw block volume (else one with a file system)
    MaxLayers,  \* bound: mounts stacked on one path
    NoReq

Path == Target \cup {Staging}

Request == [op : {"mount", "unmount"}, path : Path]

ASSUME NodeVolumeAssumption ==
    /\ Staging \notin Target
    /\ ReadOnly \subseteq Target
    /\ Block \in BOOLEAN
    /\ MaxLayers \in Nat \ {0}
    /\ NoReq \notin Request

VARIABLES
    pc,        \* where the handler of each call is
    req,       \* the request each call serves
    open,      \* the calls the kubelet waits for
    exists,    \* the paths that exist (as a directory, or a file for Block)
    mnt,       \* the mounts stacked on each path, the visible one last
    attached,  \* the volume is a disk of this VM
    fs,        \* the disk has a file system
    written,   \* history: a pod has stored data on the volume
    data,      \* that data is still there
    known,     \* kubelet: is the volume mounted on each path?
    drain      \* the node has no further use for the volume

handler == <<pc, req>>
host    == <<exists, mnt>>
disk    == <<fs, written, data>>
kubelet == <<open, known, drain>>
vars    == <<handler, host, attached, disk, kubelet>>

\* One mount: of the volume, or (a bind of a staging path on which nothing
\* is mounted) of a directory of the node's own disk.
Layer == [vol : BOOLEAN, ro : BOOLEAN]

Mounting   == {"device", "create", "check", "format", "mkfs", "mount", "bind", "remount"}
Unmounting == {"stat", "umount", "remove"}

TypeOK ==
    /\ pc \in [Call -> Mounting \cup Unmounting \cup {"idle"}]
    /\ req \in [Call -> Request \cup {NoReq}]
    /\ open \subseteq Call
    /\ exists \subseteq Path
    /\ mnt \in [Path -> Seq(Layer)]
    /\ attached \in BOOLEAN
    /\ fs \in BOOLEAN /\ written \in BOOLEAN /\ data \in BOOLEAN
    /\ known \in [Path -> {"no", "maybe", "yes", "closing"}]
    /\ drain \in BOOLEAN

Init ==
    /\ pc = [c \in Call |-> "idle"]
    /\ req = [c \in Call |-> NoReq]
    /\ open = {}
    /\ exists = {}
    /\ mnt = [p \in Path |-> << >>]
    /\ attached = FALSE
    /\ fs = FALSE /\ written = FALSE /\ data = FALSE
    /\ known = [p \in Path |-> "no"]
    /\ drain = FALSE

-----------------------------------------------------------------------------
(* The host, external. *)

Top(p) == mnt[p][Len(mnt[p])]

\* A path whose visible mount is the volume's.
Shows(p) == mnt[p] # << >> /\ Top(p).vol

\* IsLikelyNotMountPoint compares the device numbers of the path and of its
\* parent: a bind of the node's own file system goes unnoticed.
IsMountPoint(p) == Shows(p)

\* GetMountPoint takes the first entry of /proc/mounts for the path: it is
\* there and its device is the volume's.
GetMountPoint(p) == mnt[p] # << >> /\ mnt[p][1].vol

Push(p, layer) ==
    /\ Len(mnt[p]) < MaxLayers
    /\ mnt' = [mnt EXCEPT ![p] = Append(@, layer)]

Pop(p) ==
    /\ mnt[p] # << >>
    /\ mnt' = [mnt EXCEPT ![p] = SubSeq(@, 1, Len(@) - 1)]

-----------------------------------------------------------------------------
(* The handlers.  Each may fail at any step (Fail); the actions below are  *)
(* what happens when the step succeeds.                                    *)

At(c, label) == pc[c] = label

Goto(c, label) == pc' = [pc EXCEPT ![c] = label] /\ UNCHANGED <<req, kubelet>>

\* The handler returns; the kubelet, if it still waits, learns of a success,
\* unless the plugin dies before its answer is out.
Return(c, ok) ==
    /\ pc' = [pc EXCEPT ![c] = "idle"]
    /\ req' = [req EXCEPT ![c] = NoReq]
    /\ open' = open \ {c}
    /\ \/ UNCHANGED known
       \/ /\ ok /\ c \in open
          /\ known' = [known EXCEPT ![req[c].path] =
                          IF req[c].op = "mount" THEN "yes" ELSE "no"]
    /\ UNCHANGED drain

\* An error is returned: everything done so far stays as it is.
Fail(c) ==
    /\ pc[c] # "idle"
    /\ Return(c, FALSE)
    /\ UNCHANGED <<host, attached, disk>>

\* Mutant: the client is answered once the device is found; mounting goes on.
GetVolumeDeviceAnswers(c) ==
    /\ At(c, "device") /\ attached
    /\ pc' = [pc EXCEPT ![c] = "create"]
    /\ open' = open \ {c}
    /\ known' = [known EXCEPT ![req[c].path] = "yes"]
    /\ UNCHANGED <<req, drain, host, attached, disk>>

\* getVolumeDevice: the disk of this VM, found by its serial.
GetVolumeDevice(c) ==
    /\ At(c, "device") /\ attached
    /\ Goto(c, "create")
    /\ UNCHANGED <<host, attached, disk>>

\* Mutant: a target that exists is taken for one that is mounted.
CreateDirDone(c) ==
    LET p == req[c].path IN
    /\ At(c, "create")
    /\ exists' = exists \cup {p}
    /\ IF p \in exists /\ p # Staging THEN Return(c, TRUE) ELSE Goto(c, "check")
    /\ UNCHANGED <<mnt, attached, disk>>

\* createDir, or createFile for a block volume.
CreateDir(c) ==
    /\ At(c, "create")
    /\ exists' = exists \cup {req[c].path}
    /\ Goto(c, "check")
    /\ UNCHANGED <<mnt, attached, disk>>

\* Mutant: the path is mounted without looking.
CheckNothing(c) ==
    /\ At(c, "check") /\ req[c].path \in exists
    /\ Goto(c, IF ~Block /\ req[c].path = Staging THEN "format" ELSE "bind")
    /\ UNCHANGED <<host, attached, disk>>

\* The mount point checks of mountMountVolume, bindMountVolume and
\* mountBlockVolume.  A path on which the volume is mounted already is done;
\* one that shows the volume over another mount is a conflict (Fail).  The
\* dereference of a mount entry that is missing kills the process (Crash).
CheckMountPoint(c) ==
    LET p == req[c].path  staging == p = Staging IN
    /\ At(c, "check") /\ p \in exists
    /\ Block \/ staging \/ Staging \in exists
    /\ \/ /\ IsMountPoint(p)
          /\ Block \/ GetMountPoint(p)
          /\ Block \/ staging \/ GetMountPoint(Staging)
          /\ Return(c, TRUE)
       \/ /\ ~IsMountPoint(p)
          /\ Goto(c, IF ~Block /\ staging THEN "format" ELSE "bind")
    /\ UNCHANGED <<host, attached, disk>>

\* formatWithOption reads the disk's format...
GetDiskFormat(c) ==
    /\ At(c, "format") /\ attached
    /\ Goto(c, IF fs THEN "mount" ELSE "mkfs")
    /\ UNCHANGED <<host, attached, disk>>

\* ... and formats one that was blank.  mkfs.ext4 -F stops at nothing but a
\* file system in use.
Mkfs(c) ==
    /\ At(c, "mkfs") /\ attached
    /\ \A p \in Path : \A i \in 1 .. Len(mnt[p]) : ~mnt[p][i].vol
    /\ fs' = TRUE /\ data' = FALSE
    /\ Goto(c, "mount")
    /\ UNCHANGED <<host, attached, written>>

\* Mount of the device on the staging path.  The kernel refuses the same file
\* system twice on the same mount point.
Mount(c) ==
    LET p == req[c].path IN
    /\ At(c, "mount") /\ p \in exists
    /\ attached /\ fs /\ ~Shows(p)
    /\ Push(p, [vol |-> TRUE, ro |-> FALSE])
    /\ Return(c, TRUE)
    /\ UNCHANGED <<exists, attached, disk>>

\* Mount with "bind": mount(8) is run twice.  First the bind, of what the
\* staging path shows, or of the device node of a block volume...
Bind(c) ==
    LET p == req[c].path IN
    /\ At(c, "bind") /\ p \in exists
    /\ IF Block THEN attached ELSE Staging \in exists
    /\ Push(p, [vol |-> Block \/ Shows(Staging), ro |-> FALSE])
    /\ Goto(c, "remount")
    /\ UNCHANGED <<exists, attached, disk>>

\* ... and then the options.
Remount(c) ==
    LET p == req[c].path IN
    /\ At(c, "remount") /\ mnt[p] # << >>
    /\ mnt' = [mnt EXCEPT ![p][Len(mnt[p])].ro = p \in ReadOnly]
    /\ Return(c, TRUE)
    /\ UNCHANGED <<exists, attached, disk>>

\* Mutant: a path that is not there is an error.
StatStrict(c) ==
    LET p == req[c].path IN
    /\ At(c, "stat")
    /\ IF p \notin exists THEN Return(c, FALSE)
       ELSE Goto(c, IF IsMountPoint(p) THEN "umount" ELSE "remove")
    /\ UNCHANGED <<host, attached, disk>>

\* unmountVolume: a path that is not there has nothing mounted on it.
Stat(c) ==
    LET p == req[c].path IN
    /\ At(c, "stat")
    /\ IF p \notin exists THEN Return(c, TRUE)
       ELSE Goto(c, IF IsMountPoint(p) THEN "umount" ELSE "remove")
    /\ UNCHANGED <<host, attached, disk>>

\* Mutant: an unmount that fails counts as done.
UnmountLost(c) ==
    /\ At(c, "umount")
    /\ \/ Pop(req[c].path) /\ Goto(c, "remove")
       \/ UNCHANGED mnt /\ Return(c, TRUE)
    /\ UNCHANGED <<exists, attached, disk>>

\* Mutant: the staging path is unmounted with the first target.
UnmountStaging(c) ==
    /\ At(c, "umount")
    /\ mnt' = [p \in Path |-> IF p \in {req[c].path, Staging} THEN << >> ELSE mnt[p]]
    /\ Goto(c, "remove")
    /\ UNCHANGED <<exists, attached, disk>>

\* One unmount, which uncovers what lies below.
Unmount(c) ==
    /\ At(c, "umount")
    /\ Pop(req[c].path)
    /\ Goto(c, "remove")
    /\ UNCHANGED <<exists, attached, disk>>

\* os.RemoveAll empties the directory, whatever is mounted there, and then
\* fails on a path that is a mount point.
RemoveAll(c) ==
    LET p == req[c].path IN
    /\ At(c, "remove")
    /\ IF mnt[p] = << >>
       THEN exists' = exists \ {p} /\ Return(c, TRUE)
       ELSE Return(c, FALSE) /\ UNCHANGED exists
    /\ data' = IF Shows(p) /\ ~Top(p).ro /\ ~Block THEN FALSE ELSE data
    /\ UNCHANGED <<mnt, attached, fs, written>>

Step(c) ==
    \/ GetVolumeDevice(c) \/ CreateDir(c) \/ CheckMountPoint(c)
    \/ GetDiskFormat(c) \/ Mkfs(c) \/ Mount(c) \/ Bind(c) \/ Remount(c)
    \/ Stat(c) \/ Unmount(c) \/ RemoveAll(c)

\* The plugin dies and is restarted: its handlers are gone.
Crash ==
    /\ \E c \in Call : pc[c] # "idle"
    /\ pc' = [c \in Call |-> "idle"]
    /\ req' = [c \in Call |-> NoReq]
    /\ open' = {}
    /\ UNCHANGED <<host, attached, disk, known, drain>>

-----------------------------------------------------------------------------
(* The kubelet and the node, external. *)

Start(c, op, p) ==
    /\ pc[c] = "idle"
    /\ pc' = [pc EXCEPT ![c] = IF op = "mount" THEN "device" ELSE "stat"]
    /\ req' = [req EXCEPT ![c] = [op |-> op, path |-> p]]
    /\ open' = open \cup {c}
    /\ known' = [known EXCEPT ![p] = IF op = "mount" THEN "maybe" ELSE "closing"]
    /\ UNCHANGED <<host, attached, disk, drain>>

Unused == \A t \in Target : known[t] = "no"

NodeStageVolume(c) ==
    /\ ~drain /\ attached /\ known[Staging] # "yes" /\ open = {}
    /\ Start(c, "mount", Staging)

\* A target path belongs to one pod: it is not published again once its
\* unpublishing has begun, and a new pod has a path of its own.
NodePublishVolume(c, t) ==
    /\ ~drain /\ attached /\ known[Staging] = "yes" /\ open = {}
    /\ \/ known[t] = "maybe"
       \/ known[t] = "no" /\ t \notin exists /\ \A d \in Call : pc[d] # "idle" => req[d].path # t
    /\ Start(c, "mount", t)

\* Unmounts for different pods may run side by side.
NodeUnpublishVolume(c, t) ==
    /\ known[t] # "no"
    /\ \A d \in open : req[d].op = "unmount" /\ req[d].path \in Target \ {t}
    /\ Start(c, "unmount", t)

NodeUnstageVolume(c) ==
    /\ known[Staging] # "no" /\ Unused /\ open = {}
    /\ Start(c, "unmount", Staging)

\* The kubelet's deadline passes; the handler runs on.
GiveUp(c) ==
    /\ c \in open
    /\ open' = open \ {c}
    /\ UNCHANGED <<handler, host, attached, disk, known, drain>>

\* The controller service attaches the volume, and detaches it once the
\* kubelet has no use for it.
Attach ==
    /\ ~attached /\ attached' = TRUE
    /\ UNCHANGED <<handler, host, disk, kubelet>>

Detach ==
    /\ attached /\ known[Staging] = "no" /\ Unused
    /\ attached' = FALSE
    /\ UNCHANGED <<handler, host, disk, kubelet>>

\* The last pod is deleted: from now on the kubelet only unmounts.
Drain ==
    /\ ~drain /\ drain' = TRUE
    /\ UNCHANGED <<handler, host, attached, disk, open, known>>

\* A pod stores data on the volume.
Write(t) ==
    /\ known[t] = "yes" /\ Shows(t) /\ ~Top(t).ro /\ attached
    /\ written' = TRUE /\ data' = TRUE
    /\ UNCHANGED <<handler, host, attached, fs, kubelet>>

\* The node restarts: mounts are gone, directories are not.
Reboot ==
    /\ pc' = [c \in Call |-> "idle"]
    /\ req' = [c \in Call |-> NoReq]
    /\ open' = {}
    /\ mnt' = [p \in Path |-> << >>]
    /\ known' = [p \in Path |-> IF known[p] = "yes" THEN "maybe" ELSE known[p]]
    /\ UNCHANGED <<exists, attached, disk, drain>>

Next ==
    \/ \E c \in Call :
          \/ Step(c) \/ Fail(c)
          \/ NodeStageVolume(c) \/ NodeUnstageVolume(c)
          \/ \E t \in Target : NodePublishVolume(c, t) \/ NodeUnpublishVolume(c, t)
    \/ Crash \/ Reboot \/ Attach \/ Detach \/ Drain
    \/ \E t \in Target : Write(t)

\* The kubelet waits for its calls.
Spec == Init /\ [][Next]_vars

\* The kubelet gives up a call that takes longer than its deadline.
LateSpec == Init /\ [][Next \/ \E c \in Call : GiveUp(c)]_vars

\* What a step needs does not fail for ever, answers are not lost for ever,
\* and the kubelet retries until it has one: then each step that is possible
\* again and again is taken.
Fairness ==
    /\ \A c \in Call :
          /\ WF_vars(Step(c) \/ Fail(c))
          /\ SF_vars(Stat(c)) /\ SF_vars(Unmount(c)) /\ SF_vars(Step(c) /\ known' # known)
    /\ SF_vars(\E c \in Call : NodeUnstageVolume(c))
    /\ \A t \in Target : SF_vars(\E c \in Call : NodeUnpublishVolume(c, t))
    /\ SF_vars(Detach)

FairSpec == Spec /\ Fairness

-----------------------------------------------------------------------------
(* Properties. *)

\* A pod whose volume was published finds the volume at its target path, not
\* a directory of the node's disk: after reboots (directories stay, mounts
\* do not), crashes of the plugin and mounts that were only half done.
PublishedIsVolume == \A t \in Target : known[t] = "yes" => Shows(t)

\* A path reported as unmounted has nothing mounted on it: the unmount takes
\* one mount off, so this needs that retries never stack a second one, and
\* it is what makes detaching the disk safe.
UnmountedIsClean == \A p \in Path : known[p] = "no" => mnt[p] = << >>

\* What a pod has stored stays on the volume: a disk that holds a file system
\* is not formatted, and RemoveAll never runs into a mounted volume.
DataKept == written => data

\* The refinement mapping: the paths whose visible mount is the volume's, and
\* the data that is there.
Shown == {p \in Path : Shows(p)}

Stored == written /\ data

Promise == INSTANCE Mounts WITH
              status <- known, shown <- Shown, held <- attached, stored <- Stored

\* With its checks and later steps, its half-done mounts, crashes and retries
\* the node service does what Mounts promises: nothing but an unpublish (or a
\* reboot) takes a volume away from a pod, and nothing is left when it is done.
ImplementsMounts == Promise!MountSpec

\* A target published read-only is mounted read-only.
ReadOnlyIsKept ==
    \A t \in ReadOnly : known[t] = "yes" /\ Shows(t) => Top(t).ro

\* A volume no longer needed is unmounted everywhere and detached, whatever
\* state crashes, reboots and errors have left the node in.
DrainEnds == drain ~> ~attached
=============================================================================
