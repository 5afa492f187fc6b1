----------------------------- MODULE VolumePath -----------------------------
(***************************************************************************)
(* The controller service and one node's service together, along the whole *)
(* path of one volume: ControllerPublishVolume makes it a disk of the VM,  *)
(* NodeStageVolume and NodePublishVolume mount it, and back again.  The    *)
(* two services share no state but CloudTower's disks: the orchestrator,   *)
(* external, passes on what one of them answered before it calls the       *)
(* other.                                                                  *)
(*                                                                         *)
(* The parts are Attach (A) and NodeVolume (N), instantiated through the   *)
(* modules with their proofs so that their lemmas can be cited.            *)
(***************************************************************************)
EXTENDS Naturals, Sequences, FiniteSets

CONSTANTS
    \* of Attach
    Volume, Node, Replica, ACall, Mutex, HashKey, Sharing, NoCall, NoNode, NoAReq,
    \* of NodeVolume
    Target, Staging, ReadOnly, NCall, Block, MaxLayers, NoNReq,
    Vol,  \* the volume that is watched, not a shared one
    Here  \* the node that is watched

VARIABLES
    \* of Attach
    apc, areq, aopen, holder, task, disks, live, va, pv, suspect,
    \* of NodeVolume
    npc, nreq, nopen, exists, mnt, fs, written, data, known, drain

A == INSTANCE AttachProofs WITH
        Call <- ACall, NoReq <- NoAReq, pc <- apc, req <- areq, open <- aopen

\* The disk that the node's kernel sees is CloudTower's.
N == INSTANCE NodeVolumeProofs WITH
        Call <- NCall, NoReq <- NoNReq, pc <- npc, req <- nreq, open <- nopen,
        attached <- Here \in disks[Vol]

ASSUME VolumePathAssumption ==
    /\ Vol \in Volume \ Sharing
    /\ Here \in Node
    \* What Attach and NodeVolume assume.
    /\ HashKey \in [Node -> Mutex] /\ Sharing \subseteq Volume
    /\ NoCall \notin ACall /\ NoNode \notin Node /\ NoAReq \notin A!Request
    /\ Staging \notin Target /\ ReadOnly \subseteq Target
    /\ Block \in BOOLEAN /\ MaxLayers \in Nat \ {0} /\ NoNReq \notin N!Request

controller == <<apc, areq, aopen, holder, task, disks, live, va, pv, suspect>>
node       == <<npc, nreq, nopen, exists, mnt, fs, written, data, known, drain>>
vars       == <<controller, node>>

Init == A!Init /\ N!Init

-----------------------------------------------------------------------------
(* The orchestrator, external. *)

\* The kubelet has reported the volume as no longer in use.
NotInUse == \A p \in N!Path : known[p] = "no"

\* A volume is unpublished from this node only then.
StartUnpublish(c, v, n, r) ==
    /\ v = Vol /\ n = Here => NotInUse
    /\ A!StartUnpublish(c, v, n, r)

\* The kubelet stages and publishes a volume that was reported as attached.
ReportedAttached == va[Vol][Here] = "attached"

NodeStageVolume(c) ==
    /\ ~drain /\ ReportedAttached /\ known[Staging] # "yes" /\ nopen = {}
    /\ N!Start(c, "mount", Staging)

NodePublishVolume(c, t) ==
    /\ ~drain /\ ReportedAttached /\ known[Staging] = "yes" /\ nopen = {}
    /\ \/ known[t] = "maybe"
       \/ known[t] = "no" /\ t \notin exists /\ \A d \in NCall : npc[d] # "idle" => nreq[d].path # t
    /\ N!Start(c, "mount", t)

-----------------------------------------------------------------------------

ControllerStep ==
    \/ \E c \in ACall :
          \/ A!Handler(c)
          \/ A!TaskExecute(c) \/ A!TaskSucceed(c) \/ A!TaskFail(c)
          \/ A!GiveUp(c)
          \/ \E v \in Volume, r \in Replica :
                \/ A!StartDelete(c, v, r)
                \/ \E n \in Node : A!StartPublish(c, v, n, r) \/ StartUnpublish(c, v, n, r)
    \/ \E r \in Replica : A!Crash(r)

NodeStep ==
    \/ \E c \in NCall :
          \/ N!Step(c) \/ N!Fail(c)
          \/ NodeStageVolume(c) \/ N!NodeUnstageVolume(c)
          \/ \E t \in Target : NodePublishVolume(c, t) \/ N!NodeUnpublishVolume(c, t)
    \/ N!Crash \/ N!Reboot \/ N!Drain
    \/ \E t \in Target : N!Write(t)

Next ==
    \/ ControllerStep /\ UNCHANGED node
    \/ UNCHANGED controller /\ NodeStep

Spec == Init /\ [][Next]_vars

-----------------------------------------------------------------------------
(* Properties.  Like those of Attach they leave out a volume whose         *)
(* controller calls interfered (suspect).                                  *)

\* While anything is mounted on the node for the volume, it is a disk of the
\* node's VM and exists: neither ControllerUnpublishVolume nor DeleteVolume
\* takes it away from under the mount.
MountedIsDisk ==
    (\E p \in N!Path : mnt[p] # << >>) /\ Vol \notin suspect => Here \in disks[Vol] /\ Vol \in live

\* What NodeVolume assumes of the controller service, that the disk is there
\* while the node works and goes only when it is unmounted, is what Attach
\* does: seen from the node every step is one of NodeVolume.
NodeImplements == [][Vol \notin suspect' => [N!Next]_(N!vars)]_vars

\* From the moment NodeStageVolume or NodePublishVolume has found the device
\* until its last mount, the volume stays a disk of the VM, whatever late
\* controller calls for this or another node do: the name that getVolumeDevice
\* found still is the volume's when it is handed to mkfs -F and mount.
DeviceStays ==
    Vol \notin suspect =>
        \A c \in NCall : npc[c] \in N!Mounting \ {"device"} => Here \in disks[Vol]
=============================================================================
