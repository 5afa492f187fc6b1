-------------------------- MODULE VolumePathProofs --------------------------
(***************************************************************************)
(* The composition is proved from the proofs of its parts.  The controller *)
(* steps are Attach's, so its invariant holds throughout.  The link        *)
(* between the two, that the orchestrator has the volume as attached while *)
(* the kubelet uses it, turns every step into one of NodeVolume as long as *)
(* the volume is not suspect, and so NodeVolume's invariant holds as well. *)
(***************************************************************************)
EXTENDS VolumePath, TLAPS

(* The inductive invariant behind the properties of VolumePath. *)

\* While the kubelet uses the volume, the orchestrator has it as attached.
Link == NotInUse \/ ReportedAttached

IInv ==
    /\ A!IInv
    /\ Vol \notin suspect => Link /\ N!IInv

-----------------------------------------------------------------------------
\* Both invariants and the link hold initially.
LEMMA InitInv == Init => IInv
<1> SUFFICES ASSUME Init PROVE IInv
  OBVIOUS
<1>1. A!IInv
  BY A!InitInv, VolumePathAssumption DEF Init
<1>2. N!IInv
  BY N!InitInv, VolumePathAssumption DEF Init
<1>3. Link
  BY DEF Init, N!Init, Link, NotInUse
<1> QED BY <1>1, <1>2, <1>3 DEF IInv

\* Seen from the controller, every step is one of Attach.
LEMMA ControllerImplements == [Next]_vars => [A!Next]_(A!vars)
<1> SUFFICES ASSUME [Next]_vars PROVE [A!Next]_(A!vars)
  OBVIOUS
<1>1. CASE ControllerStep
  BY <1>1 DEF ControllerStep, StartUnpublish, A!Next
<1>2. CASE UNCHANGED controller
  BY <1>2 DEF controller, A!vars, A!driver, A!tower, A!co
<1> QED BY <1>1, <1>2 DEF Next, vars

\* So its invariant is kept, and a volume once suspect stays so.
LEMMA ControllerInv ==
    ASSUME A!IInv, [Next]_vars
    PROVE  A!IInv' /\ suspect \subseteq suspect'
<1>1. [A!Next]_(A!vars)
  BY ControllerImplements
<1>2. A!IInv'
  BY <1>1, A!NextInv, VolumePathAssumption
<1>3. suspect \subseteq suspect'
  BY <1>1, A!SuspectGrows, VolumePathAssumption
<1> QED BY <1>2, <1>3

\* What the orchestrator was told of a volume that is not suspect is true.
LEMMA AttachedHere ==
    ASSUME A!IInv, Vol \notin suspect, ReportedAttached
    PROVE  Here \in disks[Vol] /\ Vol \in live
<1>1. Here \in disks[Vol]
  BY VolumePathAssumption DEF A!IInv, A!AttachedIsAttached, ReportedAttached
<1>2. Vol \in live
  BY <1>1, VolumePathAssumption DEF A!IInv, A!DeleteSparesAttached
<1> QED BY <1>1, <1>2

\* No step of the controller breaks the link: a new unpublish waits until the
\* volume is not in use, and nothing else leaves "attached".
LEMMA ControllerLink ==
    ASSUME A!IInv, Link, ControllerStep, UNCHANGED node
    PROVE  Link'
<1>0. NotInUse' <=> NotInUse
  BY DEF node, NotInUse
<1>1. CASE NotInUse
  BY <1>0, <1>1 DEF Link
<1>2. CASE ~NotInUse
  <2>1. va[Vol][Here] = "attached"
    BY <1>2 DEF Link, ReportedAttached
  <2>2. ASSUME NEW c \in ACall, A!Handler(c) PROVE va'[Vol][Here] = "attached"
    BY <2>1, <2>2, A!AnswerKeepsAttached, VolumePathAssumption
  <2>3. ASSUME ~ \E c \in ACall : A!Handler(c) PROVE va'[Vol][Here] = "attached"
    <3>1. \/ \E c \in ACall :
                \/ A!TaskExecute(c) \/ A!TaskSucceed(c) \/ A!TaskFail(c) \/ A!GiveUp(c)
                \/ \E w \in Volume, r \in Replica :
                      \/ A!StartDelete(c, w, r)
                      \/ \E m \in Node :
                            \/ A!StartPublish(c, w, m, r)
                            \/ A!StartUnpublish(c, w, m, r) /\ ~(w = Vol /\ m = Here)
          \/ \E r \in Replica : A!Crash(r)
      BY <1>2, <2>3 DEF ControllerStep, StartUnpublish
    <3> QED BY <2>1, <3>1, A!OthersKeepAttached, VolumePathAssumption
  <2> QED BY <2>2, <2>3 DEF Link, ReportedAttached
<1> QED BY <1>1, <1>2

\* Nor does a step of the node: the kubelet begins to use the volume only when
\* it was reported as attached.
LEMMA NodeLink ==
    ASSUME N!IInv, Link, NodeStep, UNCHANGED controller
    PROVE  Link'
<1>0. va' = va
  BY DEF controller
<1>1. CASE ReportedAttached
  BY <1>0, <1>1 DEF Link, ReportedAttached
<1>2. CASE ~ReportedAttached
  <2>1. \/ \E c \in NCall :
              \/ N!Step(c) \/ N!Fail(c) \/ N!NodeUnstageVolume(c)
              \/ \E t \in Target : N!NodeUnpublishVolume(c, t)
        \/ N!Crash \/ N!Reboot \/ N!Drain \/ \E t \in Target : N!Write(t)
    BY <1>2 DEF NodeStep, NodeStageVolume, NodePublishVolume
  <2>2. ASSUME NEW p \in N!Path PROVE known'[p] = "no"
    <3>1. known[p] = "no"
      BY <1>2 DEF Link, NotInUse
    <3> QED BY <2>1, <3>1, N!UnmountedStays, VolumePathAssumption
  <2> QED BY <2>2 DEF Link, NotInUse, N!Path
<1> QED BY <1>1, <1>2

\* Seen from the node, a step of the controller attaches the disk, detaches it
\* when it is not in use, or changes nothing.
LEMMA ControllerStepSeen ==
    ASSUME A!IInv, A!IInv', Link', Vol \notin suspect', ControllerStep, UNCHANGED node
    PROVE  [N!Next]_(N!vars)
<1>0. UNCHANGED <<npc, nreq, nopen, exists, mnt, fs, written, data, known, drain>>
  BY DEF node
<1>1. CASE (Here \in disks[Vol])' = (Here \in disks[Vol])
  BY <1>0, <1>1 DEF N!vars, N!handler, N!host, N!disk, N!kubelet
<1>2. CASE Here \notin disks[Vol] /\ Here \in disks'[Vol]
  <2>1. N!Attach
    BY <1>0, <1>2 DEF N!Attach, N!handler, N!host, N!disk, N!kubelet
  <2> QED BY <2>1 DEF N!Next
<1>3. CASE Here \in disks[Vol] /\ Here \notin disks'[Vol]
  <2>1. ~ReportedAttached'
    BY <1>3, VolumePathAssumption DEF A!IInv, A!AttachedIsAttached, ReportedAttached
  <2>2. \A p \in N!Path : known[p] = "no"
    BY <1>0, <2>1 DEF Link, NotInUse
  <2>3. known[Staging] = "no" /\ N!Unused
    BY <2>2 DEF N!Path, N!Unused
  <2>4. N!Detach
    BY <1>0, <1>3, <2>3 DEF N!Detach, N!handler, N!host, N!disk, N!kubelet
  <2> QED BY <2>4 DEF N!Next
<1> QED BY <1>1, <1>2, <1>3

\* A step of the node is one of NodeVolume: what was reported as attached is.
LEMMA NodeStepSeen ==
    ASSUME A!IInv, Vol \notin suspect, NodeStep
    PROVE  N!Next
<1>1. ASSUME NEW c \in NCall, NodeStageVolume(c) PROVE N!NodeStageVolume(c)
  BY <1>1, AttachedHere DEF NodeStageVolume, N!NodeStageVolume
<1>2. ASSUME NEW c \in NCall, NEW t \in Target, NodePublishVolume(c, t)
      PROVE  N!NodePublishVolume(c, t)
  BY <1>2, AttachedHere DEF NodePublishVolume, N!NodePublishVolume
<1> QED BY <1>1, <1>2 DEF NodeStep, N!Next

\* Every step keeps the invariant, and is one of NodeVolume.
LEMMA NextInv ==
    IInv /\ [Next]_vars => IInv' /\ (Vol \notin suspect' => [N!Next]_(N!vars))
<1> SUFFICES ASSUME IInv, [Next]_vars
             PROVE  IInv' /\ (Vol \notin suspect' => [N!Next]_(N!vars))
  OBVIOUS
<1>1. A!IInv /\ A!IInv' /\ suspect \subseteq suspect'
  BY ControllerInv DEF IInv
<1>2. ASSUME Vol \notin suspect' PROVE Link' /\ [N!Next]_(N!vars) /\ N!IInv'
  <2>1. Vol \notin suspect /\ Link /\ N!IInv
    BY <1>1, <1>2 DEF IInv
  <2>2. Link' /\ [N!Next]_(N!vars)
    <3>1. CASE ControllerStep /\ UNCHANGED node
      BY <1>1, <1>2, <2>1, <3>1, ControllerLink, ControllerStepSeen
    <3>2. CASE UNCHANGED controller /\ NodeStep
      BY <1>1, <2>1, <3>2, NodeLink, NodeStepSeen
    <3>3. CASE UNCHANGED vars
      BY <2>1, <3>3 DEF vars, controller, node, Link, NotInUse, ReportedAttached,
         N!vars, N!handler, N!host, N!disk, N!kubelet
    <3> QED BY <3>1, <3>2, <3>3 DEF Next
  <2>3. N!IInv'
    BY <2>1, <2>2, N!NextInv, VolumePathAssumption
  <2> QED BY <2>2, <2>3
<1> QED BY <1>1, <1>2 DEF IInv

-----------------------------------------------------------------------------
(* The theorems. *)

\* The inductive invariant: Attach's, and for a volume that is not suspect the
\* link and NodeVolume's.
THEOREM Invariance == Spec => []IInv
  BY InitInv, NextInv, PTL DEF Spec

\* The controller service does not take the disk away from under a mount.
THEOREM MountsKeepTheirDisk == Spec => []MountedIsDisk
<1>1. IInv => MountedIsDisk
  <2> SUFFICES ASSUME IInv, NEW p \in N!Path, mnt[p] # << >>, Vol \notin suspect
               PROVE  Here \in disks[Vol] /\ Vol \in live
    BY DEF MountedIsDisk
  <2>1. known[p] # "no"
    BY DEF IInv, N!IInv, N!MountOK
  <2>2. ReportedAttached
    BY <2>1 DEF IInv, Link, NotInUse
  <2> QED BY <2>2, AttachedHere DEF IInv
<1> QED BY <1>1, Invariance, PTL

\* Nor from under a handler that is about to format or mount it.
THEOREM DevicesStay == Spec => []DeviceStays
<1>1. IInv => DeviceStays
  BY DEF IInv, N!IInv, N!CallOK, DeviceStays
<1> QED BY <1>1, Invariance, PTL

\* What NodeVolume assumes of its surroundings the controller service provides.
THEOREM NodeRefinement == Spec => NodeImplements
<1>1. IInv /\ [Next]_vars => [Vol \notin suspect' => [N!Next]_(N!vars)]_vars
  BY NextInv
<1> QED BY <1>1, Invariance, PTL DEF Spec, NodeImplements

\* On the whole path each service still keeps its promise: what happens to any
\* volume's disks and records is what Attachments allows, and what happens to
\* the watched volume on its node what Mounts allows, unless its controller
\* calls interfered.  So a disk taken from the node by the controller service
\* is always one that the node had given up.
THEOREM PromisesCompose ==
    Spec => A!ImplementsAttachments /\ [][Vol \notin suspect' => N!Maps]_vars
<1>1. Init => A!Promise!AttInit
  BY DEF Init, A!Init, A!Promise!AttInit
<1>2. IInv /\ IInv' /\ [Next]_vars => [A!Promise!AttNext]_(A!Promise!attVars)
  BY ControllerImplements, A!StepRefines, VolumePathAssumption DEF IInv
<1>3. IInv /\ IInv' /\ [Next]_vars => [Vol \notin suspect' => N!Maps]_vars
  <2> SUFFICES ASSUME IInv, IInv', [Next]_vars, Vol \notin suspect' PROVE N!Maps
    OBVIOUS
  <2>1. Vol \notin suspect
    BY ControllerInv DEF IInv
  <2>2. N!IInv /\ N!IInv' /\ [N!Next]_(N!vars)
    BY <2>1, NextInv DEF IInv
  <2> QED BY <2>2, N!StepRefines, VolumePathAssumption
<1> QED BY <1>1, <1>2, <1>3, Invariance, PTL DEF Spec, A!ImplementsAttachments, A!Promise!AttSpec
=============================================================================
