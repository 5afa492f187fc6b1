------------------------------- MODULE Attach -------------------------------
(***************************************************************************)
(* The controller service's volume hot-plug path (pkg/driver/controller.go)*)
(* ControllerPublishVolume, ControllerUnpublishVolume and DeleteVolume,    *)
(* the hashed keyMutex they share and waitTask, run by several replicas of *)
(* the driver against one CloudTower.  Every RPC is a small state machine  *)
(* (a goroutine of the gRPC server).                                       *)
(*                                                                         *)
(* External, modelled from how the code uses it: CloudTower (its volumes,  *)
(* VM disks and asynchronous tasks) and the container orchestrator (CO:    *)
(* the attacher and provisioner sidecars, whose calls carry a deadline and *)
(* are retried).  The handlers ignore their context, so a call whose       *)
(* client gave up runs on.                                                 *)
(***************************************************************************)
EXTENDS Naturals, FiniteSets

CONSTANTS
    Volume,   \* volume ids
    Node,     \* node names, which are the VM names
    Replica,  \* processes running the controller service
    Call,     \* slots for RPCs in flight: at most this many run at once
    Mutex,    \* the mutexes of one replica's keyMutex
    HashKey,  \* the mutex each node name hashes to
    Sharing,  \* the volumes created with Sharing (a multi-node access mode)
    NoCall, NoNode, NoReq

ASSUME AttachAssumption ==
    /\ HashKey \in [Node -> Mutex]
    /\ Sharing \subseteq Volume
    /\ NoCall \notin Call
    /\ NoNode \notin Node

VARIABLES
    pc,      \* where the handler of each call is
    req,     \* the request each call serves
    open,    \* the calls whose client still waits for the answer
    holder,  \* the call that holds each mutex of each replica
    task,    \* the state of the CloudTower task each call submitted
    disks,   \* CloudTower: the VMs each volume is a disk of (VMVolume.VMDisks)
    live,    \* CloudTower: the volumes that exist
    va,      \* CO: what it believes of each volume on each node
    pv,      \* CO: what it believes of each volume
    suspect  \* history: volumes whose calls interfered (see Look)

driver == <<pc, req, holder>>
tower  == <<task, disks, live>>
co     == <<open, va, pv>>
vars   == <<driver, tower, co, suspect>>

Request == [op : {"publish", "unpublish", "delete"}, vol : Volume,
            node : Node \cup {NoNode}, rep : Replica]

\* The handler's code position.  "orphan": the handler has returned, the task
\* it submitted is still to be run by CloudTower.
Running   == {"check", "lock", "read", "submit", "wait"}
Critical  == {"read", "submit", "wait"}
Submitted == {"PENDING", "EXECUTING"}
Ended     == {"SUCCESSED", "FAILED"}

ASSUME NoReqAssumption == NoReq \notin Request

TypeOK ==
    /\ pc \in [Call -> Running \cup {"idle", "orphan"}]
    /\ req \in [Call -> Request \cup {NoReq}]
    /\ open \subseteq Call
    /\ holder \in [Replica -> [Mutex -> Call \cup {NoCall}]]
    /\ task \in [Call -> Submitted \cup Ended \cup {"none"}]
    /\ disks \in [Volume -> SUBSET Node]
    /\ live \subseteq Volume
    /\ va \in [Volume -> [Node -> {"detached", "attaching", "attached", "detaching"}]]
    /\ pv \in [Volume -> {"bound", "deleting", "gone"}]
    /\ suspect \subseteq Volume

Init ==
    /\ pc = [c \in Call |-> "idle"]
    /\ req = [c \in Call |-> NoReq]
    /\ open = {}
    /\ holder = [r \in Replica |-> [m \in Mutex |-> NoCall]]
    /\ task = [c \in Call |-> "none"]
    /\ disks = [v \in Volume |-> {}]
    /\ live = Volume
    /\ va = [v \in Volume |-> [n \in Node |-> "detached"]]
    /\ pv = [v \in Volume |-> "bound"]
    /\ suspect = {}

-----------------------------------------------------------------------------
(* CloudTower, external. *)

Op(c, op, v) == pc[c] # "idle" /\ req[c].op = op /\ req[c].vol = v

\* VMVolume.Mounting: attached, or being attached.
Mounting(v) ==
    \/ disks[v] # {}
    \/ \E c \in Call : Op(c, "publish", v) /\ task[c] = "EXECUTING"

\* CloudTower carries out what call c asked for, if it can.
Apply(c) ==
    LET v == req[c].vol  n == req[c].node IN
    \/ /\ req[c].op = "publish"
       /\ v \in live /\ n \notin disks[v]
       /\ v \in Sharing \/ disks[v] = {}
       /\ disks' = [disks EXCEPT ![v] = @ \cup {n}]
       /\ UNCHANGED live
    \/ /\ req[c].op = "unpublish" /\ n \in disks[v]
       /\ disks' = [disks EXCEPT ![v] = @ \ {n}]
       /\ UNCHANGED live
    \/ /\ req[c].op = "delete" /\ v \in live
       /\ live' = live \ {v}
       /\ UNCHANGED disks

TaskExecute(c) ==
    /\ task[c] = "PENDING"
    /\ task' = [task EXCEPT ![c] = "EXECUTING"]
    /\ UNCHANGED <<driver, disks, live, co, suspect>>

\* A task ends.  An orphan's slot is free again.
TaskEnd(c, status) ==
    /\ task[c] = "EXECUTING"
    /\ task' = [task EXCEPT ![c] = IF pc[c] = "orphan" THEN "none" ELSE status]
    /\ pc' = [pc EXCEPT ![c] = IF @ = "orphan" THEN "idle" ELSE @]
    /\ req' = [req EXCEPT ![c] = IF pc[c] = "orphan" THEN NoReq ELSE @]
    /\ UNCHANGED <<holder, co, suspect>>

TaskSucceed(c) == TaskEnd(c, "SUCCESSED") /\ Apply(c)

TaskFail(c) == TaskEnd(c, "FAILED") /\ UNCHANGED <<disks, live>>

-----------------------------------------------------------------------------
(* The handlers. *)

\* Mutant: the unlock is forgotten.
UnlockForgotten(c) == UNCHANGED holder

\* The deferred UnlockKey.
Unlock(c) ==
    holder' = [r \in Replica |-> [m \in Mutex |->
                  IF holder[r][m] = c THEN NoCall ELSE holder[r][m]]]

\* The client, if it still waits, records a success.
Answer(c, ok) ==
    LET v == req[c].vol  n == req[c].node  told == ok /\ c \in open IN
    /\ open' = open \ {c}
    /\ va' = IF told /\ req[c].op # "delete"
             THEN [va EXCEPT ![v][n] = IF req[c].op = "publish" THEN "attached"
                                                               ELSE "detached"]
             ELSE va
    /\ pv' = IF told /\ req[c].op = "delete" THEN [pv EXCEPT ![v] = "gone"] ELSE pv

\* The handler of call c returns: `ok' says whether the RPC succeeds, `status'
\* in which state this leaves the task it submitted.
Return(c, ok, status) ==
    LET orphan == status \in Submitted IN
    /\ pc' = [pc EXCEPT ![c] = IF orphan THEN "orphan" ELSE "idle"]
    /\ req' = [req EXCEPT ![c] = IF orphan THEN @ ELSE NoReq]
    /\ task' = [task EXCEPT ![c] = IF orphan THEN status ELSE "none"]
    /\ Unlock(c)
    /\ Answer(c, ok)

Goto(c, label) ==
    /\ pc' = [pc EXCEPT ![c] = label]
    /\ UNCHANGED <<req, co>>

\* ControllerPublishVolume up to the lock: the request's fields, NodeMap.Get
\* and canPublishToNode, each of which may fail.
Check(c) ==
    /\ pc[c] = "check"
    /\ \/ Goto(c, "lock") /\ UNCHANGED <<holder, task>>
       \/ Return(c, FALSE, "none")
    /\ UNCHANGED <<disks, live, suspect>>

\* Mutant: the mutex is taken whoever holds it.
LockKeyRegardless(c) ==
    /\ pc[c] = "lock"
    /\ holder' = [holder EXCEPT ![req[c].rep][HashKey[req[c].node]] = c]
    /\ Goto(c, "read")
    /\ UNCHANGED <<tower, suspect>>

\* keyMutex.LockKey(nodeName).
LockKey(c) ==
    LET r == req[c].rep  m == HashKey[req[c].node] IN
    /\ pc[c] = "lock"
    /\ holder[r][m] = NoCall
    /\ holder' = [holder EXCEPT ![r][m] = c]
    /\ Goto(c, "read")
    /\ UNCHANGED <<tower, suspect>>

-----------------------------------------------------------------------------
(* What the handlers do not guard against: each looks at CloudTower once   *)
(* and acts, or answers, later.                                            *)

\* Call d has looked at CloudTower and has not finished.
Working(d) == pc[d] \in {"submit", "wait", "orphan"}

\* The keyMutex is to keep the work of c and d apart.
SameMutex(c, d) ==
    /\ pc[d] # "orphan" /\ req[c].rep = req[d].rep
    /\ "delete" \notin {req[c].op, req[d].op}

\* What call c sees of its volume now may be undone by what call d, which
\* looked earlier, is still to do: attach what c finds detached or deletes,
\* detach what c finds attached, delete what c attaches; or d's task makes
\* the volume Mounting on c's node and may still fail.
Clashes(c, d) ==
    /\ Working(d) /\ req[d].vol = req[c].vol
    /\ \/ req[c].op = "delete" /\ req[d].op = "publish"
       \/ req[c].op = "publish" /\ req[d].op = "delete"
       \/ /\ req[d].node = req[c].node /\ ~SameMutex(c, d)
          /\ \/ req[c].op = "unpublish" /\ req[d].op = "publish"
             \/ req[c].op = "publish" /\ req[d].op = "unpublish"
             \/ req[c].op = "publish" /\ req[d].op = "publish" /\ task[d] = "EXECUTING"

\* The handler got to work only after the CO, which has given the call up,
\* was told the opposite of what the call asks for.
Outdated(c) ==
    \/ req[c].op = "publish" /\ va[req[c].vol][req[c].node] = "detached"
    \/ req[c].op = "unpublish" /\ va[req[c].vol][req[c].node] = "attached"

\* Call c acts on what it sees now.  The CO's record of the volume is no
\* longer vouched for when that may not last.
Look(c) ==
    suspect' = IF Outdated(c) \/ \E d \in Call : Clashes(c, d)
               THEN suspect \cup {req[c].vol} ELSE suspect

-----------------------------------------------------------------------------

\* Mutant: a VM that is not found is no error.
PublishReadLax(c) ==
    LET v == req[c].vol IN
    /\ pc[c] = "read" /\ req[c].op = "publish"
    /\ \/ Return(c, TRUE, "none")
       \/ v \in live /\ ~Mounting(v) /\ Goto(c, "submit") /\ UNCHANGED <<holder, task>>
    /\ Look(c)
    /\ UNCHANGED <<disks, live>>

\* publishVolumeToVm up to AddVMDisk.  A volume that is a disk of any VM, or
\* is being made one, counts as published.
PublishRead(c) ==
    LET v == req[c].vol IN
    /\ pc[c] = "read" /\ req[c].op = "publish"
    /\ \/ Return(c, FALSE, "none") /\ UNCHANGED suspect  \* API error, or no such volume
       \/ v \in live /\ Mounting(v) /\ Look(c) /\ Return(c, TRUE, "none")
       \/ v \in live /\ ~Mounting(v) /\ Look(c) /\ Goto(c, "submit") /\ UNCHANGED <<holder, task>>
    /\ UNCHANGED <<disks, live>>

\* Mutant: a disk that is not there is seen before the mutex is taken.
UnpublishReadEarly(c) ==
    LET there == req[c].node \in disks[req[c].vol] IN
    /\ pc[c] \in {"lock", "read"} /\ req[c].op = "unpublish"
    /\ \/ Return(c, FALSE, "none") /\ UNCHANGED suspect
       \/ ~there /\ Look(c) /\ Return(c, TRUE, "none")
       \/ there /\ pc[c] = "read" /\ Look(c) /\ Goto(c, "submit") /\ UNCHANGED <<holder, task>>
    /\ UNCHANGED <<disks, live>>

\* unpublishVolumeFromVm up to RemoveVMDisk.
UnpublishRead(c) ==
    LET there == req[c].node \in disks[req[c].vol] IN
    /\ pc[c] = "read" /\ req[c].op = "unpublish"
    /\ \/ Return(c, FALSE, "none") /\ UNCHANGED suspect
       \/ ~there /\ Look(c) /\ Return(c, TRUE, "none")
       \/ there /\ Look(c) /\ Goto(c, "submit") /\ UNCHANGED <<holder, task>>
    /\ UNCHANGED <<disks, live>>

\* Mutant: Mounting is not looked at.
DeleteReadInUse(c) ==
    /\ pc[c] = "read" /\ req[c].op = "delete"
    /\ \/ Return(c, FALSE, "none") /\ UNCHANGED suspect
       \/ req[c].vol \in live /\ Look(c) /\ Goto(c, "submit") /\ UNCHANGED <<holder, task>>
    /\ UNCHANGED <<disks, live>>

\* DeleteVolume up to DeleteVMVolumeFromVM: getVolume and the Mounting check.
\* No mutex is taken.
DeleteRead(c) ==
    LET v == req[c].vol IN
    /\ pc[c] = "read" /\ req[c].op = "delete"
    /\ \/ Return(c, FALSE, "none") /\ UNCHANGED suspect  \* API error, no such volume, in use
       \/ v \in live /\ ~Mounting(v) /\ Look(c) /\ Goto(c, "submit") /\ UNCHANGED <<holder, task>>
    /\ UNCHANGED <<disks, live>>

\* AddVMDisk, RemoveVMDisk or DeleteVMVolumeFromVM.  CloudTower refuses; takes
\* the request but its answer is lost; takes it and answers with a task id; or
\* does it on the spot and answers without a task id, for which waitTask
\* returns at once.
Submit(c) ==
    /\ pc[c] = "submit"
    /\ \/ Return(c, FALSE, "none") /\ UNCHANGED <<disks, live>>
       \/ Return(c, FALSE, "PENDING") /\ UNCHANGED <<disks, live>>
       \/ /\ Goto(c, "wait")
          /\ task' = [task EXCEPT ![c] = "PENDING"]
          /\ UNCHANGED <<holder, disks, live>>
       \/ Return(c, TRUE, "none") /\ Apply(c)
    /\ UNCHANGED suspect

\* Mutant: a task that has ended is taken for one that has succeeded.
WaitTaskEnded(c) ==
    /\ pc[c] = "wait"
    /\ \/ task[c] \in Ended /\ Return(c, TRUE, task[c])
       \/ Return(c, FALSE, task[c])
    /\ UNCHANGED <<disks, live, suspect>>

\* Mutant: the volume is removed with its disk.
WaitTaskRemove(c) ==
    /\ pc[c] = "wait"
    /\ \/ /\ task[c] = "SUCCESSED" /\ Return(c, TRUE, task[c])
          /\ live' = IF req[c].op = "unpublish" THEN live \ {req[c].vol} ELSE live
       \/ Return(c, FALSE, task[c]) /\ UNCHANGED live
    /\ UNCHANGED <<disks, suspect>>

\* waitTask: polls until the task has ended; gives up on an API error, and
\* after a minute (task unknown) or ten (task running).
WaitTask(c) ==
    /\ pc[c] = "wait"
    /\ \/ task[c] = "SUCCESSED" /\ Return(c, TRUE, task[c])
       \/ Return(c, FALSE, task[c])
    /\ UNCHANGED <<disks, live, suspect>>

Handler(c) ==
    \/ Check(c) \/ LockKey(c)
    \/ PublishRead(c) \/ UnpublishRead(c) \/ DeleteRead(c)
    \/ Submit(c) \/ WaitTask(c)

\* The process of replica r dies: its goroutines and its mutexes are gone,
\* the tasks they submitted are not.
Crash(r) ==
    LET dead == {c \in Call : pc[c] \in Running /\ req[c].rep = r}
        left == {c \in dead : task[c] \in Submitted} IN
    /\ dead # {}
    /\ pc' = [c \in Call |-> IF c \in left THEN "orphan"
                             ELSE IF c \in dead THEN "idle" ELSE pc[c]]
    /\ req' = [c \in Call |-> IF c \in dead \ left THEN NoReq ELSE req[c]]
    /\ task' = [c \in Call |-> IF c \in dead \ left THEN "none" ELSE task[c]]
    /\ holder' = [holder EXCEPT ![r] = [m \in Mutex |-> NoCall]]
    /\ open' = open \ dead
    /\ UNCHANGED <<disks, live, va, pv, suspect>>

-----------------------------------------------------------------------------
(* The container orchestrator, external: what it may ask, and when.        *)

Start(c, op, v, n, r, label) ==
    /\ pc[c] = "idle"
    /\ pc' = [pc EXCEPT ![c] = label]
    /\ req' = [req EXCEPT ![c] = [op |-> op, vol |-> v, node |-> n, rep |-> r]]
    /\ open' = open \cup {c}
    /\ UNCHANGED <<holder, tower, suspect>>

\* One call at a time for a volume on a node, one delete for a volume.
Busy(v, n) == \E d \in open : req[d].vol = v /\ req[d].node = n

\* A volume that is not shared is published to one node at a time.
StartPublish(c, v, n, r) ==
    /\ pv[v] = "bound" /\ va[v][n] \in {"detached", "attaching"} /\ ~Busy(v, n)
    /\ v \in Sharing \/ \A m \in Node \ {n} : va[v][m] = "detached"
    /\ va' = [va EXCEPT ![v][n] = "attaching"]
    /\ Start(c, "publish", v, n, r, "check")
    /\ UNCHANGED pv

StartUnpublish(c, v, n, r) ==
    /\ va[v][n] # "detached" /\ ~Busy(v, n)
    /\ va' = [va EXCEPT ![v][n] = "detaching"]
    /\ Start(c, "unpublish", v, n, r, "lock")
    /\ UNCHANGED pv

\* A volume may be deleted while it is attached or being attached: the driver
\* has to refuse.  No publish is started for it any more; those under way go
\* on.
StartDelete(c, v, r) ==
    /\ pv[v] # "gone" /\ ~Busy(v, NoNode)
    /\ pv' = [pv EXCEPT ![v] = "deleting"]
    /\ Start(c, "delete", v, NoNode, r, "read")
    /\ UNCHANGED va

\* The client's deadline passes (or its leadership is lost).
GiveUp(c) ==
    /\ c \in open
    /\ open' = open \ {c}
    /\ UNCHANGED <<driver, tower, va, pv, suspect>>

Next ==
    \/ \E c \in Call :
          \/ Handler(c)
          \/ TaskExecute(c) \/ TaskSucceed(c) \/ TaskFail(c)
          \/ GiveUp(c)
          \/ \E v \in Volume, r \in Replica :
                \/ StartDelete(c, v, r)
                \/ \E n \in Node : StartPublish(c, v, n, r) \/ StartUnpublish(c, v, n, r)
    \/ \E r \in Replica : Crash(r)

Spec == Init /\ [][Next]_vars

\* Every request to CloudTower ends, with an error at worst, and sync.Mutex
\* hands itself to a starving waiter.  The probe of a node has no time limit:
\* Check may last for ever.
Fairness ==
    \A c \in Call : WF_vars(pc[c] # "check" /\ Handler(c)) /\ SF_vars(LockKey(c))

FairSpec == Spec /\ Fairness

-----------------------------------------------------------------------------
(* Properties. *)

\* The point of keyMutex: within one replica, two VM updates that hash to the
\* same mutex are never in progress together, from reading CloudTower's state
\* to the end of the wait; an orphaned task is the only exception.
UsesLock(c) == req[c] # NoReq /\ req[c].op # "delete"

OneUpdatePerVM ==
    \A c, d \in Call :
        /\ c # d /\ UsesLock(c) /\ UsesLock(d)
        /\ req[c].rep = req[d].rep /\ HashKey[req[c].node] = HashKey[req[d].node]
        /\ pc[c] \in Critical
        => pc[d] \notin Critical

\* When the CO was told that a volume is published on a node, it is a disk of
\* that node's VM, with retries on the same and on other replicas, late
\* handlers and late tasks, and the shortcuts of publishVolumeToVm; unless
\* calls interfered (Look).
AttachedIsAttached ==
    \A v \in Volume \ (Sharing \cup suspect), n \in Node :
        va[v][n] = "attached" => n \in disks[v]

\* When the CO was told that a volume is unpublished from a node, it is not a
\* disk of that VM, and does not become one: a late publish on the same
\* replica has finished before unpublishVolumeFromVm looks, because it holds
\* the node's mutex.  Left out are the publishes that the mutex does not order
\* (another replica, an orphaned task) and those that get to work only after
\* the answer (Look).
DetachedIsDetached ==
    \A v \in Volume \ suspect, n \in Node :
        va[v][n] = "detached" => n \notin disks[v]

\* A volume that is a disk of some VM is not deleted, and a deleted one does
\* not become a disk, with publishes and deletes started side by side and late
\* tasks of both.  DeleteVolume takes no lock and looks at Mounting once: left
\* out are a delete and a publish that have both passed their checks before
\* either has taken effect (Look).
DeleteSparesAttached ==
    \A v \in Volume \ (live \cup suspect) : disks[v] = {}

\* A delete reported as done was done.
GoneIsGone == \A v \in live : pv[v] # "gone"

\* The refinement mapping: what the orchestrator and CloudTower have is the
\* abstract state, and no promise is made for volumes whose calls interfered.
Promise == INSTANCE Attachments WITH
              status <- va, phase <- pv, disk <- disks, there <- live,
              trusted <- Volume \ suspect

\* With its calls, mutexes, tasks, retries and crashes the controller service
\* does what Attachments promises: no late or repeated task plugs in a disk
\* that nobody asks for, or takes one away that is in use.
ImplementsAttachments == Promise!AttSpec

\* What an RWX (or ROX) volume is for: published on a node, it is a disk of
\* that node's VM, however many other nodes have it.
SharedIsAttached ==
    \A v \in Sharing \ suspect, n \in Node : va[v][n] = "attached" => n \in disks[v]

\* Every RPC that got past its checks returns, whatever its competitors for
\* the mutex and CloudTower do; a node that never answers its probe holds up
\* nobody else.
EveryCallReturns ==
    \A c \in Call : pc[c] \in Running \ {"check"} ~> pc[c] \notin Running
=============================================================================
